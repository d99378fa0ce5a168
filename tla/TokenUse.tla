------------------------------- MODULE TokenUse -------------------------------
(***************************************************************************)
(* The use of the tokens of TokenGrants: bearer tokens at protected        *)
(* resources (bearer.go), introspection (revoke.go) and the part of the    *)
(* management API that deletes tokens (pkg/api), which is itself such a    *)
(* resource.                                                               *)
(*                                                                         *)
(* A call is a process of its own that makes one store call per action,    *)
(* beside the requests of TokenGrants, whose state it only reads or        *)
(* deletes tokens from.                                                    *)
(***************************************************************************)
EXTENDS TokenGrants

CONSTANTS
  Calls,  \* HTTP requests that present a token, or ask about one
  Uses,   \* bound: the kinds of call of the instance
  Filters \* bound: <<client, user, expired>> an administrator may ask for

Deletions == {"delete_access", "delete_refresh", "delete_many", "revoke_user"}
AllUses == {"resource", "introspect"} \cup Deletions

ASSUME UseAssumption ==
  /\ Uses \subseteq AllUses
  /\ Filters \subseteq (Clients \cup {None}) \X (Users \cup {None}) \X BOOLEAN

VARIABLES
  step,     \* call -> its next step, or its response
  task,     \* call -> its input
  seen,     \* call -> its copy of the token that is presented
  found,    \* call -> its copy of the refresh token that it deletes
  arrival,  \* call -> the state when it arrived: its clock, the others are history
  revoked   \* history: call -> the grants that its revocation ends

uses == <<step, task, seen, found, arrival, revoked>>

Task == [kind : AllUses \cup {"none"},
         token : Requests \cup {None},      \* the token that is presented
         table : {"access", "refresh"},     \* of the token asked about, or of those deleted
         target : Requests \cup {None},     \* the token to delete
         client : Clients \cup {None}, user : Users \cup {None}, expired : BOOLEAN]  \* a TokenFilter

NoTask == [kind |-> "none", token |-> None, table |-> "access", target |-> None,
           client |-> None, user |-> None, expired |-> FALSE]

Arrival == [now : Nat, working : BOOLEAN, enabled : SUBSET (Users \cup Clients)]

UseTypeOK ==
  /\ step \in [Calls -> {"idle", "get_token", "check_token", "get_client", "get_owner", "drop_access",
                         "get_row", "drop_refresh", "drop_many", "revoke_user", "revoke_rest",
                         "ok", "inactive", "not_found"}]
  /\ task \in [Calls -> Task]
  /\ seen \in [Calls -> Row]
  /\ found \in [Calls -> Row]
  /\ arrival \in [Calls -> Arrival]
  /\ revoked \in [Calls -> SUBSET Grants]

UseInit ==
  /\ Init
  /\ step = [v \in Calls |-> "idle"]
  /\ task = [v \in Calls |-> NoTask]
  /\ seen = [v \in Calls |-> NoRow]
  /\ found = [v \in Calls |-> NoRow]
  /\ arrival = [v \in Calls |-> [now |-> 0, working |-> FALSE, enabled |-> {}]]
  /\ revoked = [v \in Calls |-> {}]

Proceed(v, l) == step' = [step EXCEPT ![v] = l]

--------------------------------------------------------------------------------
(***************************************************************************)
(* Calls.  A bearer token is presented after the response that carried it; *)
(* the API lists the tokens that it deletes at any time.                   *)
(***************************************************************************)

Presented(t) == IF t.kind = "introspect" /\ t.table = "refresh" THEN refresh ELSE access

Call(v, t) ==
  /\ step[v] = "idle"
  /\ t.kind \in Uses
  /\ Presented(t)[t.token].st # "none" /\ pc[t.token] = "ok"
  /\ task' = [task EXCEPT ![v] = t]
  /\ arrival' = [arrival EXCEPT ![v] = [now |-> now, enabled |-> enabled,
                                        working |-> Presented(t)[t.token].st = "live"]]
  /\ Proceed(v, "get_token")
  /\ UNCHANGED <<vars, seen, found, revoked>>

CallResource(v, b) == Call(v, [NoTask EXCEPT !.kind = "resource", !.token = b])

CallIntrospect(v, b, table) ==
  Call(v, [NoTask EXCEPT !.kind = "introspect", !.token = b, !.table = table])

CallDelete(v, b, table, x) ==
  /\ (IF table = "access" THEN access ELSE refresh)[x].st # "none"
  /\ Call(v, [NoTask EXCEPT !.kind = IF table = "access" THEN "delete_access" ELSE "delete_refresh",
                            !.token = b, !.target = x])

\* An empty filter is refused.
CallDeleteMany(v, b, table, k, u, expired) ==
  /\ k # None \/ u # None \/ expired
  /\ Call(v, [NoTask EXCEPT !.kind = "delete_many", !.token = b, !.table = table, !.client = k,
                            !.user = u, !.expired = expired])

CallRevokeUser(v, b, u) ==
  Call(v, [NoTask EXCEPT !.kind = "revoke_user", !.token = b, !.user = u])

--------------------------------------------------------------------------------
(***************************************************************************)
(* ValidateAccessToken and Introspect                                      *)
(***************************************************************************)

\* Deviation: a handler is called by the kind of its call.
HandlerByKind(t) == t.kind

\* The handler behind RequireBearer, or the answer of the introspection.
Handler(t) ==
  CASE t.kind = "delete_access" -> "drop_access"
    [] t.kind = "delete_refresh" -> "get_row"
    [] t.kind = "delete_many" -> "drop_many"
    [] t.kind = "revoke_user" -> "revoke_user"
    [] OTHER -> "ok"

GetToken(v) ==
  /\ step[v] = "get_token"
  /\ LET token == Presented(task[v])[task[v].token] IN
       \/ /\ token.st = "live"
          /\ seen' = [seen EXCEPT ![v] = token]
          /\ Proceed(v, "check_token")
       \/ /\ token.st = "gone"
          /\ Proceed(v, "inactive")
          /\ UNCHANGED seen
  /\ UNCHANGED <<vars, task, found, arrival, revoked>>

\* The introspection has read the clock before the token.
CheckToken(v) ==
  /\ step[v] = "check_token"
  /\ LET time == IF task[v].kind = "introspect" THEN arrival[v].now ELSE now IN
       Proceed(v, IF HasExpired(seen[v], time) THEN "inactive" ELSE "get_client")
  /\ UNCHANGED <<vars, task, seen, found, arrival, revoked>>

\* Deviation: the registration of the client is not looked at.
AnyClient(v) == seen[v].client \in Clients

ClientActive(v) == seen[v].client \in enabled

GetClient(v) ==
  /\ step[v] = "get_client"
  /\ Proceed(v, IF ~ClientActive(v) THEN "inactive"
                ELSE IF seen[v].user = None THEN Handler(task[v]) ELSE "get_owner")
  /\ UNCHANGED <<vars, task, seen, found, arrival, revoked>>

GetOwner(v) ==
  /\ step[v] = "get_owner"
  /\ Proceed(v, IF CanSignIn(seen[v].user) THEN Handler(task[v]) ELSE "inactive")
  /\ UNCHANGED <<vars, task, seen, found, arrival, revoked>>

--------------------------------------------------------------------------------
(***************************************************************************)
(* The deletion of tokens by the API                                       *)
(***************************************************************************)

\* Alone, or after the refresh token it belongs to.
DropAccessToken(v) ==
  /\ step[v] = "drop_access"
  /\ LET single == task[v].kind = "delete_access"
         a == IF single THEN task[v].target ELSE found[v].access IN
       /\ access' = Delete(access, a)
       /\ Proceed(v, IF single /\ access[a].st # "live" THEN "not_found" ELSE "ok")
  /\ UNCHANGED <<now, enabled, codes, refresh, request, cleaner, quiet>>
  /\ UNCHANGED <<task, seen, found, arrival, revoked>>

GetRow(v) ==
  /\ step[v] = "get_row"
  /\ LET token == refresh[task[v].target] IN
       \/ /\ token.st = "live"
          /\ found' = [found EXCEPT ![v] = token]
          /\ Proceed(v, "drop_refresh")
       \/ /\ token.st = "gone"
          /\ Proceed(v, "not_found")
          /\ UNCHANGED found
  /\ UNCHANGED <<vars, task, seen, arrival, revoked>>

DropRefreshToken(v) ==
  /\ step[v] = "drop_refresh"
  /\ refresh' = Delete(refresh, task[v].target)
  /\ Proceed(v, IF refresh[task[v].target].st = "live" THEN "drop_access" ELSE "not_found")
  /\ UNCHANGED <<now, enabled, codes, access, request, cleaner, quiet>>
  /\ UNCHANGED <<task, seen, found, arrival, revoked>>

\* tokenFilter with a limit that was read since the call arrived.
FilterMatches(x, t, limit) ==
  /\ t.client # None => x.client = t.client
  /\ t.user # None => x.user = t.user
  /\ t.expired => x.exp <= limit

DropMany(v) ==
  /\ step[v] = "drop_many"
  /\ \E limit \in arrival[v].now..now :
       LET Hits(rows) == {i \in Requests : FilterMatches(rows[i], task[v], limit)} IN
         \/ /\ task[v].table = "access"
            /\ access' = Purge(access, Hits(access))
            /\ UNCHANGED refresh
         \/ /\ task[v].table = "refresh"
            /\ refresh' = Purge(refresh, Hits(refresh))
            /\ UNCHANGED access
  /\ Proceed(v, "ok")
  /\ UNCHANGED <<now, enabled, codes, request, cleaner, quiet>>
  /\ UNCHANGED <<task, seen, found, arrival, revoked>>

--------------------------------------------------------------------------------
(***************************************************************************)
(* revokeUserTokens: the user stays enabled, so that new grants may begin. *)
(***************************************************************************)

OfUser(table, u) == {i \in Requests : table[i].st # "none" /\ table[i].user = u}

GrantsOf(u) ==
  {access[i].grant : i \in OfUser(access, u)} \cup {refresh[i].grant : i \in OfUser(refresh, u)}

\* Deviation: the access tokens first, as the cleanup does it.
UserTablesSwapped == <<"access", "refresh">>

UserTables == <<"refresh", "access">>

PurgeOfUser(table, u) ==
  /\ refresh' = IF table = "refresh" THEN Purge(refresh, OfUser(refresh, u)) ELSE refresh
  /\ access' = IF table = "access" THEN Purge(access, OfUser(access, u)) ELSE access

RevokeUserFirst(v) ==
  /\ step[v] = "revoke_user"
  /\ LET u == task[v].user IN
       /\ PurgeOfUser(UserTables[1], u)
       /\ revoked' = [revoked EXCEPT ![v] =
                        IF \E q \in Requests : InFlight(q, u) THEN {} ELSE GrantsOf(u)]
  /\ Proceed(v, "revoke_rest")
  /\ UNCHANGED <<now, enabled, codes, request, cleaner, quiet>>
  /\ UNCHANGED <<task, seen, found, arrival>>

RevokeUserSecond(v) ==
  /\ step[v] = "revoke_rest"
  /\ PurgeOfUser(UserTables[2], task[v].user)
  /\ Proceed(v, "ok")
  /\ UNCHANGED <<now, enabled, codes, request, cleaner, quiet>>
  /\ UNCHANGED <<task, seen, found, arrival, revoked>>

--------------------------------------------------------------------------------
CallArrives(v) ==
  \E b \in Requests :
    \/ CallResource(v, b)
    \/ \E table \in {"access", "refresh"} :
         \/ CallIntrospect(v, b, table)
         \/ \E x \in Requests : CallDelete(v, b, table, x)
         \/ \E f \in Filters : CallDeleteMany(v, b, table, f[1], f[2], f[3])
    \/ \E u \in Users : CallRevokeUser(v, b, u)

CallSteps(v) ==
  \/ GetToken(v) \/ CheckToken(v) \/ GetClient(v) \/ GetOwner(v)
  \/ DropAccessToken(v) \/ GetRow(v) \/ DropRefreshToken(v) \/ DropMany(v)
  \/ RevokeUserFirst(v) \/ RevokeUserSecond(v)

UseNext ==
  \/ Next /\ UNCHANGED uses
  \/ \E v \in Calls : CallArrives(v) \/ CallSteps(v)

UseSpec == UseInit /\ [][UseNext]_<<vars, uses>>

--------------------------------------------------------------------------------
(***************************************************************************)
(* Properties                                                              *)
(***************************************************************************)

\* The steps of a call that has been let in.
LetIn == {"drop_access", "get_row", "drop_refresh", "drop_many", "revoke_user", "revoke_rest",
          "ok", "not_found"}

\* A call is let in only with a token that worked when it arrived: the token was neither
\* deleted nor expired, and its client and user were enabled.  The rows are not enough: a
\* request that a revocation has missed stores its token after it.
NoStaleToken ==
  \A v \in Calls : step[v] \in LetIn =>
    /\ arrival[v].working
    /\ ~HasExpired(seen[v], arrival[v].now)
    /\ seen[v].client \in arrival[v].enabled
    /\ seen[v].user = None \/ seen[v].user \in arrival[v].enabled

\* What the API says of the deletion of a refresh token: it is revoked, with its access
\* token.  No refresh in flight brings the grant back; and if its client rotates its tokens,
\* no access token of the grant is alive either when the requests are answered.
DeletedGrantEnds ==
  \A v \in Calls : step[v] = "ok" /\ task[v].kind = "delete_refresh" =>
    /\ \A t \in Live(refresh) : refresh[t].grant # found[v].grant
    /\ Quiescent /\ found[v].client \in OneTime =>
         \A a \in Live(access) : access[a].grant # found[v].grant

\* Revoking the tokens of a user who stays enabled ends all grants that had tokens, although
\* it is two deletes: if no request for the user was in flight when the first one ran, only
\* grants that begin later have tokens again.
RevokedGrantsEnd ==
  \A v \in Calls : step[v] = "ok" =>
    /\ \A t \in Live(refresh) : refresh[t].grant \notin revoked[v]
    /\ \A a \in Live(access) : access[a].grant \notin revoked[v]

================================================================================
