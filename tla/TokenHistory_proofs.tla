-------------------------- MODULE TokenHistory_proofs --------------------------
(***************************************************************************)
(* Theorems about what happened to the tokens of a grant, for every value  *)
(* of the constants of TokenGrants: a code or a one-time token is answered *)
(* once, the scopes and the absolute expiry of a grant never move, and, if *)
(* no store call fails, a refused request leaves no access token and a     *)
(* rotated grant has only one.  They rest on Typed and RightInv of         *)
(* TokenGrants_proofs.                                                     *)
(***************************************************************************)
EXTENDS TokenGrants_proofs

--------------------------------------------------------------------------------
(***************************************************************************)
(* Invariants                                                              *)
(***************************************************************************)

AdminSteps == {"get_access", "drop_refresh", "drop_access", "get_subject", "disable"}

\* Past CheckRefresh, so that the client of the request is the client of the token.
Checked == {"get_user", "delete_previous", "create_access", "rotate", "create_refresh", "undo",
            "update"}

\* A refresh has compared its input with the token, and its way from there on depends on
\* RefreshTokenUsage.
WayInv ==
  \A r \in Requests :
    /\ pc[r] \in AdminSteps => job[r].kind \in AdminKinds
    /\ pc[r] \in {"rotate", "undo"} => row[r].client \in OneTime
    /\ pc[r] = "create_refresh" /\ job[r].kind = "refresh_token" => row[r].client \in OneTime
    /\ pc[r] = "update" => row[r].client \notin OneTime
    /\ pc[r] \in Checked /\ job[r].kind = "refresh_token" =>
         row[r].client = job[r].client /\ job[r].scopes \subseteq row[r].scopes

\* The requests that have won a code, or a refresh token that is rotated.
HasExchanged(r) ==
  /\ job[r].kind = "authorization_code"
  /\ pc[r] \in {"get_user", "create_access", "create_refresh", "ok"}

HasRotated(r) ==
  /\ job[r].kind = "refresh_token" /\ job[r].client \in OneTime
  /\ pc[r] \in {"create_refresh", "ok"}

\* What a request has won is not there to be won again.
WonInv ==
  /\ \A r \in Requests : HasExchanged(r) => codes[job[r].target].st \in {"used", "gone"}
  /\ \A r \in Requests : HasRotated(r) => refresh[job[r].target].st = "gone"
  /\ \A q, r \in Requests :
       /\ \/ HasExchanged(q) /\ HasExchanged(r)
          \/ HasRotated(q) /\ HasRotated(r)
       /\ job[q].target = job[r].target
       => q = r

\* The scopes and the client of a grant are those of its code, or of its first request.
Started(g) ==
  /\ g \in Grants
  /\ g \in Codes => codes[g].st # "none"
  /\ g \in Requests => pc[g] # "idle"

ScopesOfGrant(g) == IF g \in Codes THEN codes[g].scopes ELSE job[g].scopes
ClientOfGrant(g) == IF g \in Codes THEN codes[g].client ELSE job[g].client

\* Rows of the grant it names: a row of a table, or a copy that a request has read.
OfItsGrant(x) ==
  /\ Started(x.grant)
  /\ x.client = ClientOfGrant(x.grant)
  /\ x.scopes \subseteq ScopesOfGrant(x.grant)

OfWholeGrant(x) == OfItsGrant(x) /\ x.scopes = ScopesOfGrant(x.grant)

HoldsCode == {"consume", "get_user", "create_access", "create_refresh"}

GrantInv ==
  /\ \A t \in Requests : refresh[t].st # "none" => OfWholeGrant(refresh[t])
  /\ \A a \in Requests : access[a].st # "none" => OfItsGrant(access[a])
  /\ \A c \in Codes : codes[c].st # "none" => codes[c].grant = c
  /\ \A r \in Requests :
       /\ job[r].kind = "refresh_token" /\ pc[r] \in Reading => OfWholeGrant(row[r])
       /\ job[r].kind = "authorization_code" /\ pc[r] \in {"check_code"} \cup HoldsCode =>
            OfWholeGrant(row[r]) /\ row[r].grant = job[r].target
       /\ job[r].kind = "authorization_code" /\ pc[r] \in HoldsCode => row[r].client = job[r].client
       /\ job[r].kind # "refresh_token" /\ pc[r] = "create_refresh" =>
            access[r].scopes = ScopesOfGrant(GrantOf(r))
       /\ job[r].kind = "refresh_token" /\ pc[r] = "ok" =>
            /\ refresh[job[r].target].st # "none"
            /\ refresh[job[r].target].client = job[r].client

\* A code is exchanged for the first refresh token of its grant.
FirstInv ==
  \A r, t \in Requests :
    /\ job[r].kind = "authorization_code" /\ pc[r] \in {"get_user", "create_access", "create_refresh"}
    /\ refresh[t].st # "none"
    => refresh[t].grant # job[r].target

ExpiryInv ==
  /\ AbsoluteExpiryKept
  /\ \A r \in Requests :
       job[r].kind = "refresh_token" /\ pc[r] \in Reading /\ row[r].client \notin Sliding
       => row[r].exp = refresh[job[r].target].exp

\* Without faults an access token is alive only on the way to an answer with tokens, or to
\* the undo of a rotation that came too late.
AliveInv ==
  \A r \in Requests :
    access[r].st = "live" =>
      pc[r] \in {"rotate", "create_refresh", "undo", "update", "ok", "error"}

\* The access token of a rotated grant goes with its refresh token.
Answering(a) == access[a].st = "live" /\ access[a].client \in OneTime /\ Answered(a)

\* An access token is of the input and the grant of its request.
OwnInv ==
  \A r \in Requests : access[r].st # "none" =>
    /\ pc[r] # "idle" /\ access[r].client = job[r].client
    /\ pc[r] \in {"rotate", "create_refresh", "undo", "update"} => access[r].grant = GrantOf(r)
    /\ access[r].grant \in Codes => codes[access[r].grant].st \in {"used", "gone"}

PairInv ==
  /\ \A t \in Requests :
       refresh[t].st # "none" /\ refresh[t].client \in OneTime => refresh[t].access = t
  /\ \A r \in Requests :
       job[r].kind = "refresh_token" /\ pc[r] \in Reading /\ row[r].client \in OneTime
       => row[r].access = job[r].target
  /\ \A r \in Requests :
       /\ job[r].kind = "refresh_token" /\ pc[r] \in {"create_access", "rotate"}
       /\ row[r].client \in OneTime
       => access[job[r].target].st # "live"
  /\ \A r \in Requests :
       pc[r] = "error" /\ access[r].st = "live" => access[r].client \notin OneTime

OneAnswering ==
  \A a \in Requests : Answering(a) =>
    /\ \A t \in Live(refresh) : refresh[t].grant = access[a].grant => t = a
    /\ \A r \in Requests : ~Pending(r, access[a].grant)
    /\ \A b \in Requests : Answering(b) /\ access[b].grant = access[a].grant => a = b

--------------------------------------------------------------------------------
\* What every arrival does: a request that was idle has an input and a first step, and
\* nothing else changes.
Arrived(r) ==
  /\ pc[r] = "idle"
  /\ pc'[r] \in {"get_code", "authenticate", "create_access", "get_refresh", "get_access",
                 "get_subject"}
  /\ pc'[r] \in {"get_access", "get_subject"} => job'[r].kind \in AdminKinds
  /\ pc'[r] = "get_code" <=> job'[r].kind = "authorization_code"
  /\ job'[r].kind = "refresh_token" => pc'[r] = "get_refresh"
  /\ pc'[r] = "get_refresh" => job'[r].kind \in {"refresh_token", "revoke_refresh"}
  /\ pc'[r] = "create_access" => job'[r].kind = "client_credentials" /\ job'[r].user = None
  /\ pc'[r] = "get_subject" <=> job'[r].kind = "disable"
  /\ job'[r].kind = "disable" => job'[r].target \in Users \cup Clients
  /\ job'[r].kind # "disable" => job'[r].client \in Clients \cap enabled
  /\ \A q \in Requests \ {r} : pc'[q] = pc[q] /\ job'[q] = job[q]
  /\ UNCHANGED <<now, enabled, codes, access, refresh, row, at, sweep, sweepAt, quiet>>

\* What the Accept of an endpoint does to the state, whatever it was asked.
LEMMA AcceptArrives ==
  ASSUME Typed, NEW r \in Requests, NEW j,
         NEW l \in {"get_code", "authenticate", "create_access", "get_refresh", "get_access",
                    "get_subject"},
         Accept(r, j, l),
         l \in {"get_access", "get_subject"} => j.kind \in AdminKinds,
         l = "get_code" <=> j.kind = "authorization_code",
         j.kind = "refresh_token" => l = "get_refresh",
         l = "get_refresh" => j.kind \in {"refresh_token", "revoke_refresh"},
         l = "create_access" => j.kind = "client_credentials" /\ j.user = None,
         l = "get_subject" <=> j.kind = "disable",
         j.kind = "disable" => j.target \in Users \cup Clients,
         j.kind # "disable" => j.client \in Clients \cap enabled
  PROVE  Arrived(r)
BY DEF Accept, Goto, Typed, TypeOK, Arrived

\* Each of the eight endpoints accepts a request in this way.
LEMMA ArriveStep ==
  ASSUME Typed, NEW r \in Requests, Arrive(r)
  PROVE  Arrived(r)
<1> USE DEF NoJob, AdminKinds
<1>1. ASSUME NEW c \in Codes, NEW k \in Clients, NEW v \in BOOLEAN,
             AcceptExchange(r, c, k, v)
      PROVE  Arrived(r)
  BY <1>1, AcceptArrives DEF AcceptExchange
<1>2. ASSUME NEW k \in Clients, NEW u \in Users, NEW S \in SUBSET Scopes, NEW v \in BOOLEAN,
             AcceptPassword(r, k, u, S, v)
      PROVE  Arrived(r)
  BY <1>2, AcceptArrives DEF AcceptPassword
<1>3. ASSUME NEW k \in Clients, NEW u \in Users, NEW S \in SUBSET Scopes,
             AcceptImplicit(r, k, u, S)
      PROVE  Arrived(r)
  BY <1>3, AcceptArrives DEF AcceptImplicit
<1>4. ASSUME NEW k \in Clients, NEW S \in SUBSET Scopes, AcceptClientCredentials(r, k, S)
      PROVE  Arrived(r)
  BY <1>4, AcceptArrives DEF AcceptClientCredentials
<1>5. ASSUME NEW t \in Requests, NEW k \in Clients, NEW S \in SUBSET Scopes, NEW v \in BOOLEAN,
             AcceptRefresh(r, t, k, S, v)
      PROVE  Arrived(r)
  BY <1>5, AcceptArrives DEF AcceptRefresh
<1>6. ASSUME NEW a \in Requests, NEW k \in Clients, AcceptRevokeAccess(r, a, k)
      PROVE  Arrived(r)
  BY <1>6, AcceptArrives DEF AcceptRevokeAccess
<1>7. ASSUME NEW t \in Requests, NEW k \in Clients, AcceptRevokeRefresh(r, t, k)
      PROVE  Arrived(r)
  BY <1>7, AcceptArrives DEF AcceptRevokeRefresh
<1>8. ASSUME NEW x \in Users \cup Clients, AcceptDisable(r, x)
      PROVE  Arrived(r)
  BY <1>8, AcceptArrives DEF AcceptDisable
<1>9. QED  BY <1>1, <1>2, <1>3, <1>4, <1>5, <1>6, <1>7, <1>8 DEF Arrive

\* Every step keeps the way of every request.
LEMMA WayNext == Typed /\ WayInv /\ [Next]_vars => WayInv'
<1> SUFFICES ASSUME Typed, WayInv, [Next]_vars
             PROVE  WayInv'
  OBVIOUS
<1> USE DEF Typed, TypeOK, JobInv, JobAtStep, Target, Goto, Checked, AdminSteps, AdminKinds,
        GrantKinds, WayInv
<1>1. CASE Tick
  BY <1>1 DEF Tick
<1>2. ASSUME NEW c \in Codes, NEW k \in Clients, NEW u \in Users, NEW S \in SUBSET Scopes,
             IssueCode(c, k, u, S)
      PROVE  WayInv'
  BY <1>2 DEF IssueCode
<1>3. ASSUME NEW r \in Requests, Arrive(r)
      PROVE  WayInv'
  BY <1>3, ArriveStep DEF Arrived
<1>4. ASSUME NEW r \in Requests, GetCode(r)
      PROVE  WayInv'
  BY <1>4 DEF GetCode
<1>5. ASSUME NEW r \in Requests, CheckCode(r)
      PROVE  WayInv'
  BY <1>5 DEF CheckCode, ExchangeVerdict
<1>6. ASSUME NEW r \in Requests, ConsumeCode(r)
      PROVE  WayInv'
  BY <1>6 DEF ConsumeCode
<1>7. ASSUME NEW r \in Requests, GetUser(r)
      PROVE  WayInv'
  BY <1>7 DEF GetUser
<1>8. ASSUME NEW r \in Requests, Authenticate(r)
      PROVE  WayInv'
  BY <1>8 DEF Authenticate
<1>9. ASSUME NEW r \in Requests, CreateAccess(r)
      PROVE  WayInv'
  BY <1>9 DEF CreateAccess, AfterCreateAccess
<1>10. ASSUME NEW r \in Requests, CreateRefresh(r)
      PROVE  WayInv'
  BY <1>10 DEF CreateRefresh
<1>11. ASSUME NEW r \in Requests, GetRefresh(r)
      PROVE  WayInv'
  BY <1>11 DEF GetRefresh
<1>12. ASSUME NEW r \in Requests, CheckRefresh(r)
      PROVE  WayInv'
  BY <1>12 DEF CheckRefresh, RefreshAllowed
<1>13. ASSUME NEW r \in Requests, DeletePrevious(r)
      PROVE  WayInv'
  BY <1>13 DEF DeletePrevious
<1>14. ASSUME NEW r \in Requests, Rotate(r)
      PROVE  WayInv'
  BY <1>14 DEF Rotate, AfterRotate
<1>15. ASSUME NEW r \in Requests, Undo(r)
      PROVE  WayInv'
  BY <1>15 DEF Undo
<1>16. ASSUME NEW r \in Requests, UpdateRefresh(r)
      PROVE  WayInv'
  BY <1>16 DEF UpdateRefresh
<1>17. ASSUME NEW r \in Requests, GetSubject(r)
      PROVE  WayInv'
  BY <1>17 DEF GetSubject
<1>18. ASSUME NEW r \in Requests, Disable(r)
      PROVE  WayInv'
  BY <1>18 DEF Disable
<1>19. ASSUME NEW r \in Requests, RevokeFirst(r)
      PROVE  WayInv'
  BY <1>19 DEF RevokeFirst
<1>20. ASSUME NEW r \in Requests, RevokeSecond(r)
      PROVE  WayInv'
  BY <1>20 DEF RevokeSecond
<1>21. ASSUME NEW r \in Requests, GetAccess(r)
      PROVE  WayInv'
  BY <1>21 DEF GetAccess
<1>22. ASSUME NEW r \in Requests, DropRefresh(r)
      PROVE  WayInv'
  BY <1>22 DEF DropRefresh
<1>23. ASSUME NEW r \in Requests, DropAccess(r)
      PROVE  WayInv'
  BY <1>23 DEF DropAccess
<1>24. ASSUME NEW r \in Requests, Fail(r)
      PROVE  WayInv'
  BY <1>24 DEF Fail
<1>25. CASE SweepAccess
  BY <1>25 DEF SweepAccess
<1>26. CASE SweepRefresh
  BY <1>26 DEF SweepRefresh
<1>27. CASE SweepCodes
  BY <1>27 DEF SweepCodes
<1>28. CASE SweepFail
  BY <1>28 DEF SweepFail
<1>29. CASE UNCHANGED vars
  BY <1>29 DEF vars
<1>30. QED
  BY <1>1, <1>2, <1>3, <1>4, <1>5, <1>6, <1>7, <1>8, <1>9, <1>10, <1>11, <1>12, <1>13,
     <1>14, <1>15, <1>16, <1>17, <1>18, <1>19, <1>20, <1>21, <1>22, <1>23, <1>24, <1>25,
     <1>26, <1>27, <1>28, <1>29
     DEF Next, Advance, Sweep

\* A bulk delete changes the state of the live rows it hits, and nothing else.
SameColumns(x, y) ==
  /\ x.grant = y.grant /\ x.client = y.client /\ x.user = y.user
  /\ x.scopes = y.scopes /\ x.exp = y.exp /\ x.access = y.access

OnlyDeletes(new, old) ==
  \A i \in Requests :
    /\ SameColumns(new[i], old[i])
    /\ \/ new[i].st = old[i].st
       \/ old[i].st = "live" /\ new[i].st = "gone"

\* Purge is one of these changes of a table, whatever rows it deletes.
LEMMA PurgeDeletes ==
  ASSUME NEW ids, NEW table \in [Requests -> Row]
  PROVE  OnlyDeletes(Purge(table, ids), table)
<1> SUFFICES ASSUME NEW i \in Requests
             PROVE  /\ SameColumns(Purge(table, ids)[i], table[i])
                    /\ \/ Purge(table, ids)[i].st = table[i].st
                       \/ table[i].st = "live" /\ Purge(table, ids)[i].st = "gone"
  BY DEF OnlyDeletes
<1>1. table[i] \in Row
  OBVIOUS
<1>2. CASE i \in ids /\ table[i].st = "live"
  BY <1>1, <1>2 DEF Purge, Row, SameColumns
<1>3. CASE ~(i \in ids /\ table[i].st = "live")
  BY <1>3 DEF Purge, SameColumns
<1>4. QED  BY <1>2, <1>3

\* The steps that only delete tokens, or do not touch them.
LEMMA StepDeletes ==
  ASSUME Typed, [Next]_vars
  PROVE  /\ \/ OnlyDeletes(access', access)
            \/ \E r \in Requests : CreateAccess(r)
         /\ \/ OnlyDeletes(refresh', refresh)
            \/ \E r \in Requests : CreateRefresh(r) \/ UpdateRefresh(r)
<1> DEFINE A == OnlyDeletes(access', access) \/ \E r \in Requests : CreateAccess(r)
           R == OnlyDeletes(refresh', refresh)
                  \/ \E r \in Requests : CreateRefresh(r) \/ UpdateRefresh(r)
<1>1. ASSUME UNCHANGED access  PROVE A
  <2>1. OnlyDeletes(access', access)
    BY <1>1 DEF OnlyDeletes, SameColumns
  <2>2. QED  BY <2>1
<1>2. ASSUME UNCHANGED refresh  PROVE R
  <2>1. OnlyDeletes(refresh', refresh)
    BY <1>2 DEF OnlyDeletes, SameColumns
  <2>2. QED  BY <2>1
<1>3. ASSUME NEW ids, access' = Purge(access, ids)  PROVE A
  BY <1>3, PurgeDeletes DEF Typed, TypeOK
<1>4. ASSUME NEW ids, refresh' = Purge(refresh, ids)  PROVE R
  BY <1>4, PurgeDeletes DEF Typed, TypeOK
<1>5. ASSUME NEW r \in Requests, CreateAccess(r)  PROVE A /\ R
  BY <1>2, <1>5 DEF CreateAccess
<1>6. ASSUME NEW r \in Requests, CreateRefresh(r) \/ UpdateRefresh(r)  PROVE A /\ R
  BY <1>1, <1>6 DEF CreateRefresh, UpdateRefresh
<1>7. ASSUME NEW r \in Requests, Arrive(r)  PROVE A /\ R
  BY <1>1, <1>2, <1>7, ArriveStep DEF Arrived
<1>8. ASSUME NEW r \in Requests,
             \/ GetCode(r) \/ CheckCode(r) \/ ConsumeCode(r) \/ GetUser(r) \/ Authenticate(r)
             \/ GetRefresh(r) \/ CheckRefresh(r) \/ GetSubject(r) \/ Disable(r) \/ GetAccess(r)
             \/ Fail(r)
      PROVE  A /\ R
  BY <1>1, <1>2, <1>8 DEF GetCode, CheckCode, ConsumeCode, GetUser, Authenticate, GetRefresh,
     CheckRefresh, GetSubject, Disable, GetAccess, Fail
<1>9. ASSUME NEW r \in Requests, DeletePrevious(r) \/ Undo(r) \/ DropAccess(r)  PROVE A /\ R
  BY <1>2, <1>3, <1>9 DEF DeletePrevious, Undo, DropAccess, Delete
<1>10. ASSUME NEW r \in Requests, Rotate(r) \/ DropRefresh(r)  PROVE A /\ R
  BY <1>1, <1>4, <1>10 DEF Rotate, DropRefresh, Delete
<1>11. ASSUME NEW r \in Requests, RevokeFirst(r) \/ RevokeSecond(r)  PROVE A /\ R
  BY <1>1, <1>2, <1>3, <1>4, <1>11 DEF RevokeFirst, RevokeSecond, DeleteMatching
<1>12. CASE Sweep
  BY <1>1, <1>2, <1>3, <1>4, <1>12 DEF Sweep, SweepAccess, SweepRefresh, SweepCodes
<1>13. CASE Tick \/ SweepFail \/ UNCHANGED vars
  BY <1>1, <1>2, <1>13 DEF Tick, SweepFail, vars
<1>14. ASSUME NEW c \in Codes, NEW k \in Clients, NEW u \in Users, NEW S \in SUBSET Scopes,
              IssueCode(c, k, u, S)
       PROVE  A /\ R
  BY <1>1, <1>2, <1>14 DEF IssueCode
<1>15. QED
  BY <1>5, <1>6, <1>7, <1>8, <1>9, <1>10, <1>11, <1>12, <1>13, <1>14 DEF Next, Advance

\* A deleted refresh token is never stored again: a rotation has an id of its own.
LEMMA GoneStays ==
  ASSUME Typed, RightInv, [Next]_vars, NEW t \in Requests, refresh[t].st = "gone"
  PROVE  refresh'[t].st = "gone"
<1>1. CASE OnlyDeletes(refresh', refresh)
  BY <1>1 DEF OnlyDeletes
<1>2. ASSUME NEW r \in Requests, CreateRefresh(r)
      PROVE  refresh'[t].st = "gone"
  BY <1>2 DEF CreateRefresh, RightInv, BegunInv, Typed, TypeOK
<1>3. ASSUME NEW r \in Requests, UpdateRefresh(r)
      PROVE  refresh'[t].st = "gone"
  BY <1>3 DEF UpdateRefresh, Updatable, Typed, TypeOK
<1>4. QED  BY <1>1, <1>2, <1>3, StepDeletes

\* Who writes the table of codes.
LEMMA CodeTable ==
  ASSUME Typed, [Next]_vars
  PROVE  \/ UNCHANGED codes
         \/ \E r \in Requests : ConsumeCode(r)
         \/ SweepCodes
         \/ \E c \in Codes, k \in Clients, u \in Users, S \in SUBSET Scopes : IssueCode(c, k, u, S)
<1>1. ASSUME NEW r \in Requests, Arrive(r)
      PROVE  UNCHANGED codes
  BY <1>1, ArriveStep DEF Arrived
<1>2. ASSUME NEW r \in Requests, Advance(r), ~ConsumeCode(r)
      PROVE  UNCHANGED codes
  BY <1>2 DEF Advance, GetCode, CheckCode, GetUser, Authenticate, CreateAccess, CreateRefresh,
     GetRefresh, CheckRefresh, DeletePrevious, Rotate, Undo, UpdateRefresh, GetSubject, Disable,
     RevokeFirst, RevokeSecond, GetAccess, DropRefresh, DropAccess
<1>3. QED
  BY <1>1, <1>2 DEF Next, Sweep, SweepAccess, SweepRefresh, Tick, Fail, SweepFail, vars

\* A consumed code is never issued again.
LEMMA UsedStays ==
  ASSUME Typed, [Next]_vars, NEW c \in Codes
  PROVE  /\ codes[c].st \in {"used", "gone"} => codes'[c].st \in {"used", "gone"}
         /\ codes[c].st # "none" => codes'[c].st # "none" /\ SameColumns(codes'[c], codes[c])
<1>1. ASSUME NEW r \in Requests, ConsumeCode(r)
      PROVE  /\ codes[c].st \in {"used", "gone"} => codes'[c].st \in {"used", "gone"}
             /\ codes[c].st # "none" => codes'[c].st # "none" /\ SameColumns(codes'[c], codes[c])
  BY <1>1 DEF ConsumeCode, SameColumns, Typed, TypeOK, Row
<1>2. ASSUME NEW d \in Codes, NEW k \in Clients, NEW u \in Users, NEW S \in SUBSET Scopes,
             IssueCode(d, k, u, S)
      PROVE  codes[c].st # "none" => codes'[c] = codes[c]
  BY <1>2 DEF IssueCode, Typed, TypeOK
<1>3. CASE SweepCodes
  <2>1. codes'[c] = IF codes[c].st \in {"used", "unused"} /\ ExpiredBefore(codes[c], sweepAt)
                      THEN [codes[c] EXCEPT !.st = "gone"] ELSE codes[c]
    BY <1>3 DEF SweepCodes
  <2>2. \/ codes'[c] = codes[c]
        \/ codes'[c] = [codes[c] EXCEPT !.st = "gone"] /\ codes[c].st # "none"
    BY <2>1
  <2>3. QED  BY <2>2 DEF SameColumns, Typed, TypeOK, Row
<1>4. QED  BY <1>1, <1>2, <1>3, CodeTable DEF SameColumns

\* The step that wins a code or a token, seen from its request.
Moves(q, step) == pc[q] = step /\ \A p \in Requests \ {q} : pc'[p] = pc[p]

WinsCode(q) ==
  /\ Moves(q, "consume")
  /\ codes[job[q].target].st = "unused" /\ codes'[job[q].target].st = "used"

WinsToken(q) ==
  /\ Moves(q, "rotate")
  /\ refresh[job[q].target].st = "live" /\ refresh'[job[q].target].st = "gone"

\* Only a consumed code, and a rotated token, are won.
LEMMA WonStep ==
  ASSUME Typed, WayInv, [Next]_vars, NEW q \in Requests
  PROVE  /\ HasExchanged(q)' => job'[q] = job[q] /\ (HasExchanged(q) \/ WinsCode(q))
         /\ HasRotated(q)' => job'[q] = job[q] /\ (HasRotated(q) \/ WinsToken(q))
<1> DEFINE Goal ==
      /\ HasExchanged(q)' => job'[q] = job[q] /\ (HasExchanged(q) \/ WinsCode(q))
      /\ HasRotated(q)' => job'[q] = job[q] /\ (HasRotated(q) \/ WinsToken(q))
<1> USE DEF Typed, TypeOK, JobInv, JobAtStep, Target, Goto, AdminSteps, AdminKinds, WayInv, Checked,
            HasExchanged, HasRotated, Moves, WinsCode, WinsToken
<1>1. CASE Tick
  BY <1>1 DEF Tick
<1>2. ASSUME NEW c \in Codes, NEW k \in Clients, NEW u \in Users, NEW S \in SUBSET Scopes,
             IssueCode(c, k, u, S)
      PROVE  Goal
  BY <1>2 DEF IssueCode
<1>3. ASSUME NEW r \in Requests, Arrive(r)
      PROVE  Goal
  BY <1>3, ArriveStep DEF Arrived
<1>4. ASSUME NEW r \in Requests, GetCode(r)
      PROVE  Goal
  BY <1>4 DEF GetCode
<1>5. ASSUME NEW r \in Requests, CheckCode(r)
      PROVE  Goal
  BY <1>5 DEF CheckCode, ExchangeVerdict
<1>6. ASSUME NEW r \in Requests, ConsumeCode(r)
      PROVE  Goal
  BY <1>6 DEF ConsumeCode, Consumable, Row
<1>7. ASSUME NEW r \in Requests, GetUser(r)
      PROVE  Goal
  BY <1>7 DEF GetUser
<1>8. ASSUME NEW r \in Requests, Authenticate(r)
      PROVE  Goal
  BY <1>8 DEF Authenticate
<1>9. ASSUME NEW r \in Requests, CreateAccess(r)
      PROVE  Goal
  BY <1>9 DEF CreateAccess, AfterCreateAccess
<1>10. ASSUME NEW r \in Requests, CreateRefresh(r)
      PROVE  Goal
  BY <1>10 DEF CreateRefresh
<1>11. ASSUME NEW r \in Requests, GetRefresh(r)
      PROVE  Goal
  BY <1>11 DEF GetRefresh
<1>12. ASSUME NEW r \in Requests, CheckRefresh(r)
      PROVE  Goal
  BY <1>12 DEF CheckRefresh, RefreshAllowed
<1>13. ASSUME NEW r \in Requests, DeletePrevious(r)
      PROVE  Goal
  BY <1>13 DEF DeletePrevious
<1>14. ASSUME NEW r \in Requests, Rotate(r)
      PROVE  Goal
  BY <1>14 DEF Rotate, AfterRotate, Delete, Purge, Row
<1>15. ASSUME NEW r \in Requests, Undo(r)
      PROVE  Goal
  BY <1>15 DEF Undo
<1>16. ASSUME NEW r \in Requests, UpdateRefresh(r)
      PROVE  Goal
  BY <1>16 DEF UpdateRefresh
<1>17. ASSUME NEW r \in Requests, GetSubject(r)
      PROVE  Goal
  BY <1>17 DEF GetSubject
<1>18. ASSUME NEW r \in Requests, Disable(r)
      PROVE  Goal
  BY <1>18 DEF Disable
<1>19. ASSUME NEW r \in Requests, RevokeFirst(r)
      PROVE  Goal
  BY <1>19 DEF RevokeFirst
<1>20. ASSUME NEW r \in Requests, RevokeSecond(r)
      PROVE  Goal
  BY <1>20 DEF RevokeSecond
<1>21. ASSUME NEW r \in Requests, GetAccess(r)
      PROVE  Goal
  BY <1>21 DEF GetAccess
<1>22. ASSUME NEW r \in Requests, DropRefresh(r)
      PROVE  Goal
  BY <1>22 DEF DropRefresh
<1>23. ASSUME NEW r \in Requests, DropAccess(r)
      PROVE  Goal
  BY <1>23 DEF DropAccess
<1>24. ASSUME NEW r \in Requests, Fail(r)
      PROVE  Goal
  BY <1>24 DEF Fail
<1>25. CASE SweepAccess
  BY <1>25 DEF SweepAccess
<1>26. CASE SweepRefresh
  BY <1>26 DEF SweepRefresh
<1>27. CASE SweepCodes
  BY <1>27 DEF SweepCodes
<1>28. CASE SweepFail
  BY <1>28 DEF SweepFail
<1>29. CASE UNCHANGED vars
  BY <1>29 DEF vars
<1>30. QED
  BY <1>1, <1>2, <1>3, <1>4, <1>5, <1>6, <1>7, <1>8, <1>9, <1>10, <1>11, <1>12, <1>13,
     <1>14, <1>15, <1>16, <1>17, <1>18, <1>19, <1>20, <1>21, <1>22, <1>23, <1>24, <1>25,
     <1>26, <1>27, <1>28, <1>29
     DEF Next, Advance, Sweep

\* Every step keeps that nothing is won twice.
LEMMA WonNext ==
  ASSUME Typed, RightInv, WayInv, WonInv, [Next]_vars
  PROVE  WonInv'
<1>1. \A c \in Codes : codes[c].st \in {"used", "gone"} => codes'[c].st \in {"used", "gone"}
  BY UsedStays
<1>2. \A t \in Requests : refresh[t].st = "gone" => refresh'[t].st = "gone"
  BY GoneStays
<1>3. \A r \in Requests :
        /\ HasExchanged(r) => job[r].target \in Codes
        /\ HasRotated(r) => job[r].target \in Requests
  BY DEF Typed, JobInv, Target, HasExchanged, HasRotated
<1>4. ASSUME NEW r \in Requests, HasExchanged(r)'
      PROVE  /\ job[r].target \in Codes /\ job'[r] = job[r]
             /\ codes'[job[r].target].st \in {"used", "gone"}
             /\ HasExchanged(r) \/ (codes[job[r].target].st = "unused" /\ Moves(r, "consume"))
  <2>1. job'[r] = job[r] /\ (HasExchanged(r) \/ WinsCode(r))
    BY <1>4, WonStep
  <2>2. job[r].target \in Codes
    BY <1>4, <2>1 DEF HasExchanged, Typed, JobInv, Target
  <2>3. QED  BY <1>1, <2>1, <2>2 DEF WonInv, WinsCode
<1>5. ASSUME NEW r \in Requests, HasRotated(r)'
      PROVE  /\ job[r].target \in Requests /\ job'[r] = job[r]
             /\ refresh'[job[r].target].st = "gone"
             /\ HasRotated(r) \/ (refresh[job[r].target].st = "live" /\ Moves(r, "rotate"))
  <2>1. job'[r] = job[r] /\ (HasRotated(r) \/ WinsToken(r))
    BY <1>5, WonStep
  <2>2. job[r].target \in Requests
    BY <1>5, <2>1 DEF HasRotated, Typed, JobInv, Target
  <2>3. QED  BY <1>2, <2>1, <2>2 DEF WonInv, WinsToken
<1>6. ASSUME NEW q \in Requests, NEW r \in Requests, HasExchanged(q)', HasExchanged(r)',
             job'[q].target = job'[r].target
      PROVE  q = r
  <2>1. CASE HasExchanged(q) /\ HasExchanged(r)
    BY <1>4, <1>6, <2>1 DEF WonInv
  <2>2. CASE (HasExchanged(q) /\ ~HasExchanged(r)) \/ (~HasExchanged(q) /\ HasExchanged(r))
    BY <1>4, <1>6, <2>2 DEF WonInv
  <2>3. CASE Moves(q, "consume") /\ Moves(r, "consume")
    BY <1>6, <2>3 DEF Moves, HasExchanged
  <2>4. QED  BY <1>4, <1>6, <2>1, <2>2, <2>3
<1>7. ASSUME NEW q \in Requests, NEW r \in Requests, HasRotated(q)', HasRotated(r)',
             job'[q].target = job'[r].target
      PROVE  q = r
  <2>1. CASE HasRotated(q) /\ HasRotated(r)
    BY <1>5, <1>7, <2>1 DEF WonInv
  <2>2. CASE (HasRotated(q) /\ ~HasRotated(r)) \/ (~HasRotated(q) /\ HasRotated(r))
    BY <1>5, <1>7, <2>2 DEF WonInv
  <2>3. CASE Moves(q, "rotate") /\ Moves(r, "rotate")
    BY <1>7, <2>3 DEF Moves, HasRotated
  <2>4. QED  BY <1>5, <1>7, <2>1, <2>2, <2>3
<1>8. QED  BY <1>4, <1>5, <1>6, <1>7 DEF WonInv

\* The input of a request stays what it was accepted with.
LEMMA JobFixed ==
  ASSUME Typed, [Next]_vars, NEW q \in Requests, pc[q] # "idle"
  PROVE  pc'[q] # "idle" /\ job'[q] = job[q]
<1> DEFINE Goal == pc'[q] # "idle" /\ job'[q] = job[q]
<1> USE DEF Typed, TypeOK, Goto
<1>1. CASE Tick
  BY <1>1 DEF Tick
<1>2. ASSUME NEW c \in Codes, NEW k \in Clients, NEW u \in Users, NEW S \in SUBSET Scopes,
             IssueCode(c, k, u, S)
      PROVE  Goal
  BY <1>2 DEF IssueCode
<1>3. ASSUME NEW r \in Requests, Arrive(r)
      PROVE  Goal
  BY <1>3, ArriveStep DEF Arrived
<1>4. ASSUME NEW r \in Requests, GetCode(r)
      PROVE  Goal
  BY <1>4 DEF GetCode
<1>5. ASSUME NEW r \in Requests, CheckCode(r)
      PROVE  Goal
  BY <1>5 DEF CheckCode, ExchangeVerdict
<1>6. ASSUME NEW r \in Requests, ConsumeCode(r)
      PROVE  Goal
  BY <1>6 DEF ConsumeCode
<1>7. ASSUME NEW r \in Requests, GetUser(r)
      PROVE  Goal
  BY <1>7 DEF GetUser
<1>8. ASSUME NEW r \in Requests, Authenticate(r)
      PROVE  Goal
  BY <1>8 DEF Authenticate
<1>9. ASSUME NEW r \in Requests, CreateAccess(r)
      PROVE  Goal
  BY <1>9 DEF CreateAccess, AfterCreateAccess
<1>10. ASSUME NEW r \in Requests, CreateRefresh(r)
      PROVE  Goal
  BY <1>10 DEF CreateRefresh
<1>11. ASSUME NEW r \in Requests, GetRefresh(r)
      PROVE  Goal
  BY <1>11 DEF GetRefresh
<1>12. ASSUME NEW r \in Requests, CheckRefresh(r)
      PROVE  Goal
  BY <1>12 DEF CheckRefresh
<1>13. ASSUME NEW r \in Requests, DeletePrevious(r)
      PROVE  Goal
  BY <1>13 DEF DeletePrevious
<1>14. ASSUME NEW r \in Requests, Rotate(r)
      PROVE  Goal
  BY <1>14 DEF Rotate, AfterRotate
<1>15. ASSUME NEW r \in Requests, Undo(r)
      PROVE  Goal
  BY <1>15 DEF Undo
<1>16. ASSUME NEW r \in Requests, UpdateRefresh(r)
      PROVE  Goal
  BY <1>16 DEF UpdateRefresh
<1>17. ASSUME NEW r \in Requests, GetSubject(r)
      PROVE  Goal
  BY <1>17 DEF GetSubject
<1>18. ASSUME NEW r \in Requests, Disable(r)
      PROVE  Goal
  BY <1>18 DEF Disable
<1>19. ASSUME NEW r \in Requests, RevokeFirst(r)
      PROVE  Goal
  BY <1>19 DEF RevokeFirst
<1>20. ASSUME NEW r \in Requests, RevokeSecond(r)
      PROVE  Goal
  BY <1>20 DEF RevokeSecond
<1>21. ASSUME NEW r \in Requests, GetAccess(r)
      PROVE  Goal
  BY <1>21 DEF GetAccess
<1>22. ASSUME NEW r \in Requests, DropRefresh(r)
      PROVE  Goal
  BY <1>22 DEF DropRefresh
<1>23. ASSUME NEW r \in Requests, DropAccess(r)
      PROVE  Goal
  BY <1>23 DEF DropAccess
<1>24. ASSUME NEW r \in Requests, Fail(r)
      PROVE  Goal
  BY <1>24 DEF Fail
<1>25. CASE SweepAccess
  BY <1>25 DEF SweepAccess
<1>26. CASE SweepRefresh
  BY <1>26 DEF SweepRefresh
<1>27. CASE SweepCodes
  BY <1>27 DEF SweepCodes
<1>28. CASE SweepFail
  BY <1>28 DEF SweepFail
<1>29. CASE UNCHANGED vars
  BY <1>29 DEF vars
<1>30. QED
  BY <1>1, <1>2, <1>3, <1>4, <1>5, <1>6, <1>7, <1>8, <1>9, <1>10, <1>11, <1>12, <1>13,
     <1>14, <1>15, <1>16, <1>17, <1>18, <1>19, <1>20, <1>21, <1>22, <1>23, <1>24, <1>25,
     <1>26, <1>27, <1>28, <1>29
     DEF Next, Advance, Sweep

\* What a request keeps of the row it has read, and when it reads it.
ReadsRefresh(q) ==
  /\ pc[q] = "get_refresh" /\ pc'[q] = "check_refresh"
  /\ refresh[job[q].target].st = "live" /\ row'[q] = refresh[job[q].target]
  /\ UNCHANGED <<refresh, access>>

ReadsCode(q) ==
  /\ pc[q] = "get_code" /\ pc'[q] = "check_code"
  /\ codes[job[q].target].st # "none" /\ row'[q] = codes[job[q].target]

CodeSteps == {"check_code", "consume", "get_user", "create_access", "create_refresh"}

\* A request at a step that holds a row has just read it or has held it before: no other
\* request writes its copy.
LEMMA ReadStep ==
  ASSUME Typed, [Next]_vars, NEW q \in Requests
  PROVE  /\ pc'[q] \in Reading /\ job'[q].kind = "refresh_token" =>
              job'[q] = job[q] /\ (ReadsRefresh(q) \/ (pc[q] \in Reading /\ row'[q] = row[q]))
         /\ pc'[q] \in CodeSteps /\ job'[q].kind = "authorization_code" =>
              /\ job'[q] = job[q]
              /\ \/ ReadsCode(q)
                 \/ /\ pc[q] \in CodeSteps /\ row'[q] = row[q]
                    /\ pc'[q] # "check_code" /\ pc[q] = "check_code" =>
                         row[q].client = job[q].client
<1> DEFINE Goal ==
      /\ pc'[q] \in Reading /\ job'[q].kind = "refresh_token" =>
           job'[q] = job[q] /\ (ReadsRefresh(q) \/ (pc[q] \in Reading /\ row'[q] = row[q]))
      /\ pc'[q] \in CodeSteps /\ job'[q].kind = "authorization_code" =>
           /\ job'[q] = job[q]
           /\ \/ ReadsCode(q)
              \/ /\ pc[q] \in CodeSteps /\ row'[q] = row[q]
                 /\ pc'[q] # "check_code" /\ pc[q] = "check_code" =>
                      row[q].client = job[q].client
<1> USE DEF Typed, TypeOK, JobInv, JobAtStep, Target, Goto, Reading, CodeSteps, ReadsRefresh, ReadsCode
<1>1. CASE Tick
  BY <1>1 DEF Tick
<1>2. ASSUME NEW c \in Codes, NEW k \in Clients, NEW u \in Users, NEW S \in SUBSET Scopes,
             IssueCode(c, k, u, S)
      PROVE  Goal
  BY <1>2 DEF IssueCode
<1>3. ASSUME NEW r \in Requests, Arrive(r)
      PROVE  Goal
  BY <1>3, ArriveStep DEF Arrived
<1>4. ASSUME NEW r \in Requests, GetCode(r)
      PROVE  Goal
  BY <1>4 DEF GetCode
<1>5. ASSUME NEW r \in Requests, CheckCode(r)
      PROVE  Goal
  BY <1>5 DEF CheckCode, ExchangeVerdict
<1>6. ASSUME NEW r \in Requests, ConsumeCode(r)
      PROVE  Goal
  BY <1>6 DEF ConsumeCode
<1>7. ASSUME NEW r \in Requests, GetUser(r)
      PROVE  Goal
  BY <1>7 DEF GetUser
<1>8. ASSUME NEW r \in Requests, Authenticate(r)
      PROVE  Goal
  BY <1>8 DEF Authenticate
<1>9. ASSUME NEW r \in Requests, CreateAccess(r)
      PROVE  Goal
  BY <1>9 DEF CreateAccess, AfterCreateAccess
<1>10. ASSUME NEW r \in Requests, CreateRefresh(r)
      PROVE  Goal
  BY <1>10 DEF CreateRefresh
<1>11. ASSUME NEW r \in Requests, GetRefresh(r)
      PROVE  Goal
  BY <1>11 DEF GetRefresh
<1>12. ASSUME NEW r \in Requests, CheckRefresh(r)
      PROVE  Goal
  BY <1>12 DEF CheckRefresh
<1>13. ASSUME NEW r \in Requests, DeletePrevious(r)
      PROVE  Goal
  BY <1>13 DEF DeletePrevious
<1>14. ASSUME NEW r \in Requests, Rotate(r)
      PROVE  Goal
  BY <1>14 DEF Rotate, AfterRotate
<1>15. ASSUME NEW r \in Requests, Undo(r)
      PROVE  Goal
  BY <1>15 DEF Undo
<1>16. ASSUME NEW r \in Requests, UpdateRefresh(r)
      PROVE  Goal
  BY <1>16 DEF UpdateRefresh
<1>17. ASSUME NEW r \in Requests, GetSubject(r)
      PROVE  Goal
  BY <1>17 DEF GetSubject
<1>18. ASSUME NEW r \in Requests, Disable(r)
      PROVE  Goal
  BY <1>18 DEF Disable
<1>19. ASSUME NEW r \in Requests, RevokeFirst(r)
      PROVE  Goal
  BY <1>19 DEF RevokeFirst
<1>20. ASSUME NEW r \in Requests, RevokeSecond(r)
      PROVE  Goal
  BY <1>20 DEF RevokeSecond
<1>21. ASSUME NEW r \in Requests, GetAccess(r)
      PROVE  Goal
  BY <1>21 DEF GetAccess
<1>22. ASSUME NEW r \in Requests, DropRefresh(r)
      PROVE  Goal
  BY <1>22 DEF DropRefresh
<1>23. ASSUME NEW r \in Requests, DropAccess(r)
      PROVE  Goal
  BY <1>23 DEF DropAccess
<1>24. ASSUME NEW r \in Requests, Fail(r)
      PROVE  Goal
  BY <1>24 DEF Fail
<1>25. CASE SweepAccess
  BY <1>25 DEF SweepAccess
<1>26. CASE SweepRefresh
  BY <1>26 DEF SweepRefresh
<1>27. CASE SweepCodes
  BY <1>27 DEF SweepCodes
<1>28. CASE SweepFail
  BY <1>28 DEF SweepFail
<1>29. CASE UNCHANGED vars
  BY <1>29 DEF vars
<1>30. QED
  BY <1>1, <1>2, <1>3, <1>4, <1>5, <1>6, <1>7, <1>8, <1>9, <1>10, <1>11, <1>12, <1>13,
     <1>14, <1>15, <1>16, <1>17, <1>18, <1>19, <1>20, <1>21, <1>22, <1>23, <1>24, <1>25,
     <1>26, <1>27, <1>28, <1>29
     DEF Next, Advance, Sweep


\* A first refresh token is stored right after the access token it comes with.
LEMMA CreateStep ==
  ASSUME Typed, [Next]_vars, NEW q \in Requests
  PROVE  pc'[q] = "create_refresh" /\ job'[q].kind # "refresh_token" =>
           /\ job'[q] = job[q]
           /\ \/ pc[q] = "create_refresh" /\ access'[q].scopes = access[q].scopes
              \/ pc[q] = "create_access" /\ access'[q].scopes = ScopesOf(q)
<1> DEFINE Goal ==
      pc'[q] = "create_refresh" /\ job'[q].kind # "refresh_token" =>
        /\ job'[q] = job[q]
        /\ \/ pc[q] = "create_refresh" /\ access'[q].scopes = access[q].scopes
           \/ pc[q] = "create_access" /\ access'[q].scopes = ScopesOf(q)
<1> USE DEF Typed, TypeOK, JobInv, JobAtStep, Target, Goto, Delete
<1>1. CASE Tick
  BY <1>1 DEF Tick
<1>2. ASSUME NEW c \in Codes, NEW k \in Clients, NEW u \in Users, NEW S \in SUBSET Scopes,
             IssueCode(c, k, u, S)
      PROVE  Goal
  BY <1>2 DEF IssueCode
<1>3. ASSUME NEW r \in Requests, Arrive(r)
      PROVE  Goal
  BY <1>3, ArriveStep DEF Arrived
<1>4. ASSUME NEW r \in Requests, GetCode(r)
      PROVE  Goal
  BY <1>4 DEF GetCode
<1>5. ASSUME NEW r \in Requests, CheckCode(r)
      PROVE  Goal
  BY <1>5 DEF CheckCode, ExchangeVerdict
<1>6. ASSUME NEW r \in Requests, ConsumeCode(r)
      PROVE  Goal
  BY <1>6 DEF ConsumeCode
<1>7. ASSUME NEW r \in Requests, GetUser(r)
      PROVE  Goal
  BY <1>7 DEF GetUser
<1>8. ASSUME NEW r \in Requests, Authenticate(r)
      PROVE  Goal
  BY <1>8 DEF Authenticate
<1>9. ASSUME NEW r \in Requests, CreateAccess(r)
      PROVE  Goal
  BY <1>9 DEF CreateAccess, AfterCreateAccess
<1>10. ASSUME NEW r \in Requests, CreateRefresh(r)
      PROVE  Goal
  BY <1>10 DEF CreateRefresh
<1>11. ASSUME NEW r \in Requests, GetRefresh(r)
      PROVE  Goal
  BY <1>11 DEF GetRefresh
<1>12. ASSUME NEW r \in Requests, CheckRefresh(r)
      PROVE  Goal
  BY <1>12 DEF CheckRefresh
<1>13. ASSUME NEW r \in Requests, DeletePrevious(r)
      PROVE  Goal
  BY <1>13, PurgeDeletes DEF DeletePrevious, OnlyDeletes, SameColumns
<1>14. ASSUME NEW r \in Requests, Rotate(r)
      PROVE  Goal
  BY <1>14 DEF Rotate, AfterRotate
<1>15. ASSUME NEW r \in Requests, Undo(r)
      PROVE  Goal
  BY <1>15, PurgeDeletes DEF Undo, OnlyDeletes, SameColumns
<1>16. ASSUME NEW r \in Requests, UpdateRefresh(r)
      PROVE  Goal
  BY <1>16 DEF UpdateRefresh
<1>17. ASSUME NEW r \in Requests, GetSubject(r)
      PROVE  Goal
  BY <1>17 DEF GetSubject
<1>18. ASSUME NEW r \in Requests, Disable(r)
      PROVE  Goal
  BY <1>18 DEF Disable
<1>19. ASSUME NEW r \in Requests, RevokeFirst(r)
      PROVE  Goal
  BY <1>19, PurgeDeletes DEF RevokeFirst, DeleteMatching, OnlyDeletes, SameColumns
<1>20. ASSUME NEW r \in Requests, RevokeSecond(r)
      PROVE  Goal
  BY <1>20, PurgeDeletes DEF RevokeSecond, DeleteMatching, OnlyDeletes, SameColumns
<1>21. ASSUME NEW r \in Requests, GetAccess(r)
      PROVE  Goal
  BY <1>21 DEF GetAccess
<1>22. ASSUME NEW r \in Requests, DropRefresh(r)
      PROVE  Goal
  BY <1>22 DEF DropRefresh
<1>23. ASSUME NEW r \in Requests, DropAccess(r)
      PROVE  Goal
  BY <1>23, PurgeDeletes DEF DropAccess, OnlyDeletes, SameColumns
<1>24. ASSUME NEW r \in Requests, Fail(r)
      PROVE  Goal
  BY <1>24 DEF Fail
<1>25. CASE SweepAccess
  BY <1>25, PurgeDeletes DEF SweepAccess, OnlyDeletes, SameColumns
<1>26. CASE SweepRefresh
  BY <1>26 DEF SweepRefresh
<1>27. CASE SweepCodes
  BY <1>27 DEF SweepCodes
<1>28. CASE SweepFail
  BY <1>28 DEF SweepFail
<1>29. CASE UNCHANGED vars
  BY <1>29 DEF vars
<1>30. QED
  BY <1>1, <1>2, <1>3, <1>4, <1>5, <1>6, <1>7, <1>8, <1>9, <1>10, <1>11, <1>12, <1>13,
     <1>14, <1>15, <1>16, <1>17, <1>18, <1>19, <1>20, <1>21, <1>22, <1>23, <1>24, <1>25,
     <1>26, <1>27, <1>28, <1>29
     DEF Next, Advance, Sweep

\* What a grant was begun with is never changed.
LEMMA GrantFixed ==
  ASSUME Typed, [Next]_vars, NEW g, Started(g)
  PROVE  /\ Started(g)'
         /\ ScopesOfGrant(g)' = ScopesOfGrant(g)
         /\ ClientOfGrant(g)' = ClientOfGrant(g)
<1>1. CASE g \in Codes
  <2>1. codes[g].st # "none" => codes'[g].st # "none" /\ SameColumns(codes'[g], codes[g])
    BY <1>1, UsedStays
  <2>2. QED
    BY <1>1, <2>1, ConstantAssumption DEF Started, ScopesOfGrant, ClientOfGrant, SameColumns
<1>2. CASE g \notin Codes
  <2>1. g \in Requests /\ pc[g] # "idle"
    BY <1>2 DEF Started, Grants
  <2>2. pc'[g] # "idle" /\ job'[g] = job[g]
    BY <2>1, JobFixed
  <2>3. QED  BY <1>2, <2>1, <2>2 DEF Started, ScopesOfGrant, ClientOfGrant
<1>3. QED  BY <1>1, <1>2

\* So a row with the same columns still belongs to its grant.
LEMMA WholeGrantKept ==
  ASSUME Typed, [Next]_vars, NEW x, OfWholeGrant(x), NEW y,
         y.grant = x.grant, y.client = x.client, y.scopes = x.scopes
  PROVE  /\ Started(y.grant)'
         /\ y.client = ClientOfGrant(y.grant)'
         /\ y.scopes = ScopesOfGrant(y.grant)'
BY GrantFixed DEF OfWholeGrant, OfItsGrant

--------------------------------------------------------------------------------
\* The refresh tokens keep the scopes and the client of their grant.
LEMMA RefreshOfGrant ==
  ASSUME Typed, RightInv, WayInv, GrantInv, [Next]_vars, NEW t \in Requests,
         refresh'[t].st # "none"
  PROVE  /\ Started(refresh'[t].grant)
         /\ refresh'[t].client = ClientOfGrant(refresh'[t].grant)
         /\ refresh'[t].scopes = ScopesOfGrant(refresh'[t].grant)
<1>1. CASE OnlyDeletes(refresh', refresh)
  BY <1>1 DEF OnlyDeletes, SameColumns, GrantInv, OfWholeGrant, OfItsGrant
<1>2. ASSUME NEW r \in Requests, CreateRefresh(r)
      PROVE  /\ Started(refresh'[t].grant)
             /\ refresh'[t].client = ClientOfGrant(refresh'[t].grant)
             /\ refresh'[t].scopes = ScopesOfGrant(refresh'[t].grant)
  <2>1. CASE t # r
    <3>1. refresh'[t] = refresh[t]
      BY <1>2, <2>1 DEF CreateRefresh, Typed, TypeOK
    <3>2. QED  BY <3>1 DEF GrantInv, OfWholeGrant, OfItsGrant
  <2>2. CASE t = r
    <3>1. /\ refresh'[t].grant = GrantOf(r) /\ refresh'[t].client = job[r].client
          /\ refresh'[t].scopes = RefreshScopes(r) /\ pc[r] = "create_refresh"
      BY <1>2, <2>2 DEF CreateRefresh, Typed, TypeOK
    <3>2. job[r].kind \in {"authorization_code", "password", "refresh_token"}
      BY <3>1 DEF Typed, JobInv, JobAtStep
    <3>3. CASE job[r].kind = "refresh_token"
      BY <3>1, <3>3 DEF GrantOf, RefreshScopes, GrantInv, OfWholeGrant, OfItsGrant, WayInv,
         Reading, Checked
    <3>4. CASE job[r].kind = "authorization_code"
      BY <3>1, <3>4 DEF GrantOf, RefreshScopes, GrantInv, OfWholeGrant, OfItsGrant, HoldsCode
    <3>5. CASE job[r].kind = "password"
      BY <3>1, <3>5, ConstantAssumption DEF GrantOf, RefreshScopes, GrantInv, Started,
         ClientOfGrant, Grants
    <3>6. QED  BY <3>2, <3>3, <3>4, <3>5
  <2>3. QED  BY <2>1, <2>2
<1>3. ASSUME NEW r \in Requests, UpdateRefresh(r)
      PROVE  /\ Started(refresh'[t].grant)
             /\ refresh'[t].client = ClientOfGrant(refresh'[t].grant)
             /\ refresh'[t].scopes = ScopesOfGrant(refresh'[t].grant)
  <2>1. \/ refresh'[t] = refresh[t]
        \/ t = job[r].target
             /\ refresh'[t] = [row[r] EXCEPT !.access = r, !.exp = RotatedExpiry(row[r], at[r])]
    BY <1>3 DEF UpdateRefresh, Typed, TypeOK
  <2>2. pc[r] = "update" /\ job[r].kind = "refresh_token" /\ row[r] \in Row
    BY <1>3 DEF UpdateRefresh, Typed, JobInv, JobAtStep, TypeOK
  <2>3. OfWholeGrant(row[r])
    BY <2>2 DEF GrantInv, Reading
  <2>4. \/ refresh'[t] = refresh[t]
        \/ /\ refresh'[t].grant = row[r].grant /\ refresh'[t].client = row[r].client
           /\ refresh'[t].scopes = row[r].scopes
    BY <2>1, <2>2 DEF Row
  <2>5. QED  BY <2>3, <2>4 DEF GrantInv, OfWholeGrant, OfItsGrant
<1>4. QED  BY <1>1, <1>2, <1>3, StepDeletes

\* The access tokens have the client and at most the scopes of their grant.
LEMMA AccessOfGrant ==
  ASSUME Typed, WayInv, GrantInv, [Next]_vars, NEW a \in Requests, access'[a].st # "none"
  PROVE  /\ Started(access'[a].grant)
         /\ access'[a].client = ClientOfGrant(access'[a].grant)
         /\ access'[a].scopes \subseteq ScopesOfGrant(access'[a].grant)
<1>1. CASE OnlyDeletes(access', access)
  BY <1>1 DEF OnlyDeletes, SameColumns, GrantInv, OfItsGrant
<1>2. ASSUME NEW r \in Requests, CreateAccess(r)
      PROVE  /\ Started(access'[a].grant)
             /\ access'[a].client = ClientOfGrant(access'[a].grant)
             /\ access'[a].scopes \subseteq ScopesOfGrant(access'[a].grant)
  <2>1. CASE a # r
    <3>1. access'[a] = access[a]
      BY <1>2, <2>1 DEF CreateAccess, Typed, TypeOK
    <3>2. QED  BY <3>1 DEF GrantInv, OfItsGrant
  <2>2. CASE a = r
    <3>1. /\ access'[a].grant = GrantOf(r) /\ access'[a].client = job[r].client
          /\ access'[a].scopes = ScopesOf(r) /\ pc[r] = "create_access"
      BY <1>2, <2>2 DEF CreateAccess, Typed, TypeOK
    <3>2. CASE job[r].kind = "refresh_token"
      BY <3>1, <3>2 DEF GrantOf, ScopesOf, GrantInv, OfWholeGrant, OfItsGrant, WayInv,
         Reading, Checked
    <3>3. CASE job[r].kind = "authorization_code"
      BY <3>1, <3>3 DEF GrantOf, ScopesOf, GrantInv, OfWholeGrant, OfItsGrant, HoldsCode
    <3>4. CASE job[r].kind \notin {"authorization_code", "refresh_token"}
      BY <3>1, <3>4, ConstantAssumption DEF GrantOf, ScopesOf, Started, ClientOfGrant,
         ScopesOfGrant, Grants
    <3>5. QED  BY <3>2, <3>3, <3>4
  <2>3. QED  BY <2>1, <2>2
<1>3. QED  BY <1>1, <1>2, StepDeletes

\* A code is the grant of what is issued for it.
LEMMA CodeIssued ==
  ASSUME Typed, [Next]_vars, NEW c \in Codes, codes[c].st = "none", codes'[c].st # "none"
  PROVE  codes'[c].grant = c
<1>1. \/ UNCHANGED codes
      \/ \E r \in Requests : ConsumeCode(r)
      \/ SweepCodes
      \/ \E d \in Codes, k \in Clients, u \in Users, S \in SUBSET Scopes : IssueCode(d, k, u, S)
  BY CodeTable
<1>2. ASSUME NEW r \in Requests, ConsumeCode(r)
      PROVE  codes'[c] = codes[c]
  BY <1>2 DEF ConsumeCode, Consumable, Typed, TypeOK
<1>3. CASE SweepCodes
  BY <1>3 DEF SweepCodes
<1>4. ASSUME NEW d \in Codes, NEW k \in Clients, NEW u \in Users, NEW S \in SUBSET Scopes,
             IssueCode(d, k, u, S)
      PROVE  codes'[c].grant = c
  BY <1>4 DEF IssueCode, Typed, TypeOK
<1>5. QED  BY <1>1, <1>2, <1>3, <1>4

\* A stored refresh token keeps its grant.
LEMMA StoredKeepsGrant ==
  ASSUME Typed, RightInv, [Next]_vars, NEW t \in Requests, refresh[t].st # "none"
  PROVE  refresh'[t].st # "none" /\ refresh'[t].grant = refresh[t].grant
<1>1. CASE OnlyDeletes(refresh', refresh)
  BY <1>1 DEF OnlyDeletes, SameColumns
<1>2. ASSUME NEW r \in Requests, CreateRefresh(r)
      PROVE  refresh'[t] = refresh[t]
  BY <1>2 DEF CreateRefresh, RightInv, BegunInv, Typed, TypeOK
<1>3. ASSUME NEW r \in Requests, UpdateRefresh(r)
      PROVE  refresh'[t].st # "none" /\ refresh'[t].grant = refresh[t].grant
  <2>1. \/ refresh'[t] = refresh[t]
        \/ t = job[r].target
             /\ refresh'[t] = [row[r] EXCEPT !.access = r, !.exp = RotatedExpiry(row[r], at[r])]
    BY <1>3 DEF UpdateRefresh, Typed, TypeOK
  <2>2. pc[r] = "update" /\ job[r].kind = "refresh_token" /\ row[r] \in Row
    BY <1>3 DEF UpdateRefresh, Typed, JobInv, JobAtStep, TypeOK
  <2>3. row[r].st = "live" /\ row[r].grant = refresh[job[r].target].grant
    BY <2>2 DEF RightInv, ReadInv, Reading
  <2>4. QED  BY <2>1, <2>2, <2>3 DEF Row
<1>4. QED  BY <1>1, <1>2, <1>3, StepDeletes

\* A refresh is answered when it has stored its refresh token.
LEMMA OkStep ==
  ASSUME Typed, WayInv, [Next]_vars, NEW q \in Requests,
         job'[q].kind = "refresh_token", pc'[q] = "ok"
  PROVE  job'[q] = job[q] /\ pc[q] \in {"create_refresh", "update", "ok"}
<1> DEFINE Goal == job'[q] = job[q] /\ pc[q] \in {"create_refresh", "update", "ok"}
<1> USE DEF Typed, TypeOK, JobInv, JobAtStep, Target, Goto, WayInv, AdminSteps, AdminKinds
<1>1. CASE Tick
  BY <1>1 DEF Tick
<1>2. ASSUME NEW c \in Codes, NEW k \in Clients, NEW u \in Users, NEW S \in SUBSET Scopes,
             IssueCode(c, k, u, S)
      PROVE  Goal
  BY <1>2 DEF IssueCode
<1>3. ASSUME NEW r \in Requests, Arrive(r)
      PROVE  Goal
  BY <1>3, ArriveStep DEF Arrived
<1>4. ASSUME NEW r \in Requests, GetCode(r)
      PROVE  Goal
  BY <1>4 DEF GetCode
<1>5. ASSUME NEW r \in Requests, CheckCode(r)
      PROVE  Goal
  BY <1>5 DEF CheckCode, ExchangeVerdict
<1>6. ASSUME NEW r \in Requests, ConsumeCode(r)
      PROVE  Goal
  BY <1>6 DEF ConsumeCode
<1>7. ASSUME NEW r \in Requests, GetUser(r)
      PROVE  Goal
  BY <1>7 DEF GetUser
<1>8. ASSUME NEW r \in Requests, Authenticate(r)
      PROVE  Goal
  BY <1>8 DEF Authenticate
<1>9. ASSUME NEW r \in Requests, CreateAccess(r)
      PROVE  Goal
  BY <1>9 DEF CreateAccess, AfterCreateAccess
<1>10. ASSUME NEW r \in Requests, CreateRefresh(r)
      PROVE  Goal
  BY <1>10 DEF CreateRefresh
<1>11. ASSUME NEW r \in Requests, GetRefresh(r)
      PROVE  Goal
  BY <1>11 DEF GetRefresh
<1>12. ASSUME NEW r \in Requests, CheckRefresh(r)
      PROVE  Goal
  BY <1>12 DEF CheckRefresh
<1>13. ASSUME NEW r \in Requests, DeletePrevious(r)
      PROVE  Goal
  BY <1>13 DEF DeletePrevious
<1>14. ASSUME NEW r \in Requests, Rotate(r)
      PROVE  Goal
  BY <1>14 DEF Rotate, AfterRotate
<1>15. ASSUME NEW r \in Requests, Undo(r)
      PROVE  Goal
  BY <1>15 DEF Undo
<1>16. ASSUME NEW r \in Requests, UpdateRefresh(r)
      PROVE  Goal
  BY <1>16 DEF UpdateRefresh
<1>17. ASSUME NEW r \in Requests, GetSubject(r)
      PROVE  Goal
  BY <1>17 DEF GetSubject
<1>18. ASSUME NEW r \in Requests, Disable(r)
      PROVE  Goal
  BY <1>18 DEF Disable
<1>19. ASSUME NEW r \in Requests, RevokeFirst(r)
      PROVE  Goal
  BY <1>19 DEF RevokeFirst
<1>20. ASSUME NEW r \in Requests, RevokeSecond(r)
      PROVE  Goal
  BY <1>20 DEF RevokeSecond
<1>21. ASSUME NEW r \in Requests, GetAccess(r)
      PROVE  Goal
  BY <1>21 DEF GetAccess
<1>22. ASSUME NEW r \in Requests, DropRefresh(r)
      PROVE  Goal
  BY <1>22 DEF DropRefresh
<1>23. ASSUME NEW r \in Requests, DropAccess(r)
      PROVE  Goal
  BY <1>23 DEF DropAccess
<1>24. ASSUME NEW r \in Requests, Fail(r)
      PROVE  Goal
  BY <1>24 DEF Fail
<1>25. CASE SweepAccess
  BY <1>25 DEF SweepAccess
<1>26. CASE SweepRefresh
  BY <1>26 DEF SweepRefresh
<1>27. CASE SweepCodes
  BY <1>27 DEF SweepCodes
<1>28. CASE SweepFail
  BY <1>28 DEF SweepFail
<1>29. CASE UNCHANGED vars
  BY <1>29 DEF vars
<1>30. QED
  BY <1>1, <1>2, <1>3, <1>4, <1>5, <1>6, <1>7, <1>8, <1>9, <1>10, <1>11, <1>12, <1>13,
     <1>14, <1>15, <1>16, <1>17, <1>18, <1>19, <1>20, <1>21, <1>22, <1>23, <1>24, <1>25,
     <1>26, <1>27, <1>28, <1>29
     DEF Next, Advance, Sweep

\* Every step keeps what belongs to a grant.
LEMMA GrantNext ==
  ASSUME Typed, RightInv, WayInv, GrantInv, [Next]_vars
  PROVE  GrantInv'
<1>1. ASSUME NEW t \in Requests, refresh'[t].st # "none"
      PROVE  OfWholeGrant(refresh[t])'
  <2>1. /\ Started(refresh'[t].grant)
        /\ refresh'[t].client = ClientOfGrant(refresh'[t].grant)
        /\ refresh'[t].scopes = ScopesOfGrant(refresh'[t].grant)
    BY <1>1, RefreshOfGrant
  <2>2. QED  BY <2>1, GrantFixed DEF OfWholeGrant, OfItsGrant
<1>2. ASSUME NEW a \in Requests, access'[a].st # "none"
      PROVE  OfItsGrant(access[a])'
  <2>1. /\ Started(access'[a].grant)
        /\ access'[a].client = ClientOfGrant(access'[a].grant)
        /\ access'[a].scopes \subseteq ScopesOfGrant(access'[a].grant)
    BY <1>2, AccessOfGrant
  <2>2. QED  BY <2>1, GrantFixed DEF OfItsGrant
<1>3. ASSUME NEW c \in Codes, codes'[c].st # "none"
      PROVE  codes'[c].grant = c
  <2>1. CASE codes[c].st # "none"
    BY <2>1, UsedStays DEF GrantInv, SameColumns
  <2>2. CASE codes[c].st = "none"
    BY <1>3, <2>2, CodeIssued
  <2>3. QED  BY <2>1, <2>2
<1>4. ASSUME NEW r \in Requests, job'[r].kind = "refresh_token", pc'[r] \in Reading
      PROVE  OfWholeGrant(row[r])'
  <2>1. job'[r] = job[r] /\ (ReadsRefresh(r) \/ (pc[r] \in Reading /\ row'[r] = row[r]))
    BY <1>4, ReadStep
  <2>2. OfWholeGrant(refresh[job[r].target]) \/ OfWholeGrant(row[r])
    BY <1>4, <2>1 DEF GrantInv, ReadsRefresh, Typed, JobInv, Target
  <2>3. CASE ReadsRefresh(r)
    <3>1. row'[r] = refresh[job[r].target] /\ OfWholeGrant(refresh[job[r].target])
      BY <1>4, <2>1, <2>3 DEF GrantInv, ReadsRefresh, Typed, JobInv, Target
    <3>2. QED  BY <3>1, GrantFixed DEF OfWholeGrant, OfItsGrant
  <2>4. CASE pc[r] \in Reading /\ row'[r] = row[r]
    <3>1. OfWholeGrant(row[r])
      BY <1>4, <2>1, <2>4 DEF GrantInv
    <3>2. QED  BY <2>4, <3>1, GrantFixed DEF OfWholeGrant, OfItsGrant
  <2>5. QED  BY <2>1, <2>3, <2>4
<1>5. ASSUME NEW r \in Requests, job'[r].kind = "authorization_code", pc'[r] \in CodeSteps
      PROVE  /\ OfWholeGrant(row[r])' /\ row'[r].grant = job'[r].target
             /\ pc'[r] \in HoldsCode => row'[r].client = job'[r].client
  <2>1. /\ job'[r] = job[r]
        /\ \/ ReadsCode(r)
           \/ /\ pc[r] \in CodeSteps /\ row'[r] = row[r]
              /\ pc'[r] # "check_code" /\ pc[r] = "check_code" => row[r].client = job[r].client
    BY <1>5, ReadStep
  <2>2. CASE ReadsCode(r)
    <3>1. /\ job[r].target \in Codes /\ row'[r] = codes[job[r].target] /\ pc'[r] = "check_code"
          /\ codes[job[r].target].st # "none"
      BY <1>5, <2>1, <2>2 DEF ReadsCode, Typed, JobInv, Target
    <3>2. OfWholeGrant(row'[r]) /\ row'[r].grant = job[r].target
      <4> DEFINE c == job[r].target
      <4>1. codes[c].grant = c
        BY <3>1 DEF GrantInv
      <4>2. Started(c) /\ ClientOfGrant(c) = codes[c].client /\ ScopesOfGrant(c) = codes[c].scopes
        BY <3>1, ConstantAssumption DEF Started, Grants, ClientOfGrant, ScopesOfGrant
      <4>3. QED  BY <3>1, <4>1, <4>2 DEF OfWholeGrant, OfItsGrant
    <3>3. QED  BY <2>1, <3>1, <3>2, GrantFixed DEF OfWholeGrant, OfItsGrant, HoldsCode
  <2>3. CASE ~ReadsCode(r)
    <3>1. /\ OfWholeGrant(row[r]) /\ row[r].grant = job[r].target /\ row'[r] = row[r]
          /\ pc[r] \in HoldsCode => row[r].client = job[r].client
      BY <1>5, <2>1, <2>3 DEF GrantInv, CodeSteps, HoldsCode
    <3>2. OfWholeGrant(row[r])'
      BY <3>1, GrantFixed DEF OfWholeGrant, OfItsGrant
    <3>3. pc'[r] \in HoldsCode => row[r].client = job[r].client
      BY <2>1, <2>3, <3>1 DEF CodeSteps, HoldsCode
    <3>4. QED  BY <2>1, <3>1, <3>2, <3>3
  <2>4. QED  BY <2>2, <2>3
<1>6. ASSUME NEW r \in Requests, job'[r].kind # "refresh_token", pc'[r] = "create_refresh"
      PROVE  access'[r].scopes = ScopesOfGrant(GrantOf(r))'
  <2>1. /\ job'[r] = job[r]
        /\ \/ pc[r] = "create_refresh" /\ access'[r].scopes = access[r].scopes
           \/ pc[r] = "create_access" /\ access'[r].scopes = ScopesOf(r)
    BY <1>6, CreateStep
  <2>2. Started(GrantOf(r))
    BY <1>6, <2>1, ConstantAssumption DEF GrantOf, GrantInv, Started, Grants, Typed, JobInv,
       Target, HoldsCode, OfWholeGrant, OfItsGrant
  <2>3. GrantOf(r)' = GrantOf(r)
    BY <1>6, <2>1 DEF GrantOf
  <2>4. access'[r].scopes = ScopesOfGrant(GrantOf(r))
    <3>1. CASE pc[r] = "create_refresh"
      BY <1>6, <2>1, <3>1 DEF GrantInv
    <3>2. CASE pc[r] = "create_access" /\ job[r].kind = "authorization_code"
      BY <1>6, <2>1, <3>2 DEF GrantInv, ScopesOf, GrantOf, HoldsCode, OfWholeGrant
    <3>3. CASE pc[r] = "create_access" /\ job[r].kind # "authorization_code"
      BY <1>6, <2>1, <3>3, ConstantAssumption DEF ScopesOf, GrantOf, ScopesOfGrant
    <3>4. QED  BY <2>1, <3>1, <3>2, <3>3
  <2>5. QED  BY <2>2, <2>3, <2>4, GrantFixed
<1>7. ASSUME NEW r \in Requests, job'[r].kind = "refresh_token", pc'[r] = "ok"
      PROVE  /\ refresh'[job'[r].target].st # "none"
             /\ refresh'[job'[r].target].client = job'[r].client
  <2> DEFINE t == job[r].target
  <2>1. job'[r] = job[r] /\ pc[r] \in {"create_refresh", "update", "ok"}
    BY <1>7, OkStep
  <2>2. t \in Requests
    BY <1>7, <2>1 DEF Typed, JobInv, Target
  <2>3. refresh[t].st # "none" /\ refresh[t].client = job[r].client
    <3>1. CASE pc[r] = "ok"
      BY <1>7, <2>1, <3>1 DEF GrantInv
    <3>2. CASE pc[r] # "ok"
      <4>1. /\ refresh[t].st # "none" /\ row[r].grant = refresh[t].grant
            /\ row[r].client = job[r].client /\ OfWholeGrant(row[r])
        BY <1>7, <2>1, <3>2 DEF RightInv, ReadInv, Reading, WayInv, Checked, GrantInv
      <4>2. QED  BY <2>2, <4>1 DEF GrantInv, OfWholeGrant, OfItsGrant
    <3>3. QED  BY <3>1, <3>2
  <2>4. refresh'[t].st # "none" /\ refresh'[t].grant = refresh[t].grant
    BY <2>2, <2>3, StoredKeepsGrant
  <2>5. refresh'[t].client = refresh[t].client
    BY <2>2, <2>3, <2>4, RefreshOfGrant DEF GrantInv, OfWholeGrant, OfItsGrant
  <2>6. QED  BY <2>1, <2>3, <2>4, <2>5
<1>8. QED  BY <1>1, <1>2, <1>3, <1>4, <1>5, <1>6, <1>7 DEF GrantInv, CodeSteps, HoldsCode

\* A new refresh token is the first one of its grant, or its request has read another one.
LEMMA NewToken ==
  ASSUME Typed, RightInv, NEW r \in Requests, CreateRefresh(r)
  PROVE  /\ \A t \in Requests \ {r} : refresh'[t] = refresh[t]
         /\ refresh[r].st = "none" /\ refresh'[r].st = "live"
         /\ refresh'[r].grant = GrantOf(r)
         /\ \/ job[r].kind = "password" /\ GrantOf(r) = r
            \/ job[r].kind = "authorization_code" /\ GrantOf(r) = job[r].target
            \/ /\ job[r].kind = "refresh_token"
               /\ job[r].target \in Requests /\ refresh[job[r].target].st # "none"
               /\ GrantOf(r) = refresh[job[r].target].grant
<1>1. /\ pc[r] = "create_refresh" /\ \A t \in Requests \ {r} : refresh'[t] = refresh[t]
      /\ refresh'[r].st = "live" /\ refresh'[r].grant = GrantOf(r)
  BY DEF CreateRefresh, Typed, TypeOK
<1>2. refresh[r].st = "none"
  BY <1>1 DEF RightInv, BegunInv
<1>3. job[r].kind \in {"authorization_code", "password", "refresh_token"}
  BY <1>1 DEF Typed, JobInv, JobAtStep
<1>4. job[r].kind = "refresh_token" =>
        /\ job[r].target \in Requests /\ refresh[job[r].target].st # "none"
        /\ row[r].grant = refresh[job[r].target].grant
  BY <1>1 DEF RightInv, ReadInv, Reading, Typed, JobInv, Target
<1>5. QED  BY <1>1, <1>2, <1>3, <1>4 DEF GrantOf

\* Every step keeps that an exchange in flight has no refresh token yet.
LEMMA FirstNext ==
  ASSUME Typed, RightInv, WayInv, WonInv, FirstInv, [Next]_vars
  PROVE  FirstInv'
<1> DEFINE Storing == {"get_user", "create_access", "create_refresh"}
<1> SUFFICES ASSUME NEW r \in Requests, NEW t \in Requests,
                    job'[r].kind = "authorization_code", pc'[r] \in Storing,
                    refresh'[t].st # "none"
             PROVE  refresh'[t].grant # job'[r].target
  BY DEF FirstInv
<1>1. /\ job'[r] = job[r] /\ pc[r] \in CodeSteps
      /\ HasExchanged(r) \/ WinsCode(r)
  BY WonStep, ReadStep DEF HasExchanged, CodeSteps, ReadsCode
<1>2. job[r].target \in Codes
  BY <1>1 DEF Typed, JobInv, Target
<1>3. ASSUME NEW s \in Requests, refresh[s].st # "none"
      PROVE  refresh[s].grant # job[r].target
  <2>1. CASE HasExchanged(r)
    BY <1>1, <1>3, <2>1 DEF FirstInv, HasExchanged, CodeSteps
  <2>2. CASE WinsCode(r)
    BY <1>2, <1>3, <2>2 DEF WinsCode, RightInv, BegunInv, Begun
  <2>3. QED  BY <1>1, <2>1, <2>2
<1>4. CASE refresh[t].st # "none"
  BY <1>1, <1>3, <1>4, StoredKeepsGrant
<1>5. CASE refresh[t].st = "none"
  <2>1. CreateRefresh(t)
    <3>1. CASE OnlyDeletes(refresh', refresh)
      BY <1>5, <3>1 DEF OnlyDeletes
    <3>2. ASSUME NEW x \in Requests, UpdateRefresh(x)
          PROVE  FALSE
      BY <1>5, <3>2 DEF UpdateRefresh, Updatable, Typed, TypeOK
    <3>3. ASSUME NEW x \in Requests, CreateRefresh(x)
          PROVE  x = t
      BY <1>5, <3>3, NewToken
    <3>4. QED  BY <3>1, <3>2, <3>3, StepDeletes
  <2>2. /\ refresh'[t].grant = GrantOf(t)
        /\ \/ job[t].kind = "password" /\ GrantOf(t) = t
           \/ job[t].kind = "authorization_code" /\ GrantOf(t) = job[t].target
           \/ /\ job[t].kind = "refresh_token"
              /\ job[t].target \in Requests /\ refresh[job[t].target].st # "none"
              /\ GrantOf(t) = refresh[job[t].target].grant
    BY <2>1, NewToken
  <2>3. /\ pc[t] = "create_refresh" /\ pc'[t] = "ok" /\ t # r
        /\ \A q \in Requests \ {t} : pc'[q] = pc[q]
    BY <2>1 DEF CreateRefresh, Goto, Typed, TypeOK
  <2>4. HasExchanged(r)
    BY <1>1, <2>3 DEF HasExchanged
  <2>5. CASE job[t].kind = "authorization_code"
    BY <1>1, <2>2, <2>3, <2>4, <2>5 DEF WonInv, HasExchanged
  <2>6. CASE job[t].kind # "authorization_code"
    BY <1>1, <1>2, <1>3, <2>2, <2>6, ConstantAssumption
  <2>7. QED  BY <2>5, <2>6
<1>6. QED  BY <1>4, <1>5

\* The expiry of a refresh token is that of a stored token of its grant, unless it slides or
\* the token is the first one.
LEMMA ExpiryFrom ==
  ASSUME Typed, RightInv, WayInv, GrantInv, FirstInv, ExpiryInv, [Next]_vars,
         NEW t \in Requests, refresh'[t].st # "none"
  PROVE  \/ \E s \in Requests :
              /\ refresh[s].st # "none" /\ refresh[s].grant = refresh'[t].grant
              /\ refresh[s].client = refresh'[t].client
              /\ refresh'[t].client \notin Sliding => refresh'[t].exp = refresh[s].exp
         \/ /\ CreateRefresh(t)
            /\ \A s \in Requests : refresh[s].st # "none" => refresh[s].grant # refresh'[t].grant
<1>1. CASE OnlyDeletes(refresh', refresh)
  BY <1>1 DEF OnlyDeletes, SameColumns
<1>2. ASSUME NEW r \in Requests, UpdateRefresh(r)
      PROVE  \E s \in Requests :
               /\ refresh[s].st # "none" /\ refresh[s].grant = refresh'[t].grant
               /\ refresh[s].client = refresh'[t].client
               /\ refresh'[t].client \notin Sliding => refresh'[t].exp = refresh[s].exp
  <2>1. \/ refresh'[t] = refresh[t]
        \/ t = job[r].target
             /\ refresh'[t] = [row[r] EXCEPT !.access = r, !.exp = RotatedExpiry(row[r], at[r])]
    BY <1>2 DEF UpdateRefresh, Typed, TypeOK
  <2>2. pc[r] = "update" /\ job[r].kind = "refresh_token" /\ row[r] \in Row
    BY <1>2 DEF UpdateRefresh, Typed, JobInv, JobAtStep, TypeOK
  <2>3. /\ refresh[job[r].target].st # "none" /\ row[r].grant = refresh[job[r].target].grant
        /\ row[r].client \notin Sliding => row[r].exp = refresh[job[r].target].exp
        /\ OfWholeGrant(row[r])
    BY <2>2 DEF RightInv, ReadInv, Reading, ExpiryInv, GrantInv
  <2>4. CASE refresh'[t] = refresh[t]
    BY <2>4
  <2>5. CASE refresh'[t] # refresh[t]
    <3>1. /\ t = job[r].target
          /\ refresh'[t].grant = row[r].grant /\ refresh'[t].client = row[r].client
          /\ refresh'[t].exp = RotatedExpiry(row[r], at[r])
      BY <2>1, <2>2, <2>5 DEF Row
    <3>2. refresh[t].client = row[r].client
      BY <2>3, <3>1 DEF GrantInv, OfWholeGrant, OfItsGrant
    <3>3. QED  BY <2>3, <3>1, <3>2 DEF RotatedExpiry
  <2>6. QED  BY <2>4, <2>5
<1>3. ASSUME NEW r \in Requests, CreateRefresh(r), t # r
      PROVE  refresh'[t] = refresh[t]
  BY <1>3, NewToken
<1>4. CASE CreateRefresh(t)
  <2>1. pc[t] = "create_refresh" /\ refresh'[t].grant = GrantOf(t)
    BY <1>4, NewToken DEF CreateRefresh
  <2>2. CASE job[t].kind = "password"
    BY <1>4, <2>1, <2>2, NewToken, ConstantAssumption DEF RightInv, BegunInv, Begun, Grants
  <2>3. CASE job[t].kind = "authorization_code"
    BY <1>4, <2>1, <2>3, NewToken DEF FirstInv
  <2>4. CASE job[t].kind = "refresh_token"
    <3> DEFINE s == job[t].target
    <3>1. s \in Requests /\ refresh[s].st # "none" /\ GrantOf(t) = refresh[s].grant
      BY <1>4, <2>4, NewToken
    <3>2. /\ OfWholeGrant(row[t]) /\ row[t].client = job[t].client
          /\ row[t].grant = refresh[s].grant
          /\ row[t].client \notin Sliding => row[t].exp = refresh[s].exp
      BY <2>1, <2>4 DEF GrantInv, ExpiryInv, Reading, WayInv, Checked, RightInv, ReadInv
    <3>3. refresh[s].client = row[t].client
      BY <3>1, <3>2 DEF GrantInv, OfWholeGrant, OfItsGrant
    <3>4. /\ refresh'[t].client = job[t].client
          /\ refresh'[t].exp = RotatedExpiry(row[t], at[t])
      BY <1>4, <2>4 DEF CreateRefresh, Typed, TypeOK
    <3>5. QED  BY <2>1, <3>1, <3>2, <3>3, <3>4 DEF RotatedExpiry
  <2>5. QED  BY <1>4, <2>2, <2>3, <2>4, NewToken
<1>5. QED  BY <1>1, <1>2, <1>3, <1>4, StepDeletes

\* Every step keeps the expiry of the grants that have an absolute one.
LEMMA ExpiryNext ==
  ASSUME Typed, RightInv, WayInv, GrantInv, GrantInv', FirstInv, ExpiryInv, [Next]_vars
  PROVE  ExpiryInv'
<1> DEFINE From(t) == \E s \in Requests :
              /\ refresh[s].st # "none" /\ refresh[s].grant = refresh'[t].grant
              /\ refresh[s].client = refresh'[t].client
              /\ refresh'[t].client \notin Sliding => refresh'[t].exp = refresh[s].exp
           First(t) ==
              /\ CreateRefresh(t)
              /\ \A s \in Requests : refresh[s].st # "none" => refresh[s].grant # refresh'[t].grant
<1>1. ASSUME NEW t \in Requests, NEW u \in Requests,
             refresh'[t].st # "none", refresh'[u].st # "none",
             refresh'[t].grant = refresh'[u].grant, refresh'[t].client \notin Sliding
      PROVE  refresh'[t].exp = refresh'[u].exp
  <2>1. (From(t) \/ First(t)) /\ (From(u) \/ First(u))
    BY <1>1, ExpiryFrom
  <2>2. CASE From(t) /\ From(u)
    <3>1. PICK s \in Requests :
              /\ refresh[s].st # "none" /\ refresh[s].grant = refresh'[t].grant
              /\ refresh[s].client = refresh'[t].client
              /\ refresh'[t].client \notin Sliding => refresh'[t].exp = refresh[s].exp
      BY <2>2
    <3>2. PICK v \in Requests :
              /\ refresh[v].st # "none" /\ refresh[v].grant = refresh'[u].grant
              /\ refresh[v].client = refresh'[u].client
              /\ refresh'[u].client \notin Sliding => refresh'[u].exp = refresh[v].exp
      BY <2>2
    <3>3. refresh[s].client = refresh[v].client
      BY <1>1, <3>1, <3>2 DEF GrantInv, OfWholeGrant, OfItsGrant
    <3>4. refresh[s].exp = refresh[v].exp
      BY <1>1, <3>1, <3>2 DEF ExpiryInv, AbsoluteExpiryKept, Stored
    <3>5. QED  BY <1>1, <3>1, <3>2, <3>3, <3>4
  <2>3. CASE First(t) /\ First(u)
    <3>1. t = u
      BY <2>3 DEF CreateRefresh, Goto, Typed, TypeOK
    <3>2. QED  BY <3>1
  <2>4. CASE (From(t) /\ First(u)) \/ (First(t) /\ From(u))
    BY <1>1, <2>4
  <2>5. QED  BY <2>1, <2>2, <2>3, <2>4
<1>2. ASSUME NEW r \in Requests, job'[r].kind = "refresh_token", pc'[r] \in Reading,
             row'[r].client \notin Sliding
      PROVE  row'[r].exp = refresh'[job'[r].target].exp
  <2> DEFINE t == job[r].target
  <2>1. job'[r] = job[r] /\ (ReadsRefresh(r) \/ (pc[r] \in Reading /\ row'[r] = row[r]))
    BY <1>2, ReadStep
  <2>2. t \in Requests
    BY <1>2, <2>1 DEF Typed, JobInv, Target
  <2>3. CASE ReadsRefresh(r)
    BY <2>1, <2>3 DEF ReadsRefresh
  <2>4. CASE pc[r] \in Reading /\ row'[r] = row[r]
    <3>1. /\ refresh[t].st # "none" /\ row[r].grant = refresh[t].grant
          /\ row[r].exp = refresh[t].exp /\ OfWholeGrant(row[r])
      BY <1>2, <2>1, <2>4 DEF RightInv, ReadInv, ExpiryInv, GrantInv
    <3>2. refresh[t].client = row[r].client
      BY <2>2, <3>1 DEF GrantInv, OfWholeGrant, OfItsGrant
    <3>3. refresh'[t].st # "none" /\ refresh'[t].grant = refresh[t].grant
      BY <2>2, <3>1, StoredKeepsGrant
    <3>4. From(t)
      BY <2>2, <3>1, <3>3, ExpiryFrom
    <3>5. PICK s \in Requests :
              /\ refresh[s].st # "none" /\ refresh[s].grant = refresh'[t].grant
              /\ refresh[s].client = refresh'[t].client
              /\ refresh'[t].client \notin Sliding => refresh'[t].exp = refresh[s].exp
      BY <3>4
    <3>6. refresh[s].client = refresh[t].client
      <4>1. OfWholeGrant(refresh[s]) /\ OfWholeGrant(refresh[t])
        BY <2>2, <3>1, <3>5 DEF GrantInv
      <4>2. refresh[s].grant = refresh[t].grant
        BY <3>3, <3>5
      <4>3. QED  BY <4>1, <4>2 DEF OfWholeGrant, OfItsGrant
    <3>7. refresh[s].exp = refresh[t].exp
      BY <1>2, <2>2, <2>4, <3>1, <3>2, <3>3, <3>5, <3>6 DEF ExpiryInv, AbsoluteExpiryKept, Stored
    <3>8. QED  BY <1>2, <2>1, <2>4, <3>1, <3>2, <3>5, <3>6, <3>7
  <2>5. QED  BY <2>1, <2>3, <2>4
<1>3. AbsoluteExpiryKept'
  BY <1>1 DEF AbsoluteExpiryKept, Stored
<1>4. QED  BY <1>2, <1>3 DEF ExpiryInv

\* Without faults every step keeps which access tokens may be alive.
LEMMA AliveNext ==
  ASSUME ~Faults, Typed, AliveInv, [Next]_vars
  PROVE  AliveInv'
<1> USE DEF Typed, TypeOK, JobInv, JobAtStep, Target, Goto, AliveInv, Delete
<1>1. CASE Tick
  BY <1>1 DEF Tick
<1>2. ASSUME NEW c \in Codes, NEW k \in Clients, NEW u \in Users, NEW S \in SUBSET Scopes,
             IssueCode(c, k, u, S)
      PROVE  AliveInv'
  BY <1>2 DEF IssueCode
<1>3. ASSUME NEW r \in Requests, Arrive(r)
      PROVE  AliveInv'
  BY <1>3, ArriveStep DEF Arrived
<1>4. ASSUME NEW r \in Requests, GetCode(r)
      PROVE  AliveInv'
  BY <1>4 DEF GetCode
<1>5. ASSUME NEW r \in Requests, CheckCode(r)
      PROVE  AliveInv'
  BY <1>5 DEF CheckCode, ExchangeVerdict
<1>6. ASSUME NEW r \in Requests, ConsumeCode(r)
      PROVE  AliveInv'
  BY <1>6 DEF ConsumeCode
<1>7. ASSUME NEW r \in Requests, GetUser(r)
      PROVE  AliveInv'
  BY <1>7 DEF GetUser
<1>8. ASSUME NEW r \in Requests, Authenticate(r)
      PROVE  AliveInv'
  BY <1>8 DEF Authenticate
<1>9. ASSUME NEW r \in Requests, CreateAccess(r)
      PROVE  AliveInv'
  BY <1>9 DEF CreateAccess, AfterCreateAccess
<1>10. ASSUME NEW r \in Requests, CreateRefresh(r)
      PROVE  AliveInv'
  BY <1>10 DEF CreateRefresh
<1>11. ASSUME NEW r \in Requests, GetRefresh(r)
      PROVE  AliveInv'
  BY <1>11 DEF GetRefresh
<1>12. ASSUME NEW r \in Requests, CheckRefresh(r)
      PROVE  AliveInv'
  BY <1>12 DEF CheckRefresh
<1>13. ASSUME NEW r \in Requests, DeletePrevious(r)
      PROVE  AliveInv'
  BY <1>13, PurgeDeletes DEF DeletePrevious, OnlyDeletes
<1>14. ASSUME NEW r \in Requests, Rotate(r)
      PROVE  AliveInv'
  BY <1>14 DEF Rotate, AfterRotate
<1>15. ASSUME NEW r \in Requests, Undo(r)
      PROVE  AliveInv'
  <2>1. access' = Delete(access, r)
    BY <1>15 DEF Undo, Undone
  <2>2. access'[r].st # "live"
    BY <2>1 DEF Delete, Purge, Row
  <2>3. QED  BY <1>15, <2>1, <2>2, PurgeDeletes DEF Undo, OnlyDeletes
<1>16. ASSUME NEW r \in Requests, UpdateRefresh(r)
      PROVE  AliveInv'
  BY <1>16 DEF UpdateRefresh
<1>17. ASSUME NEW r \in Requests, GetSubject(r)
      PROVE  AliveInv'
  BY <1>17 DEF GetSubject
<1>18. ASSUME NEW r \in Requests, Disable(r)
      PROVE  AliveInv'
  BY <1>18 DEF Disable
<1>19. ASSUME NEW r \in Requests, RevokeFirst(r)
      PROVE  AliveInv'
  BY <1>19, PurgeDeletes DEF RevokeFirst, DeleteMatching, OnlyDeletes
<1>20. ASSUME NEW r \in Requests, RevokeSecond(r)
      PROVE  AliveInv'
  BY <1>20, PurgeDeletes DEF RevokeSecond, DeleteMatching, OnlyDeletes
<1>21. ASSUME NEW r \in Requests, GetAccess(r)
      PROVE  AliveInv'
  BY <1>21 DEF GetAccess
<1>22. ASSUME NEW r \in Requests, DropRefresh(r)
      PROVE  AliveInv'
  BY <1>22 DEF DropRefresh
<1>23. ASSUME NEW r \in Requests, DropAccess(r)
      PROVE  AliveInv'
  BY <1>23, PurgeDeletes DEF DropAccess, OnlyDeletes
<1>24. ASSUME NEW r \in Requests, Fail(r)
      PROVE  AliveInv'
  BY <1>24 DEF Fail
<1>25. CASE SweepAccess
  BY <1>25, PurgeDeletes DEF SweepAccess, OnlyDeletes
<1>26. CASE SweepRefresh
  BY <1>26 DEF SweepRefresh
<1>27. CASE SweepCodes
  BY <1>27 DEF SweepCodes
<1>28. CASE SweepFail
  BY <1>28 DEF SweepFail
<1>29. CASE UNCHANGED vars
  BY <1>29 DEF vars
<1>30. QED
  BY <1>1, <1>2, <1>3, <1>4, <1>5, <1>6, <1>7, <1>8, <1>9, <1>10, <1>11, <1>12, <1>13,
     <1>14, <1>15, <1>16, <1>17, <1>18, <1>19, <1>20, <1>21, <1>22, <1>23, <1>24, <1>25,
     <1>26, <1>27, <1>28, <1>29
     DEF Next, Advance, Sweep

\* Who comes to hold the right of a grant: the request that is its first, that consumes its
\* code, or that rotates its refresh token.
TakesRight(q, g) ==
  \/ pc[q] = "idle" /\ g = q
  \/ /\ pc[q] = "consume" /\ pc'[q] = "get_user" /\ g = job[q].target
     /\ g \in Codes /\ codes[g].st = "unused"
  \/ /\ pc[q] = "rotate" /\ pc'[q] = "create_refresh" /\ g = row[q].grant
     /\ job[q].kind = "refresh_token" /\ refresh[job[q].target].st = "live"

\* A right to create tokens comes from the state before or is taken by this step.
LEMMA PendingStep ==
  ASSUME Typed, [Next]_vars, NEW q \in Requests, NEW g, Pending(q, g)'
  PROVE  Pending(q, g) \/ TakesRight(q, g)
<1> DEFINE Goal == Pending(q, g) \/ TakesRight(q, g)
<1> USE DEF Typed, TypeOK, JobInv, JobAtStep, Target, Goto, Pending, TakesRight
<1>1. CASE Tick
  BY <1>1 DEF Tick
<1>2. ASSUME NEW c \in Codes, NEW k \in Clients, NEW u \in Users, NEW S \in SUBSET Scopes,
             IssueCode(c, k, u, S)
      PROVE  Goal
  BY <1>2 DEF IssueCode
<1>3. ASSUME NEW r \in Requests, Arrive(r)
      PROVE  Goal
  BY <1>3, ArriveStep DEF Arrived
<1>4. ASSUME NEW r \in Requests, GetCode(r)
      PROVE  Goal
  BY <1>4 DEF GetCode
<1>5. ASSUME NEW r \in Requests, CheckCode(r)
      PROVE  Goal
  BY <1>5 DEF CheckCode, ExchangeVerdict
<1>6. ASSUME NEW r \in Requests, ConsumeCode(r)
      PROVE  Goal
  BY <1>6 DEF ConsumeCode, Consumable
<1>7. ASSUME NEW r \in Requests, GetUser(r)
      PROVE  Goal
  BY <1>7 DEF GetUser
<1>8. ASSUME NEW r \in Requests, Authenticate(r)
      PROVE  Goal
  BY <1>8 DEF Authenticate
<1>9. ASSUME NEW r \in Requests, CreateAccess(r)
      PROVE  Goal
  BY <1>9 DEF CreateAccess, AfterCreateAccess
<1>10. ASSUME NEW r \in Requests, CreateRefresh(r)
      PROVE  Goal
  BY <1>10 DEF CreateRefresh
<1>11. ASSUME NEW r \in Requests, GetRefresh(r)
      PROVE  Goal
  BY <1>11 DEF GetRefresh
<1>12. ASSUME NEW r \in Requests, CheckRefresh(r)
      PROVE  Goal
  BY <1>12 DEF CheckRefresh
<1>13. ASSUME NEW r \in Requests, DeletePrevious(r)
      PROVE  Goal
  BY <1>13 DEF DeletePrevious
<1>14. ASSUME NEW r \in Requests, Rotate(r)
      PROVE  Goal
  BY <1>14 DEF Rotate, AfterRotate
<1>15. ASSUME NEW r \in Requests, Undo(r)
      PROVE  Goal
  BY <1>15 DEF Undo
<1>16. ASSUME NEW r \in Requests, UpdateRefresh(r)
      PROVE  Goal
  BY <1>16 DEF UpdateRefresh
<1>17. ASSUME NEW r \in Requests, GetSubject(r)
      PROVE  Goal
  BY <1>17 DEF GetSubject
<1>18. ASSUME NEW r \in Requests, Disable(r)
      PROVE  Goal
  BY <1>18 DEF Disable
<1>19. ASSUME NEW r \in Requests, RevokeFirst(r)
      PROVE  Goal
  BY <1>19 DEF RevokeFirst
<1>20. ASSUME NEW r \in Requests, RevokeSecond(r)
      PROVE  Goal
  BY <1>20 DEF RevokeSecond
<1>21. ASSUME NEW r \in Requests, GetAccess(r)
      PROVE  Goal
  BY <1>21 DEF GetAccess
<1>22. ASSUME NEW r \in Requests, DropRefresh(r)
      PROVE  Goal
  BY <1>22 DEF DropRefresh
<1>23. ASSUME NEW r \in Requests, DropAccess(r)
      PROVE  Goal
  BY <1>23 DEF DropAccess
<1>24. ASSUME NEW r \in Requests, Fail(r)
      PROVE  Goal
  BY <1>24 DEF Fail
<1>25. CASE SweepAccess
  BY <1>25 DEF SweepAccess
<1>26. CASE SweepRefresh
  BY <1>26 DEF SweepRefresh
<1>27. CASE SweepCodes
  BY <1>27 DEF SweepCodes
<1>28. CASE SweepFail
  BY <1>28 DEF SweepFail
<1>29. CASE UNCHANGED vars
  BY <1>29 DEF vars
<1>30. QED
  BY <1>1, <1>2, <1>3, <1>4, <1>5, <1>6, <1>7, <1>8, <1>9, <1>10, <1>11, <1>12, <1>13,
     <1>14, <1>15, <1>16, <1>17, <1>18, <1>19, <1>20, <1>21, <1>22, <1>23, <1>24, <1>25,
     <1>26, <1>27, <1>28, <1>29
     DEF Next, Advance, Sweep

\* An access token that is alive and answered was so before, or is answered by this step.
AnswersNow(q) ==
  /\ Moves(q, pc[q]) /\ pc'[q] \notin {"get_user", "create_access", "create_refresh"}
  /\ \/ pc[q] = "create_access" /\ Pending(q, GrantOf(q)) /\ access'[q].grant = GrantOf(q)
     \/ pc[q] = "create_refresh" /\ access[q].st = "live"
     \/ pc[q] = "update" /\ access[q].st = "live"

\* Without faults, an answer with a live access token was given before or is given by this step.
LEMMA AnswerStep ==
  ASSUME ~Faults, Typed, AliveInv, AliveInv', [Next]_vars, NEW q \in Requests,
         access'[q].st = "live", Answered(q)'
  PROVE  (Answered(q) /\ access[q].st = "live") \/ AnswersNow(q)
<1> DEFINE Goal == (Answered(q) /\ access[q].st = "live") \/ AnswersNow(q)
<1> USE DEF Typed, TypeOK, JobInv, JobAtStep, Target, Goto, Answered, Responses,
   AnswersNow, Moves, AliveInv, Delete
<1>1. CASE Tick
  BY <1>1 DEF Tick
<1>2. ASSUME NEW c \in Codes, NEW k \in Clients, NEW u \in Users, NEW S \in SUBSET Scopes,
             IssueCode(c, k, u, S)
      PROVE  Goal
  BY <1>2 DEF IssueCode
<1>3. ASSUME NEW r \in Requests, Arrive(r)
      PROVE  Goal
  BY <1>3, ArriveStep DEF Arrived
<1>4. ASSUME NEW r \in Requests, GetCode(r)
      PROVE  Goal
  BY <1>4 DEF GetCode
<1>5. ASSUME NEW r \in Requests, CheckCode(r)
      PROVE  Goal
  BY <1>5 DEF CheckCode, ExchangeVerdict
<1>6. ASSUME NEW r \in Requests, ConsumeCode(r)
      PROVE  Goal
  BY <1>6 DEF ConsumeCode
<1>7. ASSUME NEW r \in Requests, GetUser(r)
      PROVE  Goal
  BY <1>7 DEF GetUser
<1>8. ASSUME NEW r \in Requests, Authenticate(r)
      PROVE  Goal
  BY <1>8 DEF Authenticate
<1>9. ASSUME NEW r \in Requests, CreateAccess(r)
      PROVE  Goal
  BY <1>9 DEF CreateAccess, AfterCreateAccess, Pending, GrantOf, GrantKinds
<1>10. ASSUME NEW r \in Requests, CreateRefresh(r)
      PROVE  Goal
  BY <1>10 DEF CreateRefresh
<1>11. ASSUME NEW r \in Requests, GetRefresh(r)
      PROVE  Goal
  BY <1>11 DEF GetRefresh
<1>12. ASSUME NEW r \in Requests, CheckRefresh(r)
      PROVE  Goal
  BY <1>12 DEF CheckRefresh
<1>13. ASSUME NEW r \in Requests, DeletePrevious(r)
      PROVE  Goal
  BY <1>13, PurgeDeletes DEF DeletePrevious, OnlyDeletes
<1>14. ASSUME NEW r \in Requests, Rotate(r)
      PROVE  Goal
  BY <1>14 DEF Rotate, AfterRotate
<1>15. ASSUME NEW r \in Requests, Undo(r)
      PROVE  Goal
  <2>1. pc' = [pc EXCEPT ![r] = "invalid_grant"] /\ pc[r] = "undo"
    BY <1>15 DEF Undo
  <2>2. q # r
    BY <2>1
  <2>3. pc'[q] = pc[q] /\ access[q].st = "live"
    BY <1>15, <2>1, <2>2, PurgeDeletes DEF Undo, OnlyDeletes
  <2>4. QED  BY <2>3
<1>16. ASSUME NEW r \in Requests, UpdateRefresh(r)
      PROVE  Goal
  BY <1>16 DEF UpdateRefresh
<1>17. ASSUME NEW r \in Requests, GetSubject(r)
      PROVE  Goal
  BY <1>17 DEF GetSubject
<1>18. ASSUME NEW r \in Requests, Disable(r)
      PROVE  Goal
  BY <1>18 DEF Disable
<1>19. ASSUME NEW r \in Requests, RevokeFirst(r)
      PROVE  Goal
  BY <1>19, PurgeDeletes DEF RevokeFirst, DeleteMatching, OnlyDeletes
<1>20. ASSUME NEW r \in Requests, RevokeSecond(r)
      PROVE  Goal
  BY <1>20, PurgeDeletes DEF RevokeSecond, DeleteMatching, OnlyDeletes
<1>21. ASSUME NEW r \in Requests, GetAccess(r)
      PROVE  Goal
  BY <1>21 DEF GetAccess
<1>22. ASSUME NEW r \in Requests, DropRefresh(r)
      PROVE  Goal
  BY <1>22 DEF DropRefresh
<1>23. ASSUME NEW r \in Requests, DropAccess(r)
      PROVE  Goal
  BY <1>23, PurgeDeletes DEF DropAccess, OnlyDeletes
<1>24. ASSUME NEW r \in Requests, Fail(r)
      PROVE  Goal
  BY <1>24 DEF Fail
<1>25. CASE SweepAccess
  BY <1>25, PurgeDeletes DEF SweepAccess, OnlyDeletes
<1>26. CASE SweepRefresh
  BY <1>26 DEF SweepRefresh
<1>27. CASE SweepCodes
  BY <1>27 DEF SweepCodes
<1>28. CASE SweepFail
  BY <1>28 DEF SweepFail
<1>29. CASE UNCHANGED vars
  BY <1>29 DEF vars
<1>30. QED
  BY <1>1, <1>2, <1>3, <1>4, <1>5, <1>6, <1>7, <1>8, <1>9, <1>10, <1>11, <1>12, <1>13,
     <1>14, <1>15, <1>16, <1>17, <1>18, <1>19, <1>20, <1>21, <1>22, <1>23, <1>24, <1>25,
     <1>26, <1>27, <1>28, <1>29
     DEF Next, Advance, Sweep

\* A rotation deletes the access token it replaces.
LEMMA RotateStep ==
  ASSUME Typed, [Next]_vars, NEW q \in Requests,
         job'[q].kind = "refresh_token", pc'[q] \in {"create_access", "rotate"},
         row[q].access \in Requests
  PROVE  pc[q] \in {"create_access", "rotate"} \/ access'[row[q].access].st # "live"
<1> DEFINE Goal == pc[q] \in {"create_access", "rotate"} \/ access'[row[q].access].st # "live"
<1> USE DEF Typed, TypeOK, JobInv, JobAtStep, Target, Goto
<1>1. CASE Tick
  BY <1>1 DEF Tick
<1>2. ASSUME NEW c \in Codes, NEW k \in Clients, NEW u \in Users, NEW S \in SUBSET Scopes,
             IssueCode(c, k, u, S)
      PROVE  Goal
  BY <1>2 DEF IssueCode
<1>3. ASSUME NEW r \in Requests, Arrive(r)
      PROVE  Goal
  BY <1>3, ArriveStep DEF Arrived
<1>4. ASSUME NEW r \in Requests, GetCode(r)
      PROVE  Goal
  BY <1>4 DEF GetCode
<1>5. ASSUME NEW r \in Requests, CheckCode(r)
      PROVE  Goal
  BY <1>5 DEF CheckCode, ExchangeVerdict
<1>6. ASSUME NEW r \in Requests, ConsumeCode(r)
      PROVE  Goal
  BY <1>6 DEF ConsumeCode
<1>7. ASSUME NEW r \in Requests, GetUser(r)
      PROVE  Goal
  BY <1>7 DEF GetUser
<1>8. ASSUME NEW r \in Requests, Authenticate(r)
      PROVE  Goal
  BY <1>8 DEF Authenticate
<1>9. ASSUME NEW r \in Requests, CreateAccess(r)
      PROVE  Goal
  BY <1>9 DEF CreateAccess, AfterCreateAccess
<1>10. ASSUME NEW r \in Requests, CreateRefresh(r)
      PROVE  Goal
  BY <1>10 DEF CreateRefresh
<1>11. ASSUME NEW r \in Requests, GetRefresh(r)
      PROVE  Goal
  BY <1>11 DEF GetRefresh
<1>12. ASSUME NEW r \in Requests, CheckRefresh(r)
      PROVE  Goal
  BY <1>12 DEF CheckRefresh
<1>13. ASSUME NEW r \in Requests, DeletePrevious(r)
      PROVE  Goal
  BY <1>13 DEF DeletePrevious, Previous, Delete, Purge, Row
<1>14. ASSUME NEW r \in Requests, Rotate(r)
      PROVE  Goal
  BY <1>14 DEF Rotate, AfterRotate
<1>15. ASSUME NEW r \in Requests, Undo(r)
      PROVE  Goal
  BY <1>15 DEF Undo
<1>16. ASSUME NEW r \in Requests, UpdateRefresh(r)
      PROVE  Goal
  BY <1>16 DEF UpdateRefresh
<1>17. ASSUME NEW r \in Requests, GetSubject(r)
      PROVE  Goal
  BY <1>17 DEF GetSubject
<1>18. ASSUME NEW r \in Requests, Disable(r)
      PROVE  Goal
  BY <1>18 DEF Disable
<1>19. ASSUME NEW r \in Requests, RevokeFirst(r)
      PROVE  Goal
  BY <1>19 DEF RevokeFirst
<1>20. ASSUME NEW r \in Requests, RevokeSecond(r)
      PROVE  Goal
  BY <1>20 DEF RevokeSecond
<1>21. ASSUME NEW r \in Requests, GetAccess(r)
      PROVE  Goal
  BY <1>21 DEF GetAccess
<1>22. ASSUME NEW r \in Requests, DropRefresh(r)
      PROVE  Goal
  BY <1>22 DEF DropRefresh
<1>23. ASSUME NEW r \in Requests, DropAccess(r)
      PROVE  Goal
  BY <1>23 DEF DropAccess
<1>24. ASSUME NEW r \in Requests, Fail(r)
      PROVE  Goal
  BY <1>24 DEF Fail
<1>25. CASE SweepAccess
  BY <1>25 DEF SweepAccess
<1>26. CASE SweepRefresh
  BY <1>26 DEF SweepRefresh
<1>27. CASE SweepCodes
  BY <1>27 DEF SweepCodes
<1>28. CASE SweepFail
  BY <1>28 DEF SweepFail
<1>29. CASE UNCHANGED vars
  BY <1>29 DEF vars
<1>30. QED
  BY <1>1, <1>2, <1>3, <1>4, <1>5, <1>6, <1>7, <1>8, <1>9, <1>10, <1>11, <1>12, <1>13,
     <1>14, <1>15, <1>16, <1>17, <1>18, <1>19, <1>20, <1>21, <1>22, <1>23, <1>24, <1>25,
     <1>26, <1>27, <1>28, <1>29
     DEF Next, Advance, Sweep

\* Without faults only a reuse that finds its token gone is answered with an error.
LEMMA ErrorStep ==
  ASSUME ~Faults, Typed, [Next]_vars, NEW q \in Requests, pc'[q] = "error"
  PROVE  pc[q] \in {"error", "update"}
<1> DEFINE Goal == pc[q] \in {"error", "update"}
<1> USE DEF Typed, TypeOK, Goto
<1>1. CASE Tick
  BY <1>1 DEF Tick
<1>2. ASSUME NEW c \in Codes, NEW k \in Clients, NEW u \in Users, NEW S \in SUBSET Scopes,
             IssueCode(c, k, u, S)
      PROVE  Goal
  BY <1>2 DEF IssueCode
<1>3. ASSUME NEW r \in Requests, Arrive(r)
      PROVE  Goal
  BY <1>3, ArriveStep DEF Arrived
<1>4. ASSUME NEW r \in Requests, GetCode(r)
      PROVE  Goal
  BY <1>4 DEF GetCode
<1>5. ASSUME NEW r \in Requests, CheckCode(r)
      PROVE  Goal
  BY <1>5 DEF CheckCode, ExchangeVerdict
<1>6. ASSUME NEW r \in Requests, ConsumeCode(r)
      PROVE  Goal
  BY <1>6 DEF ConsumeCode
<1>7. ASSUME NEW r \in Requests, GetUser(r)
      PROVE  Goal
  BY <1>7 DEF GetUser
<1>8. ASSUME NEW r \in Requests, Authenticate(r)
      PROVE  Goal
  BY <1>8 DEF Authenticate
<1>9. ASSUME NEW r \in Requests, CreateAccess(r)
      PROVE  Goal
  BY <1>9 DEF CreateAccess, AfterCreateAccess
<1>10. ASSUME NEW r \in Requests, CreateRefresh(r)
      PROVE  Goal
  BY <1>10 DEF CreateRefresh
<1>11. ASSUME NEW r \in Requests, GetRefresh(r)
      PROVE  Goal
  BY <1>11 DEF GetRefresh
<1>12. ASSUME NEW r \in Requests, CheckRefresh(r)
      PROVE  Goal
  BY <1>12 DEF CheckRefresh
<1>13. ASSUME NEW r \in Requests, DeletePrevious(r)
      PROVE  Goal
  BY <1>13 DEF DeletePrevious
<1>14. ASSUME NEW r \in Requests, Rotate(r)
      PROVE  Goal
  BY <1>14 DEF Rotate, AfterRotate
<1>15. ASSUME NEW r \in Requests, Undo(r)
      PROVE  Goal
  BY <1>15 DEF Undo
<1>16. ASSUME NEW r \in Requests, UpdateRefresh(r)
      PROVE  Goal
  BY <1>16 DEF UpdateRefresh
<1>17. ASSUME NEW r \in Requests, GetSubject(r)
      PROVE  Goal
  BY <1>17 DEF GetSubject
<1>18. ASSUME NEW r \in Requests, Disable(r)
      PROVE  Goal
  BY <1>18 DEF Disable
<1>19. ASSUME NEW r \in Requests, RevokeFirst(r)
      PROVE  Goal
  BY <1>19 DEF RevokeFirst
<1>20. ASSUME NEW r \in Requests, RevokeSecond(r)
      PROVE  Goal
  BY <1>20 DEF RevokeSecond
<1>21. ASSUME NEW r \in Requests, GetAccess(r)
      PROVE  Goal
  BY <1>21 DEF GetAccess
<1>22. ASSUME NEW r \in Requests, DropRefresh(r)
      PROVE  Goal
  BY <1>22 DEF DropRefresh
<1>23. ASSUME NEW r \in Requests, DropAccess(r)
      PROVE  Goal
  BY <1>23 DEF DropAccess
<1>24. ASSUME NEW r \in Requests, Fail(r)
      PROVE  Goal
  BY <1>24 DEF Fail
<1>25. CASE SweepAccess
  BY <1>25 DEF SweepAccess
<1>26. CASE SweepRefresh
  BY <1>26 DEF SweepRefresh
<1>27. CASE SweepCodes
  BY <1>27 DEF SweepCodes
<1>28. CASE SweepFail
  BY <1>28 DEF SweepFail
<1>29. CASE UNCHANGED vars
  BY <1>29 DEF vars
<1>30. QED
  BY <1>1, <1>2, <1>3, <1>4, <1>5, <1>6, <1>7, <1>8, <1>9, <1>10, <1>11, <1>12, <1>13,
     <1>14, <1>15, <1>16, <1>17, <1>18, <1>19, <1>20, <1>21, <1>22, <1>23, <1>24, <1>25,
     <1>26, <1>27, <1>28, <1>29
     DEF Next, Advance, Sweep

\* After its access token is stored a request reads nothing any more.
LEMMA LateStep ==
  ASSUME Typed, [Next]_vars, NEW q \in Requests, ~CreateAccess(q),
         pc'[q] \in {"rotate", "create_refresh", "undo", "update"}
  PROVE  pc[q] \in {"rotate", "create_refresh", "undo", "update"} /\ row'[q] = row[q]
<1> DEFINE Goal == pc[q] \in {"rotate", "create_refresh", "undo", "update"} /\ row'[q] = row[q]
<1> USE DEF Typed, TypeOK, JobInv, JobAtStep, Target, Goto
<1>1. CASE Tick
  BY <1>1 DEF Tick
<1>2. ASSUME NEW c \in Codes, NEW k \in Clients, NEW u \in Users, NEW S \in SUBSET Scopes,
             IssueCode(c, k, u, S)
      PROVE  Goal
  BY <1>2 DEF IssueCode
<1>3. ASSUME NEW r \in Requests, Arrive(r)
      PROVE  Goal
  BY <1>3, ArriveStep DEF Arrived
<1>4. ASSUME NEW r \in Requests, GetCode(r)
      PROVE  Goal
  BY <1>4 DEF GetCode
<1>5. ASSUME NEW r \in Requests, CheckCode(r)
      PROVE  Goal
  BY <1>5 DEF CheckCode, ExchangeVerdict
<1>6. ASSUME NEW r \in Requests, ConsumeCode(r)
      PROVE  Goal
  BY <1>6 DEF ConsumeCode
<1>7. ASSUME NEW r \in Requests, GetUser(r)
      PROVE  Goal
  BY <1>7 DEF GetUser
<1>8. ASSUME NEW r \in Requests, Authenticate(r)
      PROVE  Goal
  BY <1>8 DEF Authenticate
<1>9. ASSUME NEW r \in Requests, CreateAccess(r)
      PROVE  Goal
  BY <1>9 DEF CreateAccess, AfterCreateAccess
<1>10. ASSUME NEW r \in Requests, CreateRefresh(r)
      PROVE  Goal
  BY <1>10 DEF CreateRefresh
<1>11. ASSUME NEW r \in Requests, GetRefresh(r)
      PROVE  Goal
  BY <1>11 DEF GetRefresh
<1>12. ASSUME NEW r \in Requests, CheckRefresh(r)
      PROVE  Goal
  BY <1>12 DEF CheckRefresh
<1>13. ASSUME NEW r \in Requests, DeletePrevious(r)
      PROVE  Goal
  BY <1>13 DEF DeletePrevious
<1>14. ASSUME NEW r \in Requests, Rotate(r)
      PROVE  Goal
  BY <1>14 DEF Rotate, AfterRotate
<1>15. ASSUME NEW r \in Requests, Undo(r)
      PROVE  Goal
  BY <1>15 DEF Undo
<1>16. ASSUME NEW r \in Requests, UpdateRefresh(r)
      PROVE  Goal
  BY <1>16 DEF UpdateRefresh
<1>17. ASSUME NEW r \in Requests, GetSubject(r)
      PROVE  Goal
  BY <1>17 DEF GetSubject
<1>18. ASSUME NEW r \in Requests, Disable(r)
      PROVE  Goal
  BY <1>18 DEF Disable
<1>19. ASSUME NEW r \in Requests, RevokeFirst(r)
      PROVE  Goal
  BY <1>19 DEF RevokeFirst
<1>20. ASSUME NEW r \in Requests, RevokeSecond(r)
      PROVE  Goal
  BY <1>20 DEF RevokeSecond
<1>21. ASSUME NEW r \in Requests, GetAccess(r)
      PROVE  Goal
  BY <1>21 DEF GetAccess
<1>22. ASSUME NEW r \in Requests, DropRefresh(r)
      PROVE  Goal
  BY <1>22 DEF DropRefresh
<1>23. ASSUME NEW r \in Requests, DropAccess(r)
      PROVE  Goal
  BY <1>23 DEF DropAccess
<1>24. ASSUME NEW r \in Requests, Fail(r)
      PROVE  Goal
  BY <1>24 DEF Fail
<1>25. CASE SweepAccess
  BY <1>25 DEF SweepAccess
<1>26. CASE SweepRefresh
  BY <1>26 DEF SweepRefresh
<1>27. CASE SweepCodes
  BY <1>27 DEF SweepCodes
<1>28. CASE SweepFail
  BY <1>28 DEF SweepFail
<1>29. CASE UNCHANGED vars
  BY <1>29 DEF vars
<1>30. QED
  BY <1>1, <1>2, <1>3, <1>4, <1>5, <1>6, <1>7, <1>8, <1>9, <1>10, <1>11, <1>12, <1>13,
     <1>14, <1>15, <1>16, <1>17, <1>18, <1>19, <1>20, <1>21, <1>22, <1>23, <1>24, <1>25,
     <1>26, <1>27, <1>28, <1>29
     DEF Next, Advance, Sweep

\* Every step keeps that an access token is of its request.
LEMMA OwnNext ==
  ASSUME Typed, RightInv, WonInv, OwnInv, [Next]_vars
  PROVE  OwnInv'
<1> SUFFICES ASSUME NEW q \in Requests, access'[q].st # "none"
             PROVE  /\ pc'[q] # "idle" /\ access'[q].client = job'[q].client
                    /\ pc'[q] \in {"rotate", "create_refresh", "undo", "update"} =>
                         access'[q].grant = GrantOf(q)'
                    /\ access'[q].grant \in Codes =>
                         codes'[access'[q].grant].st \in {"used", "gone"}
  BY DEF OwnInv
<1>1. CASE CreateAccess(q)
  <2>1. /\ access'[q].grant = GrantOf(q) /\ access'[q].client = job[q].client
        /\ pc[q] = "create_access" /\ pc'[q] # "idle" /\ UNCHANGED <<job, row, codes>>
    BY <1>1 DEF CreateAccess, Goto, AfterCreateAccess, Typed, TypeOK
  <2>2. GrantOf(q)' = GrantOf(q)
    BY <2>1 DEF GrantOf
  <2>3. GrantOf(q) \in Codes => codes[GrantOf(q)].st \in {"used", "gone"}
    <3>1. CASE job[q].kind = "authorization_code"
      BY <2>1, <3>1 DEF WonInv, HasExchanged, GrantOf
    <3>2. CASE job[q].kind = "refresh_token"
      BY <2>1, <3>2 DEF GrantOf, RightInv, ReadInv, Reading, BegunInv, Begun, Typed, JobInv, Target
    <3>3. CASE job[q].kind \notin {"authorization_code", "refresh_token"}
      BY <3>3, ConstantAssumption DEF GrantOf
    <3>4. QED  BY <3>1, <3>2, <3>3
  <2>4. QED  BY <2>1, <2>2, <2>3
<1>2. CASE ~CreateAccess(q)
  <2>1. SameColumns(access'[q], access[q]) /\ access[q].st # "none"
    <3>1. CASE OnlyDeletes(access', access)
      BY <3>1 DEF OnlyDeletes
    <3>2. ASSUME NEW r \in Requests, CreateAccess(r)
          PROVE  access'[q] = access[q]
      BY <1>2, <3>2 DEF CreateAccess, Typed, TypeOK
    <3>3. QED  BY <3>1, <3>2, StepDeletes DEF SameColumns
  <2>2. /\ pc[q] # "idle" /\ access[q].client = job[q].client
        /\ pc[q] \in {"rotate", "create_refresh", "undo", "update"} => access[q].grant = GrantOf(q)
        /\ access[q].grant \in Codes => codes[access[q].grant].st \in {"used", "gone"}
    BY <2>1 DEF OwnInv
  <2>3. pc'[q] # "idle" /\ job'[q] = job[q]
    BY <2>2, JobFixed
  <2>4. ASSUME pc'[q] \in {"rotate", "create_refresh", "undo", "update"}
        PROVE  access[q].grant = GrantOf(q)'
    <3>1. pc[q] \in {"rotate", "create_refresh", "undo", "update"} /\ row'[q] = row[q]
      BY <1>2, <2>4, LateStep
    <3>2. QED  BY <2>2, <2>3, <3>1 DEF GrantOf
  <2>5. access[q].grant \in Codes => codes'[access[q].grant].st \in {"used", "gone"}
    BY <2>2, UsedStays
  <2>6. QED  BY <2>1, <2>2, <2>3, <2>4, <2>5 DEF SameColumns
<1>3. QED  BY <1>1, <1>2

\* Without faults every step keeps the access token with its refresh token.
LEMMA PairNext ==
  ASSUME ~Faults, Typed, RightInv, WayInv, GrantInv, OwnInv, PairInv, [Next]_vars
  PROVE  PairInv'
<1>1. ASSUME NEW t \in Requests, refresh'[t].st # "none", refresh'[t].client \in OneTime
      PROVE  refresh'[t].access = t
  <2>1. CASE OnlyDeletes(refresh', refresh)
    BY <1>1, <2>1 DEF OnlyDeletes, SameColumns, PairInv
  <2>2. ASSUME NEW r \in Requests, CreateRefresh(r)
        PROVE  refresh'[t].access = t
    BY <1>1, <2>2 DEF CreateRefresh, PairInv, Typed, TypeOK
  <2>3. ASSUME NEW r \in Requests, UpdateRefresh(r)
        PROVE  refresh'[t] = refresh[t]
    <3>1. \/ refresh'[t] = refresh[t]
          \/ t = job[r].target
               /\ refresh'[t] = [row[r] EXCEPT !.access = r, !.exp = RotatedExpiry(row[r], at[r])]
      BY <2>3 DEF UpdateRefresh, Typed, TypeOK
    <3>2. pc[r] = "update" /\ row[r] \in Row
      BY <2>3 DEF UpdateRefresh, Typed, TypeOK
    <3>3. row[r].client \notin OneTime
      BY <3>2 DEF WayInv
    <3>4. QED  BY <1>1, <3>1, <3>2, <3>3 DEF Row
  <2>4. QED  BY <1>1, <2>1, <2>2, <2>3, StepDeletes DEF PairInv
<1>2. ASSUME NEW r \in Requests, job'[r].kind = "refresh_token", pc'[r] \in Reading,
             row'[r].client \in OneTime
      PROVE  row'[r].access = job'[r].target
  <2>1. job'[r] = job[r] /\ (ReadsRefresh(r) \/ (pc[r] \in Reading /\ row'[r] = row[r]))
    BY <1>2, ReadStep
  <2>2. job[r].target \in Requests
    BY <1>2, <2>1 DEF Typed, JobInv, Target
  <2>3. QED  BY <1>2, <2>1, <2>2 DEF PairInv, ReadsRefresh
<1>3. ASSUME NEW r \in Requests, job'[r].kind = "refresh_token",
             pc'[r] \in {"create_access", "rotate"}, row'[r].client \in OneTime
      PROVE  access'[job'[r].target].st # "live"
  <2> DEFINE t == job[r].target
  <2>1. job'[r] = job[r] /\ pc[r] \in Reading /\ row'[r] = row[r]
    BY <1>3, ReadStep DEF Reading, ReadsRefresh
  <2>2. t \in Requests /\ row[r].access = t /\ pc[t] = "ok"
    BY <1>3, <2>1 DEF Typed, JobInv, Target, PairInv, RightInv, ReadInv, BegunInv
  <2>3. CASE pc[r] \in {"create_access", "rotate"}
    <3>1. access[t].st # "live"
      BY <1>3, <2>1, <2>3 DEF PairInv
    <3>2. CASE OnlyDeletes(access', access)
      BY <2>1, <2>2, <3>1, <3>2 DEF OnlyDeletes
    <3>3. ASSUME NEW x \in Requests, CreateAccess(x)
          PROVE  access'[t] = access[t]
      BY <2>2, <3>3 DEF CreateAccess, Typed, TypeOK
    <3>4. QED  BY <2>1, <3>1, <3>2, <3>3, StepDeletes
  <2>4. CASE pc[r] \notin {"create_access", "rotate"}
    BY <1>3, <2>1, <2>2, <2>4, RotateStep
  <2>5. QED  BY <2>3, <2>4
<1>4. ASSUME NEW r \in Requests, pc'[r] = "error", access'[r].st = "live"
      PROVE  access'[r].client \notin OneTime
  <2>1. pc[r] \in {"error", "update"}
    BY <1>4, ErrorStep
  <2>2. access[r].st = "live" /\ access'[r].client = access[r].client
    <3>1. CASE OnlyDeletes(access', access)
      BY <1>4, <3>1 DEF OnlyDeletes, SameColumns
    <3>2. ASSUME NEW x \in Requests, CreateAccess(x)
          PROVE  access'[r] = access[r]
      BY <2>1, <3>2 DEF CreateAccess, Typed, TypeOK
    <3>3. QED  BY <1>4, <3>1, <3>2, StepDeletes
  <2>3. CASE pc[r] = "error"
    BY <2>2, <2>3 DEF PairInv
  <2>4. CASE pc[r] = "update"
    <3>1. job[r].kind = "refresh_token"
      BY <2>4 DEF Typed, JobInv, JobAtStep
    <3>2. row[r].client \notin OneTime /\ row[r].client = job[r].client
      BY <2>4, <3>1 DEF WayInv, Checked
    <3>3. QED  BY <2>2, <3>2 DEF OwnInv
  <2>5. QED  BY <2>1, <2>3, <2>4
<1>5. QED  BY <1>1, <1>2, <1>3, <1>4 DEF PairInv

\* A request with an answer holds no right.
LEMMA AnsweredNotPending ==
  ASSUME NEW q \in Requests, NEW g, Answered(q)'
  PROVE  ~Pending(q, g)'
BY DEF Answered, Responses, Pending

\* An access token that was alive and answered stays the only one of its grant.
LEMMA AnsweredStays ==
  ASSUME Typed, RightInv, WayInv, GrantInv, OwnInv, PairInv, OneAnswering, [Next]_vars,
         NEW a \in Requests, Answering(a), NEW g, g = access[a].grant
  PROVE  /\ \A t \in Requests : refresh'[t].st = "live" /\ refresh'[t].grant = g => t = a
         /\ \A r \in Requests : ~Pending(r, g)'
<1>1. ASSUME NEW t \in Requests, refresh'[t].st = "live", refresh'[t].grant = g
      PROVE  t = a
  <2>1. CASE refresh[t].st = "live"
    <3>1. refresh[t].grant = g
      BY <1>1, <2>1, StoredKeepsGrant
    <3>2. QED  BY <2>1, <3>1 DEF OneAnswering, Live
  <2>2. CASE refresh[t].st # "live"
    <3>1. CreateRefresh(t)
      <4>1. CASE OnlyDeletes(refresh', refresh)
        BY <1>1, <2>2, <4>1 DEF OnlyDeletes
      <4>2. ASSUME NEW x \in Requests, UpdateRefresh(x)
            PROVE  FALSE
        BY <1>1, <2>2, <4>2 DEF UpdateRefresh, Updatable, Typed, TypeOK
      <4>3. ASSUME NEW x \in Requests, CreateRefresh(x)
            PROVE  x = t
        BY <1>1, <2>2, <4>3, NewToken
      <4>4. QED  BY <4>1, <4>2, <4>3, StepDeletes
    <3>2. Pending(t, g)
      <4>1. pc[t] = "create_refresh" /\ GrantOf(t) = g
        BY <1>1, <3>1, NewToken DEF CreateRefresh
      <4>2. job[t].kind \in {"authorization_code", "password", "refresh_token"}
        BY <4>1 DEF Typed, JobInv, JobAtStep
      <4>3. QED  BY <4>1, <4>2 DEF Pending, GrantOf
    <3>3. QED  BY <3>2 DEF OneAnswering
  <2>3. QED  BY <2>1, <2>2
<1>2. ASSUME NEW r \in Requests, Pending(r, g)'
      PROVE  FALSE
  <2>1. ~Pending(r, g)
    BY DEF OneAnswering
  <2>2. TakesRight(r, g)
    BY <1>2, <2>1, PendingStep
  <2>3. access[a].st = "live" /\ Started(g)
    BY DEF Answering, GrantInv, OfItsGrant
  <2>4. CASE pc[r] = "idle" /\ g = r
    BY <2>3, <2>4 DEF Started
  <2>5. CASE g \in Codes /\ codes[g].st = "unused"
    BY <2>3, <2>5 DEF OwnInv
  <2>6. CASE /\ pc[r] = "rotate" /\ g = row[r].grant
             /\ job[r].kind = "refresh_token" /\ refresh[job[r].target].st = "live"
    <3> DEFINE t == job[r].target
    <3>1. t \in Requests /\ refresh[t].grant = g
      BY <2>6 DEF RightInv, ReadInv, Reading, Typed, JobInv, Target
    <3>2. t = a
      BY <2>6, <3>1 DEF OneAnswering, Live
    <3>3. access[t].st # "live"
      BY <2>6 DEF PairInv, WayInv
    <3>4. QED  BY <2>3, <3>2, <3>3
  <2>7. QED  BY <2>2, <2>4, <2>5, <2>6 DEF TakesRight
<1>3. QED  BY <1>1, <1>2

\* An access token that is answered now takes over from its request the right of its grant.
LEMMA AnsweredNow ==
  ASSUME ~Faults, Typed, RightInv, WayInv, GrantInv, OwnInv, OwnInv', PairInv, PairInv',
         OneAnswering, [Next]_vars,
         NEW a \in Requests, AnswersNow(a), access'[a].client \in OneTime, access'[a].st = "live",
         Answered(a)', NEW g, g = access'[a].grant
  PROVE  /\ Pending(a, g)
         /\ \A t \in Requests : refresh'[t].st = "live" /\ refresh'[t].grant = g => t = a
         /\ \A r \in Requests : ~Pending(r, g)'
<1>1. /\ \A q \in Requests \ {a} : pc'[q] = pc[q]
      /\ pc'[a] \notin {"get_user", "create_access", "create_refresh"}
  BY DEF AnswersNow, Moves
<1>2. pc[a] # "update"
  <2>1. SUFFICES ASSUME pc[a] = "update"  PROVE FALSE
    OBVIOUS
  <2>2. job[a].kind = "refresh_token" /\ pc[a] # "idle"
    BY <2>1 DEF Typed, JobInv, JobAtStep
  <2>3. row[a].client \notin OneTime /\ row[a].client = job[a].client /\ job'[a] = job[a]
    BY <2>1, <2>2, JobFixed DEF WayInv, Checked
  <2>4. QED  BY <2>3 DEF OwnInv
<1>3. Pending(a, g) /\ g \in Grants
  <2>1. CASE pc[a] = "create_access"
    BY <2>1 DEF AnswersNow, Pending, Typed, JobInv, Target, TypeOK, Grants, GrantOf
  <2>2. CASE pc[a] = "create_refresh"
    <3>1. access[a].st = "live" /\ access[a].grant = GrantOf(a)
      BY <1>2, <2>2 DEF AnswersNow, OwnInv
    <3>2. access'[a].grant = access[a].grant
      <4>1. CASE OnlyDeletes(access', access)
        BY <4>1 DEF OnlyDeletes, SameColumns
      <4>2. ASSUME NEW x \in Requests, CreateAccess(x)
            PROVE  access'[a] = access[a]
        BY <2>2, <4>2 DEF CreateAccess, Typed, TypeOK
      <4>3. QED  BY <4>1, <4>2, StepDeletes
    <3>3. job[a].kind \in {"authorization_code", "password", "refresh_token"}
      BY <2>2 DEF Typed, JobInv, JobAtStep
    <3>4. Started(GrantOf(a))
      BY <3>1 DEF GrantInv, OfItsGrant
    <3>5. QED  BY <2>2, <3>1, <3>2, <3>3, <3>4 DEF Pending, GrantOf, Started
  <2>3. QED  BY <1>2, <2>1, <2>2 DEF AnswersNow
<1>4. ASSUME NEW t \in Requests, refresh'[t].st = "live", refresh'[t].grant = g
      PROVE  t = a
  <2>1. CASE refresh[t].st = "live"
    <3>1. refresh[t].grant = g
      BY <1>4, <2>1, StoredKeepsGrant
    <3>2. QED  BY <1>3, <2>1, <3>1 DEF RightInv, OneHolder, Live
  <2>2. CASE refresh[t].st # "live"
    <3>1. pc[t] = "create_refresh" /\ pc'[t] = "ok"
      <4>1. CASE OnlyDeletes(refresh', refresh)
        BY <1>4, <2>2, <4>1 DEF OnlyDeletes
      <4>2. ASSUME NEW x \in Requests, UpdateRefresh(x)
            PROVE  FALSE
        BY <1>4, <2>2, <4>2 DEF UpdateRefresh, Updatable, Typed, TypeOK
      <4>3. ASSUME NEW x \in Requests, CreateRefresh(x)
            PROVE  x = t
        BY <1>4, <2>2, <4>3, NewToken
      <4>4. QED  BY <4>1, <4>2, <4>3, StepDeletes DEF CreateRefresh, Goto, Typed, TypeOK
    <3>2. QED  BY <1>1, <3>1
  <2>3. QED  BY <2>1, <2>2
<1>5. ASSUME NEW r \in Requests, Pending(r, g)'
      PROVE  FALSE
  <2>1. r # a
    BY <1>1, <1>5, AnsweredNotPending
  <2>2. ~Pending(r, g)
    BY <1>3, <2>1 DEF RightInv, OneHolder
  <2>3. TakesRight(r, g) /\ pc'[r] = pc[r]
    BY <1>1, <1>5, <2>1, <2>2, PendingStep
  <2>4. pc[r] = "idle"
    BY <2>3 DEF TakesRight
  <2>5. QED  BY <1>5, <2>3, <2>4 DEF Pending
<1>6. QED  BY <1>3, <1>4, <1>5

\* Without faults every step keeps that a rotated grant has one answered access token.
LEMMA OneAnsweringNext ==
  ASSUME ~Faults, Typed, RightInv, WayInv, GrantInv, AliveInv, AliveInv', OwnInv, OwnInv', PairInv,
         PairInv', OneAnswering, [Next]_vars
  PROVE  OneAnswering'
<1>1. ASSUME NEW a \in Requests, Answering(a)', NEW g, g = access'[a].grant
      PROVE  /\ Answering(a) => access[a].grant = g
             /\ ~Answering(a) => AnswersNow(a)
             /\ \A t \in Requests : refresh'[t].st = "live" /\ refresh'[t].grant = g => t = a
             /\ \A r \in Requests : ~Pending(r, g)'
  <2>1. /\ access'[a].st = "live" /\ access'[a].client \in OneTime /\ Answered(a)'
        /\ (Answered(a) /\ access[a].st = "live") \/ AnswersNow(a)
    BY <1>1, AnswerStep DEF Answering
  <2>2. CASE Answered(a) /\ access[a].st = "live"
    <3>1. SameColumns(access'[a], access[a])
      <4>1. CASE OnlyDeletes(access', access)
        BY <4>1 DEF OnlyDeletes
      <4>2. ASSUME NEW x \in Requests, CreateAccess(x)
            PROVE  access'[a] = access[a]
        BY <2>2, <4>2 DEF CreateAccess, Answered, Responses, Typed, TypeOK
      <4>3. QED  BY <4>1, <4>2, StepDeletes DEF SameColumns
    <3>2. Answering(a) /\ access[a].grant = g
      BY <1>1, <2>1, <2>2, <3>1 DEF Answering, SameColumns
    <3>3. QED  BY <3>2, AnsweredStays
  <2>3. CASE AnswersNow(a)
    <3>1. pc[a] \in {"create_access", "create_refresh", "update"}
      BY <2>3 DEF AnswersNow
    <3>2. ~Answering(a)
      BY <3>1 DEF Answering, Answered, Responses
    <3>3. QED  BY <1>1, <2>1, <2>3, <3>2, AnsweredNow
  <2>4. QED  BY <2>1, <2>2, <2>3
<1>2. ASSUME NEW a \in Requests, NEW b \in Requests, Answering(a)', Answering(b)',
             NEW g, g = access'[a].grant, g = access'[b].grant, a # b
      PROVE  FALSE
  <2>1. CASE Answering(a) /\ Answering(b)
    BY <1>1, <1>2, <2>1 DEF OneAnswering
  <2>2. ASSUME NEW x \in Requests, NEW y \in Requests, Answering(x), ~Answering(y),
               Answering(y)', access[x].grant = g, access'[y].grant = g
        PROVE  FALSE
    <3>1. AnswersNow(y)
      BY <1>1, <2>2
    <3>2. access'[y].client \in OneTime /\ access'[y].st = "live" /\ Answered(y)'
      BY <2>2 DEF Answering
    <3>3. Pending(y, g)
      BY <2>2, <3>1, <3>2, AnsweredNow
    <3>4. QED  BY <2>2, <3>3 DEF OneAnswering
  <2>3. CASE ~Answering(a) /\ ~Answering(b)
    <3>1. AnswersNow(a) /\ AnswersNow(b)
      BY <1>1, <1>2, <2>3
    <3>2. pc'[b] = pc[b]
      BY <1>2, <3>1 DEF AnswersNow, Moves
    <3>3. pc'[b] \in Responses /\ pc[b] \in {"create_access", "create_refresh", "update"}
      BY <1>2, <3>1 DEF Answering, Answered, AnswersNow
    <3>4. QED  BY <3>2, <3>3 DEF Responses
  <2>4. CASE Answering(a) /\ ~Answering(b)
    BY <1>1, <1>2, <2>2, <2>4
  <2>5. CASE ~Answering(a) /\ Answering(b)
    BY <1>1, <1>2, <2>2, <2>5
  <2>6. QED  BY <2>1, <2>3, <2>4, <2>5
<1>3. QED  BY <1>1, <1>2 DEF OneAnswering, Live

--------------------------------------------------------------------------------
(***************************************************************************)
(* Theorems                                                                *)
(***************************************************************************)

\* The invariants that hold with failing store calls or without, and those that need that
\* no call fails.
History == WayInv /\ WonInv /\ GrantInv /\ FirstInv /\ ExpiryInv /\ OwnInv

Faultless == AliveInv /\ PairInv /\ OneAnswering

\* Nothing has happened yet: both invariants hold in the initial states.
LEMMA HistoryInit == Init => History
BY DEF Init, History, WayInv, WonInv, GrantInv, FirstInv, ExpiryInv, OwnInv, AbsoluteExpiryKept,
   Stored, HasExchanged, HasRotated, NoRow, NoJob, AdminSteps, Checked, Reading, HoldsCode

\* So does the part that needs the store to answer.
LEMMA FaultlessInit == Init => Faultless
BY DEF Init, Faultless, AliveInv, PairInv, OneAnswering, Answering, NoRow, NoJob, Reading

\* Both are kept by every step.
LEMMA HistoryNext == Typed /\ RightInv /\ History /\ [Next]_vars => History'
<1> SUFFICES ASSUME Typed, RightInv, WayInv, WonInv, GrantInv, FirstInv, ExpiryInv, OwnInv,
                    [Next]_vars
             PROVE  History'
  BY DEF History
<1>1. GrantInv'
  BY GrantNext
<1>2. QED
  BY <1>1, WayNext, WonNext, FirstNext, ExpiryNext, OwnNext DEF History

\* Without faults, the second invariant is kept too.
LEMMA FaultlessNext ==
  ~Faults /\ Typed /\ RightInv /\ History /\ History' /\ Faultless /\ [Next]_vars => Faultless'
<1> SUFFICES ASSUME ~Faults, Typed, RightInv, WayInv, GrantInv, OwnInv, OwnInv', AliveInv, PairInv,
                    OneAnswering, [Next]_vars
             PROVE  Faultless'
  BY DEF History, Faultless
<1>1. AliveInv' /\ PairInv'
  BY AliveNext, PairNext
<1>2. QED  BY <1>1, OneAnsweringNext DEF Faultless

\* Every run has both.
LEMMA HistoryHolds == Spec => [](Typed /\ RightInv /\ History)
<1>1. Init => Typed /\ RightInv /\ History
  BY TypingInit, RightInit, HistoryInit
<1>2. Typed /\ RightInv /\ History /\ [Next]_vars => (Typed /\ RightInv /\ History)'
  BY TypingNext, RightNext, HistoryNext
<1>3. QED  BY <1>1, <1>2, PTL DEF Spec

\* Without faults, every reachable state has both.
LEMMA FaultlessHolds == ~Faults => (Spec => []Faultless)
<1> SUFFICES ASSUME ~Faults
             PROVE  Spec => []Faultless
  OBVIOUS
<1> DEFINE Inv == Typed /\ RightInv /\ History /\ Faultless
<1>1. Init => Inv
  BY TypingInit, RightInit, HistoryInit, FaultlessInit
<1>2. Inv /\ [Next]_vars => Inv'
  BY TypingNext, RightNext, HistoryNext, FaultlessNext
<1>3. Inv => Faultless
  OBVIOUS
<1>4. QED  BY <1>1, <1>2, <1>3, PTL DEF Spec

\* A code, and a refresh token of usage "onetime", is answered with tokens at most once, for
\* any number of requests, and though any store call may fail (Consume, and the delete of a
\* rotation, are the compare-and-set).
THEOREM SingleUseHolds == Spec => []SingleUse
<1>1. Typed /\ WonInv /\ GrantInv => SingleUse
  BY DEF WonInv, GrantInv, SingleUse, HasExchanged, HasRotated
<1>2. QED  BY <1>1, HistoryHolds, PTL DEF History

\* The scopes of a grant are those of its code or of its first request, through every chain
\* of rotations and reuses (refreshTokenGrant writes the scopes of the record it has read).
THEOREM ScopesKeptHolds == Spec => []ScopesKept
<1>1. GrantInv => ScopesKept
  BY DEF GrantInv, ScopesKept, OfWholeGrant, OfItsGrant, ScopesOfGrant, Stored
<1>2. QED  BY <1>1, HistoryHolds, PTL DEF History

\* No chain of rotations and reuses moves an absolute expiry (rotatedExpiresAt and Touch).
THEOREM AbsoluteExpiryHolds == Spec => []AbsoluteExpiryKept
<1>1. ExpiryInv => AbsoluteExpiryKept
  BY DEF ExpiryInv
<1>2. QED  BY <1>1, HistoryHolds, PTL DEF History

\* If no store call fails, a refused request leaves no access token: the slower of two
\* rotations deletes the one it has stored (grants.go:213-217).
THEOREM RefusedHolds == ~Faults => (Spec => []RefusedLeavesNothing)
<1> SUFFICES ASSUME ~Faults
             PROVE  Spec => []RefusedLeavesNothing
  OBVIOUS
<1>1. Faultless => RefusedLeavesNothing
  BY DEF Faultless, AliveInv, RefusedLeavesNothing
<1>2. QED  BY <1>1, FaultlessHolds, PTL

\* If no store call fails, every refresh of a rotated grant replaces its access token.
THEOREM OneAccessTokenHolds == ~Faults => (Spec => []OneAccessToken)
<1> SUFFICES ASSUME ~Faults
             PROVE  Spec => []OneAccessToken
  OBVIOUS
<1>1. GrantInv /\ OneAnswering => OneAccessToken
  BY DEF GrantInv, OfItsGrant, OneAnswering, Answering, OneAccessToken, Live
<1>2. QED  BY <1>1, HistoryHolds, FaultlessHolds, PTL DEF History, Faultless

================================================================================
