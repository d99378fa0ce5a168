-------------------------- MODULE TokenGrants_proofs --------------------------
(***************************************************************************)
(* Theorems about TokenGrants, for every set of requests, codes, clients,  *)
(* users and scopes, every registration of the clients, every lifetime,    *)
(* and with the cleanup and failing store calls or without.                *)
(***************************************************************************)
EXTENDS TokenGrants, TLAPS

(***************************************************************************)
(* Which requests are at which step, and what their input refers to.       *)
(***************************************************************************)
JobAtStep(r) ==
  /\ pc[r] \in {"get_code", "check_code", "consume"} => job[r].kind = "authorization_code"
  /\ pc[r] = "authenticate" => job[r].kind \in {"password", "implicit"}
  /\ pc[r] = "get_user" => job[r].kind \in {"authorization_code", "refresh_token"}
  /\ pc[r] = "create_access" => job[r].kind \in GrantKinds
  /\ pc[r] = "create_refresh" => job[r].kind \in {"authorization_code", "password", "refresh_token"}
  /\ pc[r] = "get_refresh" => job[r].kind \in {"refresh_token", "revoke_refresh"}
  /\ pc[r] \in {"check_refresh", "delete_previous", "rotate", "undo", "update"}
       => job[r].kind = "refresh_token"

Target(r) ==
  /\ job[r].kind = "authorization_code" => job[r].target \in Codes
  /\ job[r].kind \in {"refresh_token", "revoke_refresh", "revoke_access"}
       => job[r].target \in Requests

JobInv == \A r \in Requests : JobAtStep(r) /\ Target(r)

Typed == TypeOK /\ JobInv

--------------------------------------------------------------------------------
\* A row that changes its state keeps its type.
LEMMA RowWithSt ==
  ASSUME NEW x \in Row, NEW s \in {"none", "unused", "used", "live", "gone"}
  PROVE  [x EXCEPT !.st = s] \in Row
BY DEF Row

\* The row a reuse writes back.
LEMMA RowWithAccess ==
  ASSUME NEW x \in Row, NEW a \in Requests, NEW e \in Nat
  PROVE  [x EXCEPT !.access = a, !.exp = e] \in Row
BY DEF Row

\* A rotated token expires at an instant.
LEMMA RotatedExpiryType ==
  ASSUME NEW x \in Row, NEW time \in Nat
  PROVE  RotatedExpiry(x, time) \in Nat
BY ConstantAssumption DEF Row, RotatedExpiry

\* Bulk deletes keep the type of a table.
LEMMA PurgeType ==
  ASSUME NEW I, NEW ids, NEW table \in [I -> Row]
  PROVE  Purge(table, ids) \in [I -> Row]
BY DEF Purge, Row

\* So does the delete of one row.
LEMMA DeleteType ==
  ASSUME NEW I, NEW id, NEW table \in [I -> Row]
  PROVE  Delete(table, id) \in [I -> Row]
BY PurgeType DEF Delete

\* The invariant holds before the first request.
LEMMA TypingInit == Init => Typed
BY ConstantAssumption DEF Init, Typed, TypeOK, JobInv, JobAtStep, Target, NoRow, Row, NoJob, Job

\* Accepting a request keeps the invariant if its input suits its first step.
LEMMA TypingAccept ==
  ASSUME Typed, NEW r \in Requests, NEW j \in Job,
         NEW l \in {"get_code", "authenticate", "create_access", "get_refresh", "get_access",
                    "get_subject"},
         Accept(r, j, l),
         l = "get_code" => j.kind = "authorization_code",
         l = "authenticate" => j.kind \in {"password", "implicit"},
         l = "create_access" => j.kind \in GrantKinds,
         l = "get_refresh" => j.kind \in {"refresh_token", "revoke_refresh"},
         j.kind = "authorization_code" => j.target \in Codes,
         j.kind \in {"refresh_token", "revoke_refresh", "revoke_access"} => j.target \in Requests
  PROVE  Typed'
<1>1. /\ pc' = [pc EXCEPT ![r] = l] /\ job' = [job EXCEPT ![r] = j]
      /\ UNCHANGED <<now, enabled, codes, access, refresh, row, at, sweep, sweepAt, quiet>>
  BY DEF Accept, Goto
<1>2. TypeOK'
  <2>1. l \in StoreCalls
    BY DEF StoreCalls
  <2>2. QED  BY <1>1, <2>1 DEF Typed, TypeOK
<1>3. JobAtStep(r)' /\ Target(r)'
  <2>1. pc'[r] = l /\ job'[r] = j
    BY <1>1 DEF Typed, TypeOK
  <2>2. QED  BY <2>1 DEF JobAtStep, Target
<1>4. ASSUME NEW q \in Requests \ {r}
      PROVE  JobAtStep(q)' /\ Target(q)'
  <2>1. pc'[q] = pc[q] /\ job'[q] = job[q]
    BY <1>1 DEF Typed, TypeOK
  <2>2. JobAtStep(q) /\ Target(q)
    BY DEF Typed, JobInv
  <2>3. QED  BY <2>1, <2>2 DEF JobAtStep, Target
<1>5. QED  BY <1>2, <1>3, <1>4 DEF Typed, JobInv

\* The input that no request has yet.
LEMMA NoJobType == NoJob \in Job
BY DEF NoJob, Job

\* Whatever arrives.
LEMMA TypingArrive ==
  ASSUME Typed, NEW r \in Requests, Arrive(r)
  PROVE  Typed'
<1>1. ASSUME NEW c \in Codes, NEW k \in Clients, NEW v \in BOOLEAN,
             AcceptExchange(r, c, k, v)
      PROVE  Typed'
  <2> DEFINE j == [NoJob EXCEPT !.kind = "authorization_code", !.target = c, !.client = k, !.valid = v]
  <2>1. j \in Job /\ j.kind = "authorization_code" /\ j.target = c
    BY NoJobType DEF Job, Grants, GrantKinds, AdminKinds
  <2>2. Accept(r, j, "get_code")
    BY <1>1 DEF AcceptExchange
  <2> HIDE DEF j
  <2>3. QED  BY <2>1, <2>2, TypingAccept DEF GrantKinds
<1>2. ASSUME NEW k \in Clients, NEW u \in Users, NEW S \in SUBSET Scopes, NEW v \in BOOLEAN,
             AcceptPassword(r, k, u, S, v)
      PROVE  Typed'
  <2> DEFINE j == [NoJob EXCEPT !.kind = "password", !.client = k, !.user = u, !.scopes = S, !.valid = v]
  <2>1. j \in Job /\ j.kind = "password"
    BY NoJobType DEF Job, Grants, GrantKinds, AdminKinds
  <2>2. Accept(r, j, "authenticate")
    BY <1>2 DEF AcceptPassword
  <2> HIDE DEF j
  <2>3. QED  BY <2>1, <2>2, TypingAccept DEF GrantKinds
<1>3. ASSUME NEW k \in Clients, NEW u \in Users, NEW S \in SUBSET Scopes,
             AcceptImplicit(r, k, u, S)
      PROVE  Typed'
  <2> DEFINE j == [NoJob EXCEPT !.kind = "implicit", !.client = k, !.user = u, !.scopes = S]
  <2>1. j \in Job /\ j.kind = "implicit"
    BY NoJobType DEF Job, Grants, GrantKinds, AdminKinds
  <2>2. Accept(r, j, "authenticate")
    BY <1>3 DEF AcceptImplicit
  <2> HIDE DEF j
  <2>3. QED  BY <2>1, <2>2, TypingAccept DEF GrantKinds
<1>4. ASSUME NEW k \in Clients, NEW S \in SUBSET Scopes,
             AcceptClientCredentials(r, k, S)
      PROVE  Typed'
  <2> DEFINE j == [NoJob EXCEPT !.kind = "client_credentials", !.client = k, !.scopes = S]
  <2>1. j \in Job /\ j.kind = "client_credentials"
    BY NoJobType DEF Job, Grants, GrantKinds, AdminKinds
  <2>2. Accept(r, j, "create_access")
    BY <1>4 DEF AcceptClientCredentials
  <2> HIDE DEF j
  <2>3. QED  BY <2>1, <2>2, TypingAccept DEF GrantKinds
<1>5. ASSUME NEW t \in Requests, NEW k \in Clients, NEW S \in SUBSET Scopes, NEW v \in BOOLEAN,
             AcceptRefresh(r, t, k, S, v)
      PROVE  Typed'
  <2> DEFINE j == [NoJob EXCEPT !.kind = "refresh_token", !.target = t, !.client = k, !.scopes = S, !.valid = v]
  <2>1. j \in Job /\ j.kind = "refresh_token" /\ j.target = t
    BY NoJobType DEF Job, Grants, GrantKinds, AdminKinds
  <2>2. Accept(r, j, "get_refresh")
    BY <1>5 DEF AcceptRefresh
  <2> HIDE DEF j
  <2>3. QED  BY <2>1, <2>2, TypingAccept DEF GrantKinds
<1>6. ASSUME NEW t \in Requests, NEW k \in Clients,
             AcceptRevokeAccess(r, t, k)
      PROVE  Typed'
  <2> DEFINE j == [NoJob EXCEPT !.kind = "revoke_access", !.target = t, !.client = k]
  <2>1. j \in Job /\ j.kind = "revoke_access" /\ j.target = t
    BY NoJobType DEF Job, Grants, GrantKinds, AdminKinds
  <2>2. Accept(r, j, "get_access")
    BY <1>6 DEF AcceptRevokeAccess
  <2> HIDE DEF j
  <2>3. QED  BY <2>1, <2>2, TypingAccept DEF GrantKinds
<1>7. ASSUME NEW t \in Requests, NEW k \in Clients,
             AcceptRevokeRefresh(r, t, k)
      PROVE  Typed'
  <2> DEFINE j == [NoJob EXCEPT !.kind = "revoke_refresh", !.target = t, !.client = k]
  <2>1. j \in Job /\ j.kind = "revoke_refresh" /\ j.target = t
    BY NoJobType DEF Job, Grants, GrantKinds, AdminKinds
  <2>2. Accept(r, j, "get_refresh")
    BY <1>7 DEF AcceptRevokeRefresh
  <2> HIDE DEF j
  <2>3. QED  BY <2>1, <2>2, TypingAccept DEF GrantKinds
<1>8. ASSUME NEW x \in Users \cup Clients,
             AcceptDisable(r, x)
      PROVE  Typed'
  <2> DEFINE j == [NoJob EXCEPT !.kind = "disable", !.target = x]
  <2>1. j \in Job /\ j.kind = "disable" /\ j.target = x
    BY NoJobType DEF Job, Grants, GrantKinds, AdminKinds
  <2>2. Accept(r, j, "get_subject")
    BY <1>8 DEF AcceptDisable
  <2> HIDE DEF j
  <2>3. QED  BY <2>1, <2>2, TypingAccept DEF GrantKinds
<1>9. QED  BY <1>1, <1>2, <1>3, <1>4, <1>5, <1>6, <1>7, <1>8 DEF Arrive

\* Every step of a request, a tick and the cleanup keep it.
LEMMA TypingNext == Typed /\ [Next]_vars => Typed'
<1> SUFFICES ASSUME TypeOK, JobInv, [Next]_vars
             PROVE  Typed'
  BY DEF Typed
<1> USE ConstantAssumption DEF TypeOK, JobInv, JobAtStep, Target, Goto, Checks, StoreCalls, Responses
<1>1. CASE Tick
  BY <1>1 DEF Typed, Tick
<1>2. ASSUME NEW c \in Codes, NEW k \in Clients, NEW u \in Users, NEW S \in SUBSET Scopes,
             IssueCode(c, k, u, S)
      PROVE  Typed'
  BY <1>2 DEF Typed, IssueCode, Row, Grants
<1>3. ASSUME NEW r \in Requests, Arrive(r)
      PROVE  Typed'
  <2> HIDE DEF TypeOK, JobInv
  <2>1. QED  BY <1>3, TypingArrive DEF Typed
<1>4. ASSUME NEW r \in Requests, GetCode(r)
      PROVE  Typed'
  BY <1>4 DEF Typed, GetCode
<1>5. ASSUME NEW r \in Requests, CheckCode(r)
      PROVE  Typed'
  BY <1>5 DEF Typed, CheckCode, ExchangeVerdict
<1>6. ASSUME NEW r \in Requests, ConsumeCode(r)
      PROVE  Typed'
  <2>1. job[r].target \in Codes
    BY <1>6 DEF Typed, ConsumeCode
  <2>2. [codes[job[r].target] EXCEPT !.st = "used"] \in Row
    BY <2>1, RowWithSt
  <2>3. codes' \in [Codes -> Row]
    BY <1>6, <2>1, <2>2 DEF Typed, ConsumeCode
  <2>4. QED  BY <1>6, <2>3 DEF Typed, ConsumeCode, GrantKinds
<1>7. ASSUME NEW r \in Requests, GetUser(r)
      PROVE  Typed'
  BY <1>7 DEF Typed, GetUser, GrantKinds
<1>8. ASSUME NEW r \in Requests, Authenticate(r)
      PROVE  Typed'
  BY <1>8 DEF Typed, Authenticate, GrantKinds
<1>9. ASSUME NEW r \in Requests, CreateAccess(r)
      PROVE  Typed'
  BY <1>9 DEF Typed, CreateAccess, AfterCreateAccess, GrantOf, UserOf, ScopesOf, Row, Job, Grants
<1>10. ASSUME NEW r \in Requests, CreateRefresh(r)
       PROVE  Typed'
  BY <1>10 DEF Typed, CreateRefresh, RotatedExpiry, GrantOf, UserOf, RefreshScopes, Row, Job, Grants
<1>11. ASSUME NEW r \in Requests, GetRefresh(r)
       PROVE  Typed'
  BY <1>11 DEF Typed, GetRefresh
<1>12. ASSUME NEW r \in Requests, CheckRefresh(r)
       PROVE  Typed'
  BY <1>12 DEF Typed, CheckRefresh
<1>13. ASSUME NEW r \in Requests, DeletePrevious(r)
       PROVE  Typed'
  BY <1>13, DeleteType DEF Typed, DeletePrevious, GrantKinds
<1>14. ASSUME NEW r \in Requests, Rotate(r)
       PROVE  Typed'
  BY <1>14, DeleteType DEF Typed, Rotate, AfterRotate
<1>15. ASSUME NEW r \in Requests, Undo(r)
       PROVE  Typed'
  BY <1>15, DeleteType DEF Typed, Undo
<1>16. ASSUME NEW r \in Requests, UpdateRefresh(r)
       PROVE  Typed'
  <2> DEFINE e == RotatedExpiry(row[r], at[r])
  <2>1. job[r].target \in Requests /\ e \in Nat
    BY <1>16, RotatedExpiryType DEF Typed, UpdateRefresh
  <2>2. [row[r] EXCEPT !.access = r, !.exp = e] \in Row
    BY <2>1, RowWithAccess
  <2>3. refresh' \in [Requests -> Row]
    BY <1>16, <2>2 DEF Typed, UpdateRefresh
  <2>4. QED  BY <1>16, <2>3 DEF Typed, UpdateRefresh
<1>17. ASSUME NEW r \in Requests, GetSubject(r)
       PROVE  Typed'
  BY <1>17 DEF Typed, GetSubject
<1>18. ASSUME NEW r \in Requests, Disable(r)
       PROVE  Typed'
  BY <1>18 DEF Typed, Disable
<1>19. ASSUME NEW r \in Requests, RevokeFirst(r)
       PROVE  Typed'
  BY <1>19, PurgeType DEF Typed, RevokeFirst, DeleteMatching
<1>20. ASSUME NEW r \in Requests, RevokeSecond(r)
       PROVE  Typed'
  BY <1>20, PurgeType DEF Typed, RevokeSecond, DeleteMatching
<1>21. ASSUME NEW r \in Requests, GetAccess(r)
       PROVE  Typed'
  BY <1>21 DEF Typed, GetAccess
<1>22. ASSUME NEW r \in Requests, DropRefresh(r)
       PROVE  Typed'
  BY <1>22, DeleteType DEF Typed, DropRefresh
<1>23. ASSUME NEW r \in Requests, DropAccess(r)
       PROVE  Typed'
  BY <1>23, DeleteType DEF Typed, DropAccess
<1>24. ASSUME NEW r \in Requests, Fail(r)
       PROVE  Typed'
  BY <1>24 DEF Typed, Fail
<1>25. CASE SweepAccess
  BY <1>25, PurgeType DEF Typed, SweepAccess
<1>26. CASE SweepRefresh
  BY <1>26, PurgeType DEF Typed, SweepRefresh
<1>27. CASE SweepCodes
  <2>1. \A c \in Codes : [codes[c] EXCEPT !.st = "gone"] \in Row
    BY RowWithSt
  <2>2. codes' \in [Codes -> Row]
    BY <1>27, <2>1 DEF Typed, SweepCodes
  <2>3. QED  BY <1>27, <2>2 DEF Typed, SweepCodes
<1>28. CASE SweepFail
  BY <1>28 DEF Typed, SweepFail
<1>29. CASE UNCHANGED vars
  BY <1>29 DEF Typed, vars
<1>30. QED
  BY <1>1, <1>2, <1>3, <1>4, <1>5, <1>6, <1>7, <1>8, <1>9, <1>10, <1>11, <1>12, <1>13, <1>14,
         <1>15, <1>16, <1>17, <1>18, <1>19, <1>20, <1>21, <1>22, <1>23, <1>24, <1>25, <1>26, <1>27,
         <1>28, <1>29 DEF Next, Advance, Sweep

\* The columns of every table, and the input and step of every request, are of their types
\* (the code's structs identity.AccessToken, RefreshToken and AuthorizationCode).
THEOREM TypeCorrect == Spec => []TypeOK
<1>1. Spec => []Typed
  BY TypingInit, TypingNext, PTL DEF Spec
<1>2. Typed => TypeOK
  BY DEF Typed
<1>3. QED  BY <1>1, <1>2, PTL

--------------------------------------------------------------------------------
(***************************************************************************)
(* A grant has at most one refresh token.  The property is not inductive:  *)
(* it needs that the right to store the next one is itself in one place,   *)
(* in an unconsumed code, in a request that will store a token (Pending),  *)
(* or in a live token, and that nothing starts a grant a second time.      *)
(***************************************************************************)

\* What a refresh request has read still belongs to the grant of the row it names.
Reading == {"check_refresh", "get_user", "delete_previous", "create_access", "rotate",
            "create_refresh", "undo", "update"}

ReadInv ==
  \A r \in Requests : pc[r] \in Reading /\ job[r].kind = "refresh_token" =>
    /\ refresh[job[r].target].st # "none"
    /\ row[r].grant = refresh[job[r].target].grant
    /\ row[r].st = "live"

\* A grant whose first refresh token was stored has begun, and cannot begin again.
Begun(g) ==
  /\ g \in Grants
  /\ g \in Codes => codes[g].st \in {"used", "gone"}
  /\ g \in Requests => pc[g] = "ok"

BegunInv ==
  /\ \A t \in Requests : refresh[t].st # "none" => pc[t] = "ok" /\ Begun(refresh[t].grant)
  /\ \A r \in Requests, c \in Codes : Pending(r, c) => codes[c].st \in {"used", "gone"}

OneHolder ==
  /\ OneRefreshToken
  /\ \A q, r \in Requests, g \in Grants : Pending(q, g) /\ Pending(r, g) => q = r
  /\ \A t \in Live(refresh), r \in Requests : ~Pending(r, refresh[t].grant)

RightInv == ReadInv /\ BegunInv /\ OneHolder

\* Deleted rows keep their grants, and none comes back.
LEMMA PurgeKeeps ==
  ASSUME NEW ids, NEW table \in [Requests -> Row]
  PROVE  \A i \in Requests :
           /\ Purge(table, ids)[i].grant = table[i].grant
           /\ Purge(table, ids)[i].st = "live" => table[i].st = "live"
           /\ Purge(table, ids)[i].st = "none" <=> table[i].st = "none"
           /\ Purge(table, ids)[i].st = "live" => i \notin ids
<1> TAKE i \in Requests
<1>1. table[i] \in Row
  OBVIOUS
<1>2. CASE i \in ids /\ table[i].st = "live"
  BY <1>1, <1>2 DEF Purge, Row
<1>3. CASE ~(i \in ids /\ table[i].st = "live")
  BY <1>3 DEF Purge
<1>4. QED  BY <1>2, <1>3

\* A step that only deletes refresh tokens.
RefreshShrinks ==
  \A t \in Requests :
    /\ refresh'[t].grant = refresh[t].grant
    /\ refresh'[t].st = "live" => refresh[t].st = "live"
    /\ refresh'[t].st = "none" <=> refresh[t].st = "none"

\* At first no grant has begun and nobody holds a right.
LEMMA RightInit == Init => RightInv
BY DEF Init, RightInv, ReadInv, Reading, BegunInv, OneHolder, OneRefreshToken, Pending, Live, NoRow, NoJob

\* A step that stores no refresh token, forgets no answer and reads nothing anew ...
StepShrinks ==
  /\ RefreshShrinks
  /\ \A c \in Codes : codes[c].st \in {"used", "gone"} => codes'[c].st \in {"used", "gone"}
  /\ \A q \in Requests : pc[q] = "ok" => pc'[q] = "ok"
  /\ \A q \in Requests : pc'[q] \in Reading /\ job'[q].kind = "refresh_token" =>
       pc[q] \in Reading /\ job'[q] = job[q] /\ row'[q] = row[q]

\* ... and does not move the right of any grant, or moves that of g to the request r.
StepKeeps == StepShrinks /\ \A q \in Requests : \A h : Pending(q, h)' => Pending(q, h)

StepHandsOn(r, g) ==
  /\ StepShrinks
  /\ \A q \in Requests : \A h : Pending(q, h)' => Pending(q, h) \/ (q = r /\ h = g)
  /\ \A q \in Requests : ~Pending(q, g)
  /\ \A t \in Requests : refresh'[t].st = "live" => refresh[t].grant # g
  /\ g \in Codes => codes'[g].st \in {"used", "gone"}

\* A step that hands the right on leaves it in one place.
LEMMA StepHandsOnRight ==
  ASSUME Typed, RightInv, NEW r \in Requests, NEW g \in Grants, StepHandsOn(r, g)
  PROVE  RightInv'
<1> USE DEF Typed, TypeOK, JobInv, Target, StepHandsOn, StepShrinks, RightInv, RefreshShrinks
<1>1. ReadInv'
  BY DEF ReadInv, Reading
<1>2. BegunInv'
  BY DEF BegunInv, Begun
<1>3. OneHolder'
  <2>1. Live(refresh)' \subseteq Live(refresh)
    BY DEF Live
  <2>2. OneRefreshToken'
    BY <2>1 DEF OneHolder, OneRefreshToken, Live
  <2>3. \A p, q \in Requests, h \in Grants : Pending(p, h)' /\ Pending(q, h)' => p = q
    BY DEF OneHolder
  <2>4. (\A t \in Live(refresh), q \in Requests : ~Pending(q, refresh[t].grant))'
    BY <2>1 DEF OneHolder, Live
  <2>5. QED  BY <2>2, <2>3, <2>4 DEF OneHolder
<1>4. QED  BY <1>1, <1>2, <1>3

\* A step that moves no right leaves it in one place.
LEMMA StepKeepsRight ==
  ASSUME Typed, RightInv, StepKeeps
  PROVE  RightInv'
<1> USE DEF Typed, TypeOK, JobInv, Target, StepKeeps, StepShrinks, RightInv, RefreshShrinks
<1>1. ReadInv'
  BY DEF ReadInv, Reading
<1>2. BegunInv'
  BY DEF BegunInv, Begun
<1>3. OneHolder'
  <2>1. Live(refresh)' \subseteq Live(refresh)
    BY DEF Live
  <2>2. OneRefreshToken'
    BY <2>1 DEF OneHolder, OneRefreshToken, Live
  <2>3. QED  BY <2>1, <2>2 DEF OneHolder, Live
<1>4. QED  BY <1>1, <1>2, <1>3

\* A request that arrives may be the one that will store the first token of its own grant.
LEMMA AcceptRight ==
  ASSUME Typed, RightInv, NEW r \in Requests, NEW j, NEW l, Accept(r, j, l),
         \/ l \in {"get_code", "get_refresh", "get_access", "get_subject"}
         \/ /\ l \in {"authenticate", "create_access"}
            /\ j.kind \in {"password", "implicit", "client_credentials"},
         \A q \in Requests : ~Pending(q, r),
         \A t \in Requests : refresh[t].st # "none" => refresh[t].grant # r
  PROVE  RightInv'
<1>1. /\ pc[r] = "idle" /\ pc' = [pc EXCEPT ![r] = l] /\ job' = [job EXCEPT ![r] = j]
      /\ UNCHANGED <<codes, refresh, row>>
  BY DEF Accept, Goto
<1>2. pc'[r] = l /\ job'[r] = j
  BY <1>1 DEF Typed, TypeOK
<1>3. ASSUME NEW q \in Requests \ {r}
      PROVE  pc'[q] = pc[q] /\ job'[q] = job[q] /\ row'[q] = row[q]
  BY <1>1 DEF Typed, TypeOK
<1>4. StepShrinks
  <2>1. RefreshShrinks
    BY <1>1 DEF RefreshShrinks
  <2>2. \A q \in Requests : pc'[q] \in Reading /\ job'[q].kind = "refresh_token" =>
          pc[q] \in Reading /\ job'[q] = job[q] /\ row'[q] = row[q]
    BY <1>2, <1>3 DEF Reading
  <2>3. QED  BY <1>1, <1>3, <2>1, <2>2 DEF StepShrinks
<1>5. \A q \in Requests : \A h : Pending(q, h)' => Pending(q, h) \/ (q = r /\ h = r)
  BY <1>2, <1>3 DEF Pending
<1>6. \A t \in Requests : refresh'[t].st = "live" => refresh[t].grant # r
  BY <1>1
<1>7. r \in Grants /\ r \notin Codes
  BY ConstantAssumption DEF Grants
<1>8. QED  BY <1>4, <1>5, <1>6, <1>7, StepHandsOnRight DEF StepHandsOn

\* Nothing of a grant exists before its code is consumed, or its first request accepted.
LEMMA Unbegun ==
  ASSUME Typed, RightInv, NEW g \in Grants,
         \/ g \in Codes /\ codes[g].st \in {"none", "unused"}
         \/ g \in Requests /\ pc[g] = "idle"
  PROVE  /\ \A q \in Requests : ~Pending(q, g)
         /\ \A t \in Requests : refresh[t].st # "none" => refresh[t].grant # g
BY ConstantAssumption DEF Typed, JobInv, Target, JobAtStep, RightInv, ReadInv, Reading, BegunInv,
   Begun, Pending, Grants

\* A live token is the only holder of the right of its grant.
LEMMA LiveHolds ==
  ASSUME Typed, RightInv, NEW t \in Live(refresh)
  PROVE  /\ \A q \in Requests : ~Pending(q, refresh[t].grant)
         /\ \A u \in Live(refresh) : refresh[u].grant = refresh[t].grant => u = t
         /\ Begun(refresh[t].grant)
BY DEF RightInv, OneHolder, OneRefreshToken, BegunInv, Live

\* Only a request that has not arrived arrives.
LEMMA ArriveIdle ==
  ASSUME NEW r \in Requests, Arrive(r)
  PROVE  pc[r] = "idle"
BY DEF Arrive, Accept, AcceptExchange, AcceptPassword, AcceptImplicit, AcceptClientCredentials,
       AcceptRefresh, AcceptRevokeAccess, AcceptRevokeRefresh, AcceptDisable

\* An arrival gives nobody the right of a grant that somebody has.
LEMMA ArriveRight ==
  ASSUME Typed, RightInv, NEW r \in Requests, Arrive(r)
  PROVE  RightInv'
<1>1. r \in Grants /\ pc[r] = "idle"
  BY ArriveIdle DEF Grants
<1>2. /\ \A q \in Requests : ~Pending(q, r)
      /\ \A t \in Requests : refresh[t].st # "none" => refresh[t].grant # r
  BY <1>1, Unbegun
<1>3. ASSUME NEW j, NEW l, Accept(r, j, l),
             \/ l \in {"get_code", "get_refresh", "get_access", "get_subject"}
             \/ /\ l \in {"authenticate", "create_access"}
                /\ j.kind \in {"password", "implicit", "client_credentials"}
      PROVE  RightInv'
  BY <1>2, <1>3, AcceptRight
<1>4. QED
  BY <1>3 DEF Arrive, AcceptExchange, AcceptPassword, AcceptImplicit, AcceptClientCredentials,
     AcceptRefresh, AcceptRevokeAccess, AcceptRevokeRefresh, AcceptDisable, NoJob

\* A request whose step, input and row a step leaves alone keeps what it holds.
LEMMA PendingKept ==
  ASSUME NEW q, NEW h, pc'[q] = pc[q], job'[q] = job[q], row'[q] = row[q]
  PROVE  Pending(q, h)' <=> Pending(q, h)
BY DEF Pending

\* A consumed code hands the right of its grant to the request that consumed it.
LEMMA ConsumeCodeRight ==
  ASSUME Typed, RightInv, NEW r \in Requests, ConsumeCode(r)
  PROVE  RightInv'
<1> DEFINE c == job[r].target
<1>1. /\ c \in Codes /\ c \in Grants /\ c \notin Requests
      /\ job[r].kind = "authorization_code"
      /\ pc[r] = "consume" /\ pc \in [Requests -> {"idle"} \cup Checks \cup StoreCalls \cup Responses]
      /\ codes \in [Codes -> Row]
  BY ConstantAssumption DEF ConsumeCode, Typed, TypeOK, JobInv, JobAtStep, Target, Grants
<1>2. UNCHANGED <<refresh, job, row>>
  BY DEF ConsumeCode
<1>3. RefreshShrinks
  BY <1>2 DEF RefreshShrinks
<1>4. CASE Consumable(codes[c])
  <2>1. codes' = [codes EXCEPT ![c].st = "used"] /\ pc' = [pc EXCEPT ![r] = "get_user"]
    BY <1>4 DEF ConsumeCode, Consumable, Goto
  <2>2. codes'[c].st = "used" /\ \A d \in Codes \ {c} : codes'[d] = codes[d]
    BY <1>1, <2>1 DEF Row
  <2>3. /\ \A q \in Requests : ~Pending(q, c)
        /\ \A t \in Requests : refresh[t].st # "none" => refresh[t].grant # c
    BY <1>1, <1>4, Unbegun DEF Consumable
  <2>4. pc'[r] = "get_user" /\ \A q \in Requests \ {r} : pc'[q] = pc[q]
    BY <1>1, <2>1
  <2>5. StepShrinks
    BY <1>1, <1>2, <1>3, <2>2, <2>4 DEF StepShrinks, Reading
  <2>6. \A q \in Requests : \A h : Pending(q, h)' => Pending(q, h) \/ (q = r /\ h = c)
    <3>1. ASSUME NEW q \in Requests \ {r}, NEW h
          PROVE  Pending(q, h)' => Pending(q, h)
      BY <1>2, <2>4, PendingKept
    <3>2. ASSUME NEW h
          PROVE  Pending(r, h)' => h = c
      BY <1>1, <1>2, <2>4 DEF Pending
    <3>3. QED  BY <3>1, <3>2
  <2>7. StepHandsOn(r, c)
    BY <1>2, <2>2, <2>3, <2>5, <2>6 DEF StepHandsOn
  <2>8. QED  BY <1>1, <2>7, StepHandsOnRight
<1>5. CASE ~Consumable(codes[c])
  <2>1. /\ UNCHANGED codes
        /\ pc' = [pc EXCEPT ![r] = "revoke_first"] \/ pc' = [pc EXCEPT ![r] = "invalid_grant"]
    BY <1>5 DEF ConsumeCode, Goto
  <2>2. /\ pc'[r] \in {"revoke_first", "invalid_grant"}
        /\ \A q \in Requests \ {r} : pc'[q] = pc[q]
    BY <1>1, <2>1
  <2>3. StepShrinks
    BY <1>1, <1>2, <1>3, <2>1, <2>2 DEF StepShrinks, Reading
  <2>4. ASSUME NEW q \in Requests, NEW h, Pending(q, h)'
        PROVE  Pending(q, h)
    <3>1. q # r
      BY <2>2, <2>4 DEF Pending
    <3>2. QED  BY <1>2, <2>2, <2>4, <3>1, PendingKept
  <2>5. QED  BY <2>3, <2>4, StepKeepsRight DEF StepKeeps
<1>6. QED  BY <1>4, <1>5

\* The faster rotation takes over the right of its token, the slower one gets nothing.
LEMMA RotateRight ==
  ASSUME Typed, RightInv, NEW r \in Requests, Rotate(r)
  PROVE  RightInv'
<1> DEFINE t == job[r].target
<1>1. /\ t \in Requests /\ refresh \in [Requests -> Row]
      /\ job[r].kind = "refresh_token"
      /\ pc[r] = "rotate" /\ pc \in [Requests -> {"idle"} \cup Checks \cup StoreCalls \cup Responses]
  BY DEF Rotate, Typed, TypeOK, JobInv, JobAtStep, Target
<1>2. UNCHANGED <<codes, job, row>> /\ refresh' = Purge(refresh, {t})
  BY DEF Rotate, Delete
<1>3. RefreshShrinks /\ refresh'[t].st # "live"
  <2> DEFINE new == Purge(refresh, {t})
  <2>1. \A i \in Requests :
          /\ new[i].grant = refresh[i].grant
          /\ new[i].st = "live" => refresh[i].st = "live"
          /\ new[i].st = "none" <=> refresh[i].st = "none"
          /\ new[i].st = "live" => i \notin {t}
    BY <1>1, PurgeKeeps
  <2> HIDE DEF new
  <2>2. refresh' = new
    BY <1>2 DEF new
  <2>3. QED  BY <1>1, <2>1, <2>2 DEF RefreshShrinks
<1>4. /\ pc'[r] = AfterRotate(refresh[t])
      /\ \A q \in Requests \ {r} : pc'[q] = pc[q]
  BY <1>1 DEF Rotate, Goto
<1>5. StepShrinks
  BY <1>1, <1>2, <1>3, <1>4 DEF StepShrinks, Reading
<1>6. ASSUME NEW q \in Requests \ {r}, NEW h
      PROVE  Pending(q, h)' => Pending(q, h)
  BY <1>2, <1>4, PendingKept
<1>7. CASE refresh[t].st = "live"
  <2> DEFINE g == refresh[t].grant
  <2>1. row[r].grant = g
    BY <1>1 DEF RightInv, ReadInv, Reading
  <2>2. /\ \A q \in Requests : ~Pending(q, g)
        /\ \A u \in Requests : refresh[u].st = "live" /\ refresh[u].grant = g => u = t
        /\ Begun(g)
    BY <1>1, <1>7, LiveHolds DEF Live
  <2>3. \A u \in Requests : refresh'[u].st = "live" => refresh[u].grant # g
    BY <1>3, <2>2 DEF RefreshShrinks
  <2>4. ASSUME NEW h
        PROVE  Pending(r, h)' => h = g
    BY <1>1, <1>2, <1>4, <2>1 DEF Pending
  <2>5. \A q \in Requests : \A h : Pending(q, h)' => Pending(q, h) \/ (q = r /\ h = g)
    BY <1>6, <2>4
  <2>6. g \in Grants /\ (g \in Codes => codes'[g].st \in {"used", "gone"})
    BY <1>2, <2>2 DEF Begun
  <2>7. StepHandsOn(r, g)
    BY <1>5, <2>2, <2>3, <2>5, <2>6 DEF StepHandsOn
  <2>8. QED  BY <2>6, <2>7, StepHandsOnRight
<1>8. CASE refresh[t].st # "live"
  <2>1. pc'[r] = "undo"
    BY <1>4, <1>8 DEF AfterRotate
  <2>2. ASSUME NEW h
        PROVE  ~Pending(r, h)'
    BY <2>1 DEF Pending
  <2>3. QED  BY <1>5, <1>6, <2>2, StepKeepsRight DEF StepKeeps
<1>9. QED  BY <1>7, <1>8

\* A reuse writes the copy it has read back to a row of the same grant.
LEMMA UpdateRefreshRight ==
  ASSUME Typed, RightInv, NEW r \in Requests, UpdateRefresh(r)
  PROVE  RightInv'
<1> DEFINE t == job[r].target
           e == RotatedExpiry(row[r], at[r])
<1>1. /\ t \in Requests /\ refresh \in [Requests -> Row] /\ row[r] \in Row
      /\ job[r].kind = "refresh_token"
      /\ pc[r] = "update" /\ pc \in [Requests -> {"idle"} \cup Checks \cup StoreCalls \cup Responses]
  BY DEF UpdateRefresh, Typed, TypeOK, JobInv, JobAtStep, Target
<1>2. UNCHANGED <<codes, job, row>>
  BY DEF UpdateRefresh
<1>3. RefreshShrinks
  <2>1. CASE Updatable(refresh[t])
    <3>1. refresh' = [refresh EXCEPT ![t] = [row[r] EXCEPT !.access = r, !.exp = e]]
      BY <2>1 DEF UpdateRefresh
    <3>2. row[r].grant = refresh[t].grant /\ row[r].st = "live" /\ refresh[t].st = "live"
      BY <1>1, <2>1 DEF RightInv, ReadInv, Reading, Updatable
    <3>3. refresh'[t].grant = refresh[t].grant /\ refresh'[t].st = "live"
      BY <1>1, <3>1, <3>2 DEF Row
    <3>4. \A u \in Requests \ {t} : refresh'[u] = refresh[u]
      BY <1>1, <3>1
    <3>5. QED  BY <3>2, <3>3, <3>4 DEF RefreshShrinks
  <2>2. CASE ~Updatable(refresh[t])
    BY <2>2 DEF UpdateRefresh, RefreshShrinks
  <2>3. QED  BY <2>1, <2>2
<1>4. /\ pc'[r] \in {"ok", "error"}
      /\ \A q \in Requests \ {r} : pc'[q] = pc[q]
  BY <1>1 DEF UpdateRefresh, Goto
<1>5. StepShrinks
  BY <1>1, <1>2, <1>3, <1>4 DEF StepShrinks, Reading
<1>6. ASSUME NEW q \in Requests, NEW h, Pending(q, h)'
      PROVE  Pending(q, h)
  <2>1. q # r
    BY <1>4, <1>6 DEF Pending
  <2>2. QED  BY <1>2, <1>4, <1>6, <2>1, PendingKept
<1>7. QED  BY <1>5, <1>6, StepKeepsRight DEF StepKeeps

\* Every step keeps the right of every grant in one place.
LEMMA RightNext == Typed /\ RightInv /\ [Next]_vars => RightInv'
<1> SUFFICES ASSUME Typed, RightInv, [Next]_vars
             PROVE  RightInv'
  OBVIOUS
<1> USE ConstantAssumption DEF Typed, TypeOK, JobInv, JobAtStep, Target, Goto, Checks, StoreCalls,
        Responses, ReadInv, Reading, BegunInv, Begun, OneHolder, OneRefreshToken, Pending, Live, Grants
<1>1. CASE Tick
  BY <1>1 DEF RightInv, Tick
<1>2. ASSUME NEW c \in Codes, NEW k \in Clients, NEW u \in Users, NEW S \in SUBSET Scopes,
             IssueCode(c, k, u, S)
      PROVE  RightInv'
  BY <1>2 DEF RightInv, IssueCode, Row
<1>3. ASSUME NEW r \in Requests, Arrive(r)
      PROVE  RightInv'
  BY <1>3, ArriveRight
<1>4. ASSUME NEW r \in Requests, GetCode(r)
       PROVE  RightInv'
  BY <1>4 DEF RightInv, GetCode
<1>5. ASSUME NEW r \in Requests, CheckCode(r)
       PROVE  RightInv'
  BY <1>5 DEF RightInv, CheckCode, ExchangeVerdict
<1>6. ASSUME NEW r \in Requests, ConsumeCode(r)
      PROVE  RightInv'
  BY <1>6, ConsumeCodeRight
<1>7. ASSUME NEW r \in Requests, GetUser(r)
       PROVE  RightInv'
  BY <1>7 DEF RightInv, GetUser
<1>8. ASSUME NEW r \in Requests, Authenticate(r)
       PROVE  RightInv'
  BY <1>8 DEF RightInv, Authenticate
<1>9. ASSUME NEW r \in Requests, CreateAccess(r)
       PROVE  RightInv'
  BY <1>9 DEF RightInv, CreateAccess, AfterCreateAccess
<1>10. ASSUME NEW r \in Requests, CreateRefresh(r)
       PROVE  RightInv'
  BY <1>10 DEF RightInv, CreateRefresh, GrantOf, Row
<1>11. ASSUME NEW r \in Requests, GetRefresh(r)
       PROVE  RightInv'
  BY <1>11 DEF RightInv, GetRefresh
<1>12. ASSUME NEW r \in Requests, CheckRefresh(r)
       PROVE  RightInv'
  BY <1>12 DEF RightInv, CheckRefresh
<1>13. ASSUME NEW r \in Requests, DeletePrevious(r)
       PROVE  RightInv'
  BY <1>13 DEF RightInv, DeletePrevious, GrantKinds
<1>14. ASSUME NEW r \in Requests, Rotate(r)
       PROVE  RightInv'
  BY <1>14, RotateRight
<1>15. ASSUME NEW r \in Requests, Undo(r)
       PROVE  RightInv'
  BY <1>15 DEF RightInv, Undo
<1>16. ASSUME NEW r \in Requests, UpdateRefresh(r)
       PROVE  RightInv'
  BY <1>16, UpdateRefreshRight
<1>17. ASSUME NEW r \in Requests, GetSubject(r)
       PROVE  RightInv'
  BY <1>17 DEF RightInv, GetSubject
<1>18. ASSUME NEW r \in Requests, Disable(r)
       PROVE  RightInv'
  BY <1>18 DEF RightInv, Disable
<1>19. ASSUME NEW r \in Requests, RevokeFirst(r)
       PROVE  RightInv'
  <2>1. RefreshShrinks
    BY <1>19, PurgeKeeps DEF RefreshShrinks, RevokeFirst, DeleteMatching
  <2>2. StepKeeps
    BY <1>19, <2>1 DEF StepKeeps, StepShrinks, RevokeFirst
  <2>3. QED  BY <2>2, StepKeepsRight
<1>20. ASSUME NEW r \in Requests, RevokeSecond(r)
       PROVE  RightInv'
  <2>1. RefreshShrinks
    BY <1>20, PurgeKeeps DEF RefreshShrinks, RevokeSecond, DeleteMatching
  <2>2. StepKeeps
    BY <1>20, <2>1 DEF StepKeeps, StepShrinks, RevokeSecond
  <2>3. QED  BY <2>2, StepKeepsRight
<1>21. ASSUME NEW r \in Requests, GetAccess(r)
       PROVE  RightInv'
  BY <1>21 DEF RightInv, GetAccess
<1>22. ASSUME NEW r \in Requests, DropRefresh(r)
       PROVE  RightInv'
  <2>1. RefreshShrinks
    BY <1>22, PurgeKeeps DEF RefreshShrinks, DropRefresh, Delete
  <2>2. StepKeeps
    BY <1>22, <2>1 DEF StepKeeps, StepShrinks, DropRefresh
  <2>3. QED  BY <2>2, StepKeepsRight
<1>23. ASSUME NEW r \in Requests, DropAccess(r)
       PROVE  RightInv'
  BY <1>23 DEF RightInv, DropAccess
<1>24. ASSUME NEW r \in Requests, Fail(r)
       PROVE  RightInv'
  BY <1>24 DEF RightInv, Fail
<1>25. CASE SweepAccess
  BY <1>25 DEF RightInv, SweepAccess
<1>26. CASE SweepRefresh
  <2>1. RefreshShrinks
    BY <1>26, PurgeKeeps DEF RefreshShrinks, SweepRefresh
  <2>2. StepKeeps
    BY <1>26, <2>1 DEF StepKeeps, StepShrinks, SweepRefresh
  <2>3. QED  BY <2>2, StepKeepsRight
<1>27. CASE SweepCodes
  BY <1>27 DEF RightInv, SweepCodes, Row
<1>28. CASE SweepFail
  BY <1>28 DEF RightInv, SweepFail
<1>29. CASE UNCHANGED vars
  BY <1>29 DEF RightInv, vars
<1>30. QED
  BY <1>1, <1>2, <1>3, <1>4, <1>5, <1>6, <1>7, <1>8, <1>9, <1>10, <1>11, <1>12, <1>13, <1>14,
         <1>15, <1>16, <1>17, <1>18, <1>19, <1>20, <1>21, <1>22, <1>23, <1>24, <1>25, <1>26, <1>27,
         <1>28, <1>29 DEF Next, Advance, Sweep

\* A grant never has two refresh tokens that work, however exchanges, rotations, reuses,
\* revocations, the cleanup and failing store calls interleave (refreshTokenGrant, Consume).
THEOREM OneRefreshTokenHolds == Spec => []OneRefreshToken
<1>1. Spec => []Typed
  BY TypingInit, TypingNext, PTL DEF Spec
<1>2. Spec => []RightInv
  BY <1>1, RightInit, RightNext, PTL DEF Spec
<1>3. RightInv => OneRefreshToken
  BY DEF RightInv, OneHolder
<1>4. QED  BY <1>2, <1>3, PTL

================================================================================
