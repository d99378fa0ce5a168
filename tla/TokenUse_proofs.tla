---------------------------- MODULE TokenUse_proofs ----------------------------
(***************************************************************************)
(* Theorems about TokenUse, for every value of its constants: calls with   *)
(* stale tokens are refused, the deletions of the API end what they        *)
(* delete, and what TokenGrants guarantees is still true beside them.      *)
(***************************************************************************)
EXTENDS TokenUse, TokenRights_proofs

--------------------------------------------------------------------------------
(***************************************************************************)
(* To the tables of TokenGrants a call does nothing but delete tokens, and *)
(* every invariant of TokenGrants allows that at any time.                 *)
(***************************************************************************)

Trims ==
  /\ OnlyDeletes(access', access) /\ OnlyDeletes(refresh', refresh)
  /\ access' \in [Requests -> Row] /\ refresh' \in [Requests -> Row]
  /\ UNCHANGED <<now, enabled, codes, pc, job, row, at, sweep, sweepAt, quiet>>

\* A purge is such a deletion.
LEMMA PurgeTrims ==
  ASSUME NEW ids, NEW table \in [Requests -> Row]
  PROVE  Purge(table, ids) \in [Requests -> Row] /\ OnlyDeletes(Purge(table, ids), table)
BY PurgeType, PurgeDeletes

\* A table that does not change is one from which nothing is deleted.
LEMMA SameTable == \A table : OnlyDeletes(table, table)
BY DEF OnlyDeletes, SameColumns

\* No call does more to the tables.
LEMMA CallTrims ==
  ASSUME Typed, NEW v \in Calls, CallArrives(v) \/ CallSteps(v)
  PROVE  Trims
<1> USE DEF Typed, TypeOK, request, cleaner
<1>1. UNCHANGED vars => Trims
  <2> SUFFICES ASSUME UNCHANGED vars
               PROVE  Trims
    OBVIOUS
  <2>1. /\ access' = access /\ refresh' = refresh
        /\ UNCHANGED <<now, enabled, codes, pc, job, row, at, sweep, sweepAt, quiet>>
    BY DEF vars
  <2>2. OnlyDeletes(access', access) /\ OnlyDeletes(refresh', refresh)
    BY <2>1, SameTable
  <2>3. QED  BY <2>1, <2>2 DEF Trims
<1>2. CASE CallArrives(v)
  <2>1. \E t : Call(v, t)
    BY <1>2 DEF CallArrives, CallResource, CallIntrospect, CallDelete, CallDeleteMany, CallRevokeUser
  <2>2. QED  BY <1>1, <2>1 DEF Call
<1>3. CASE GetToken(v) \/ CheckToken(v) \/ GetClient(v) \/ GetOwner(v) \/ GetRow(v)
  BY <1>1, <1>3 DEF GetToken, CheckToken, GetClient, GetOwner, GetRow
<1>4. CASE DropAccessToken(v)
  BY <1>4, SameTable, PurgeTrims DEF DropAccessToken, Delete, Trims
<1>5. CASE DropRefreshToken(v)
  BY <1>5, SameTable, PurgeTrims DEF DropRefreshToken, Delete, Trims
<1>6. CASE DropMany(v)
  BY <1>6, SameTable, PurgeTrims DEF DropMany, Trims
<1>7. CASE RevokeUserFirst(v)
  BY <1>7, SameTable, PurgeTrims DEF RevokeUserFirst, PurgeOfUser, UserTables, Trims
<1>8. CASE RevokeUserSecond(v)
  BY <1>8, SameTable, PurgeTrims DEF RevokeUserSecond, PurgeOfUser, UserTables, Trims
<1>9. QED  BY <1>2, <1>3, <1>4, <1>5, <1>6, <1>7, <1>8 DEF CallSteps

\* The invariants of TokenGrants.
TokenInv == Typed /\ RightInv /\ History /\ EndInv /\ RevokedInv

\* The types.
LEMMA TypedTrims == Typed /\ Trims => Typed'
BY DEF Typed, TypeOK, JobInv, JobAtStep, Target, Trims

\* The right to refresh a grant stays where it is, or is deleted.
LEMMA RightTrims == Typed /\ RightInv /\ Trims => RightInv'
<1> SUFFICES ASSUME Typed, RightInv, Trims
             PROVE  RightInv'
  OBVIOUS
<1>1. RefreshShrinks
  BY DEF Trims, OnlyDeletes, SameColumns, RefreshShrinks
<1>2. StepShrinks
  BY <1>1 DEF Trims, StepShrinks
<1>3. \A q \in Requests : \A h : Pending(q, h)' => Pending(q, h)
  BY DEF Trims, Pending
<1>4. QED  BY <1>2, <1>3, StepKeepsRight DEF StepKeeps

\* What has happened to the tokens of a grant is read from columns that stay.
LEMMA HistoryTrims == Typed /\ History /\ Trims => History'
<1> SUFFICES ASSUME Typed, WayInv, WonInv, GrantInv, FirstInv, ExpiryInv, OwnInv, Trims
             PROVE  History'
  BY DEF History
<1>1. /\ UNCHANGED <<codes, pc, job, row>>
      /\ \A i \in Requests : /\ SameColumns(refresh'[i], refresh[i])
                             /\ refresh'[i].st = "none" <=> refresh[i].st = "none"
                             /\ refresh[i].st = "gone" => refresh'[i].st = "gone"
      /\ \A i \in Requests : /\ SameColumns(access'[i], access[i])
                             /\ access'[i].st = "none" <=> access[i].st = "none"
  BY DEF Trims, OnlyDeletes
<1>2. WayInv'
  BY <1>1 DEF WayInv
<1>3. WonInv'
  BY <1>1 DEF WonInv, HasExchanged, HasRotated, Typed, JobInv, Target
<1>4. GrantInv'
  BY <1>1 DEF GrantInv, OfWholeGrant, OfItsGrant, Started, ScopesOfGrant, ClientOfGrant, SameColumns,
     GrantOf, Typed, JobInv, Target
<1>5. FirstInv'
  BY <1>1 DEF FirstInv, SameColumns
<1>6. ExpiryInv'
  BY <1>1 DEF ExpiryInv, AbsoluteExpiryKept, Stored, SameColumns, Typed, JobInv, JobAtStep, Target, Reading
<1>7. OwnInv'
  BY <1>1 DEF OwnInv, SameColumns, GrantOf
<1>8. QED  BY <1>2, <1>3, <1>4, <1>5, <1>6, <1>7 DEF History

\* So is, without faults, the access token of a rotated grant.
LEMMA FaultlessTrims == Typed /\ Faultless /\ Trims => Faultless'
<1> SUFFICES ASSUME Typed, AliveInv, PairInv, OneAnswering, Trims
             PROVE  Faultless'
  BY DEF Faultless
<1>1. /\ UNCHANGED <<codes, pc, job, row>>
      /\ \A i \in Requests : /\ SameColumns(refresh'[i], refresh[i])
                             /\ refresh'[i].st = "none" <=> refresh[i].st = "none"
                             /\ refresh'[i].st = "live" => refresh[i].st = "live"
      /\ \A i \in Requests : /\ SameColumns(access'[i], access[i])
                             /\ access'[i].st = "live" => access[i].st = "live"
  BY DEF Trims, OnlyDeletes
<1>2. AliveInv'
  BY <1>1 DEF AliveInv
<1>3. PairInv'
  BY <1>1 DEF PairInv, SameColumns, Typed, JobInv, JobAtStep, Target, Reading
<1>4. OneAnswering'
  BY <1>1 DEF OneAnswering, Answering, Answered, Live, Pending, SameColumns
<1>5. QED  BY <1>2, <1>3, <1>4 DEF Faultless

\* A revocation that is complete stays complete.
LEMMA RevokedTrims == Typed /\ EndInv /\ RevokedInv /\ Trims => EndInv' /\ RevokedInv'
<1> SUFFICES ASSUME Typed, EndInv, RevokedInv, Trims
             PROVE  EndInv' /\ RevokedInv'
  OBVIOUS
<1>1. /\ UNCHANGED <<enabled, codes, pc, job, row, quiet>>
      /\ \A i \in Requests : /\ SameColumns(refresh'[i], refresh[i])
                             /\ refresh'[i].st = "live" => refresh[i].st = "live"
      /\ \A i \in Requests : /\ SameColumns(access'[i], access[i])
                             /\ access'[i].st = "live" => access[i].st = "live"
  BY DEF Trims, OnlyDeletes
<1>2. EndInv'
  BY <1>1 DEF EndInv, Ended
<1>3. RevokedInv'
  BY <1>1 DEF RevokedInv, Revoked, Storing, GrantOf, UserOf, Live, Matches, SameColumns
<1>4. QED  BY <1>2, <1>3

--------------------------------------------------------------------------------
(***************************************************************************)
(* What TokenGrants guarantees is still true beside the calls.             *)
(***************************************************************************)

\* Every step of a request, of the cleanup or of a call keeps the invariants.
LEMMA TokenInvNext == TokenInv /\ [UseNext]_<<vars, uses>> => TokenInv'
<1>1. ASSUME TokenInv, [Next]_vars  PROVE TokenInv'
  <2>1. Typed' /\ RightInv' /\ History'
    BY <1>1, TypingNext, RightNext, HistoryNext DEF TokenInv
  <2>2. EndInv' /\ RevokedInv'
    BY <1>1, EndNext, RevokedNext DEF TokenInv, History
  <2>3. QED  BY <2>1, <2>2 DEF TokenInv
<1>2. ASSUME TokenInv, Trims  PROVE TokenInv'
  BY <1>2, TypedTrims, RightTrims, HistoryTrims, RevokedTrims DEF TokenInv
<1>3. QED  BY <1>1, <1>2, CallTrims DEF UseNext, TokenInv

\* So it does, if no store call fails, with the other one.
LEMMA FaultlessUseNext ==
  ~Faults /\ TokenInv /\ Faultless /\ [UseNext]_<<vars, uses>> => Faultless'
<1>1. ASSUME ~Faults, TokenInv, Faultless, [Next]_vars  PROVE Faultless'
  BY <1>1, FaultlessNext, HistoryNext DEF TokenInv
<1>2. ASSUME TokenInv, Faultless, Trims  PROVE Faultless'
  BY <1>2, FaultlessTrims DEF TokenInv
<1>3. QED  BY <1>1, <1>2, CallTrims DEF UseNext, TokenInv

\* The invariants hold before the first request.
LEMMA TokenInvInit == UseInit => TokenInv /\ Faultless
<1>1. Init => EndInv /\ RevokedInv
  BY DEF Init, EndInv, RevokedInv, NoJob
<1>2. QED
  BY <1>1, TypingInit, RightInit, HistoryInit, FaultlessInit DEF UseInit, TokenInv

\* Every run with calls keeps them.
LEMMA TokenInvHolds == UseSpec => []TokenInv
BY TokenInvInit, TokenInvNext, PTL DEF UseSpec

\* Without faults, every run keeps both.
LEMMA FaultlessUseHolds == ~Faults => (UseSpec => []Faultless)
<1> SUFFICES ASSUME ~Faults
             PROVE  UseSpec => []Faultless
  OBVIOUS
<1> DEFINE Inv == TokenInv /\ Faultless
<1>1. UseInit => Inv
  BY TokenInvInit
<1>2. Inv /\ [UseNext]_<<vars, uses>> => Inv'
  BY TokenInvNext, FaultlessUseNext
<1>3. Inv => Faultless
  OBVIOUS
<1>4. QED  BY <1>1, <1>2, <1>3, PTL DEF UseSpec

\* Deleting tokens through the API (api/tokens.go, revokeUserTokens) takes nothing from what
\* the token endpoint guarantees of refresh tokens, codes, scopes and expiries.
THEOREM GuaranteesKept ==
  UseSpec => [](OneRefreshToken /\ SingleUse /\ ScopesKept /\ AbsoluteExpiryKept)
<1>1. TokenInv => OneRefreshToken /\ SingleUse /\ ScopesKept /\ AbsoluteExpiryKept
  <2> SUFFICES ASSUME TokenInv
               PROVE  OneRefreshToken /\ SingleUse /\ ScopesKept /\ AbsoluteExpiryKept
    OBVIOUS
  <2>1. OneRefreshToken /\ AbsoluteExpiryKept
    BY DEF TokenInv, RightInv, OneHolder, History, ExpiryInv
  <2>2. SingleUse
    BY DEF TokenInv, Typed, History, WonInv, GrantInv, SingleUse, HasExchanged, HasRotated
  <2>3. ScopesKept
    BY DEF TokenInv, History, GrantInv, ScopesKept, OfWholeGrant, OfItsGrant, ScopesOfGrant, Stored
  <2>4. QED  BY <2>1, <2>2, <2>3
<1>2. QED  BY <1>1, TokenInvHolds, PTL

\* A bulk revocation that had nobody in flight at its start is complete, although the API
\* deletes tokens of the same users and clients at the same time.
THEOREM RevocationBesideCalls == UseSpec => []RevocationComplete
<1>1. TokenInv => RevocationComplete
  BY DEF TokenInv, RevokedInv, Revoked, RevocationComplete
<1>2. QED  BY <1>1, TokenInvHolds, PTL

\* If no store call fails, a refused request leaves no access token and a rotated grant has
\* one, whatever the API deletes between the steps of a rotation.
THEOREM AccessTokensKept == ~Faults => (UseSpec => [](RefusedLeavesNothing /\ OneAccessToken))
<1> SUFFICES ASSUME ~Faults
             PROVE  UseSpec => [](RefusedLeavesNothing /\ OneAccessToken)
  OBVIOUS
<1>1. TokenInv /\ Faultless => RefusedLeavesNothing /\ OneAccessToken
  BY DEF TokenInv, History, Faultless, AliveInv, RefusedLeavesNothing, GrantInv, OfItsGrant,
     OneAnswering, Answering, OneAccessToken, Live
<1>2. QED  BY <1>1, TokenInvHolds, FaultlessUseHolds, PTL

--------------------------------------------------------------------------------
(***************************************************************************)
(* The refinement of RefreshRight: to a grant, a deletion by the API is    *)
(* the loss of its right.                                                  *)
(***************************************************************************)

\* The right of a grant stays, or is lost with its token.
LEMMA HandoverTrims ==
  ASSUME Typed, RightInv, Trims, NEW g \in Grants
  PROVE  /\ RightOf(g)' \in Right!Handover(RightOf(g))
         /\ HasToken(g) /\ ~HasToken(g)' => RightOf(g)' = "over"
<1> DEFINE Unused == g \in Codes /\ codes[g].st = "unused"
<1>1. /\ HasToken(g)' => HasToken(g)
      /\ HasRequest(g)' <=> HasRequest(g)
      /\ Unused' <=> Unused
      /\ Fresh(g)' <=> Fresh(g)
  BY DEF Trims, OnlyDeletes, SameColumns, HasToken, HasRequest, Pending, Fresh
<1>2. /\ HasToken(g)' => RightOf(g)' = "token"
      /\ ~HasToken(g)' /\ HasRequest(g)' => RightOf(g)' = "inflight"
      /\ ~HasToken(g)' /\ ~HasRequest(g)' /\ Unused' => RightOf(g)' = "code"
      /\ ~HasToken(g)' /\ ~HasRequest(g)' /\ ~Unused' /\ Fresh(g)' => RightOf(g)' = "unissued"
      /\ ~HasToken(g)' /\ ~HasRequest(g)' /\ ~Unused' /\ ~Fresh(g)' => RightOf(g)' = "over"
  BY DEF HasToken, HasRequest, RightOf, Live
<1>3. CASE HasToken(g)
  <2>1. Begun(g) /\ ~HasRequest(g)
    BY <1>3 DEF HasToken, HasRequest, RightInv, BegunInv, OneHolder, Live
  <2>2. ~Unused /\ ~Fresh(g)
    BY <2>1, ConstantAssumption DEF Begun, Fresh, Grants
  <2>3. QED  BY <1>1, <1>2, <1>3, <2>1, <2>2, RightCases DEF Right!Handover
<1>4. CASE ~HasToken(g)
  BY <1>1, <1>2, <1>4, RightCases DEF Right!Handover
<1>5. QED  BY <1>3, <1>4

\* So does every other step.
LEMMA HandoverUse ==
  ASSUME TokenInv, [UseNext]_<<vars, uses>>, NEW g \in Grants
  PROVE  RightOf(g)' \in Right!Handover(RightOf(g))
BY HandoverStep, HandoverTrims, CallTrims DEF UseNext, TokenInv

\* With the deletions of the API a grant's right to be refreshed is still in one place, and
\* lost for good once it is lost (HandleDeleteRefreshToken, HandleRevokeUserTokens).
THEOREM RefreshRightBesideCalls == UseSpec => ImplementsRefreshRight
<1> DEFINE right == [g \in Grants |-> RightOf(g)]
<1>1. UseInit => Right!Init
  <2>1. SUFFICES ASSUME UseInit, NEW g \in Grants
                 PROVE  RightOf(g) = "unissued"
    BY DEF Right!Init
  <2>2. ~HasToken(g) /\ ~HasRequest(g)
    BY <2>1 DEF UseInit, Init, HasToken, HasRequest, Pending, NoRow, NoJob
  <2>3. ~(g \in Codes /\ codes[g].st = "unused") /\ Fresh(g)
    BY <2>1 DEF UseInit, Init, Fresh, NoRow, Grants
  <2>4. QED  BY <2>2, <2>3, RightCases
<1>2. TokenInv /\ [UseNext]_<<vars, uses>> => Right!Next
  <2>1. SUFFICES ASSUME TokenInv, [UseNext]_<<vars, uses>>
                 PROVE  Right!Next
    OBVIOUS
  <2>2. \A g \in Grants : RightOf(g)' \in Right!Rights
    BY DEF RightOf, Right!Rights
  <2>3. \A g \in Grants : RightOf(g)' \in Right!Handover(RightOf(g))
    BY <2>1, HandoverUse
  <2>4. QED  BY <2>2, <2>3 DEF Right!Next
<1>3. QED  BY <1>1, <1>2, TokenInvHolds, PTL DEF UseSpec, ImplementsRefreshRight, Right!Spec

--------------------------------------------------------------------------------
(***************************************************************************)
(* The calls.  Each goes its way with the token it presented, which was    *)
(* answered before and so is not stored again once it is deleted.          *)
(***************************************************************************)

\* The calls that are about to be let in have passed some of the checks.
TaskInv ==
  \A v \in Calls :
    /\ step[v] # "idle" => task[v].token \in Requests /\ pc[task[v].token] = "ok"
    /\ task[v].kind \in {"delete_access", "delete_refresh"} => task[v].target \in Requests
    /\ step[v] = "drop_access" => task[v].kind \in {"delete_access", "delete_refresh"}
    /\ step[v] \in {"get_row", "drop_refresh"} => task[v].kind = "delete_refresh"
    /\ step[v] \in {"drop_many", "revoke_user", "revoke_rest"} =>
         task[v].kind \in {"delete_many", "revoke_user"}

Passed(v) ==
  /\ arrival[v].now <= now
  /\ enabled \subseteq arrival[v].enabled
  /\ Presented(task[v])[task[v].token].st = "live" => arrival[v].working
  /\ step[v] \in {"check_token", "get_client", "get_owner"} \cup LetIn => arrival[v].working
  /\ step[v] \in {"get_client", "get_owner"} \cup LetIn => ~HasExpired(seen[v], arrival[v].now)
  /\ step[v] \in {"get_owner"} \cup LetIn => seen[v].client \in arrival[v].enabled
  /\ step[v] \in LetIn => seen[v].user = None \/ seen[v].user \in arrival[v].enabled

CallInv == UseTypeOK /\ TaskInv /\ \A v \in Calls : step[v] # "idle" => Passed(v)

\* A token that was answered and is not there does not come back, and time passes.
Onward ==
  /\ now <= now' /\ enabled' \subseteq enabled
  /\ \A t \in Requests : pc[t] = "ok" =>
       /\ pc'[t] = "ok"
       /\ access'[t].st = "live" => access[t].st = "live"
       /\ refresh'[t].st = "live" => refresh[t].st = "live"

\* Deletions go onward.
LEMMA TrimsOnward == Typed /\ Trims => Onward
BY DEF Typed, TypeOK, Trims, OnlyDeletes, Onward

\* Nothing goes back the other way: every step of TokenGrants goes onward.
LEMMA StepOnward == Typed /\ [Next]_vars => Onward
<1> SUFFICES ASSUME Typed, [Next]_vars
             PROVE  Onward
  OBVIOUS
<1>1. now <= now'
  <2>1. now' = now \/ now' = now + 1
    <3>1. ASSUME NEW r \in Requests, Arrive(r)  PROVE now' = now
      BY <3>1, ArriveStep DEF Arrived
    <3>2. ASSUME NEW r \in Requests, Advance(r)  PROVE now' = now
      BY <3>2 DEF Advance, GetCode, CheckCode, ConsumeCode, GetUser, Authenticate, CreateAccess,
         CreateRefresh, GetRefresh, CheckRefresh, DeletePrevious, Rotate, Undo, UpdateRefresh,
         GetSubject, Disable, RevokeFirst, RevokeSecond, GetAccess, DropRefresh, DropAccess
    <3>3. QED
      BY <3>1, <3>2 DEF Next, Tick, IssueCode, Fail, Sweep, SweepAccess, SweepRefresh, SweepCodes,
         SweepFail, vars
  <2>2. QED  BY <2>1 DEF Typed, TypeOK
<1>2. enabled' \subseteq enabled
  <2>1. ASSUME NEW r \in Requests, Arrive(r)  PROVE UNCHANGED enabled
    BY <2>1, ArriveStep DEF Arrived
  <2>2. ASSUME NEW r \in Requests, Advance(r)  PROVE enabled' \subseteq enabled
    BY <2>2 DEF Advance, GetCode, CheckCode, ConsumeCode, GetUser, Authenticate, CreateAccess,
       CreateRefresh, GetRefresh, CheckRefresh, DeletePrevious, Rotate, Undo, UpdateRefresh,
       GetSubject, Disable, RevokeFirst, RevokeSecond, GetAccess, DropRefresh, DropAccess
  <2>3. QED
    BY <2>1, <2>2 DEF Next, Tick, IssueCode, Fail, Sweep, SweepAccess, SweepRefresh, SweepCodes,
       SweepFail, vars
<1>3. ASSUME NEW t \in Requests, pc[t] = "ok"
      PROVE  pc'[t] = "ok"
  <2>1. ASSUME NEW r \in Requests, Arrive(r)  PROVE pc'[t] = "ok"
    BY <1>3, <2>1, ArriveStep DEF Arrived
  <2>2. ASSUME NEW r \in Requests, Advance(r) \/ Fail(r)  PROVE pc[r] # "ok" /\ \E l : Goto(r, l)
    BY <2>2 DEF Advance, GetCode, CheckCode, ConsumeCode, GetUser, Authenticate, CreateAccess,
       CreateRefresh, GetRefresh, CheckRefresh, DeletePrevious, Rotate, Undo, UpdateRefresh,
       GetSubject, Disable, RevokeFirst, RevokeSecond, GetAccess, DropRefresh, DropAccess, Fail,
       StoreCalls
  <2>3. ASSUME NEW r \in Requests, Advance(r) \/ Fail(r)  PROVE pc'[t] = "ok"
    BY <1>3, <2>2, <2>3 DEF Goto, Typed, TypeOK
  <2>4. QED
    BY <1>3, <2>1, <2>3 DEF Next, Tick, IssueCode, Sweep, SweepAccess, SweepRefresh, SweepCodes,
       SweepFail, vars
<1>4. ASSUME NEW t \in Requests, pc[t] = "ok"
      PROVE  access'[t].st = "live" => access[t].st = "live"
  <2>1. ASSUME NEW r \in Requests, CreateAccess(r)
        PROVE  access'[t] = access[t]
    BY <1>4, <2>1 DEF CreateAccess, Typed, TypeOK
  <2>2. QED  BY <2>1, StepDeletes DEF OnlyDeletes
<1>5. ASSUME NEW t \in Requests, pc[t] = "ok"
      PROVE  refresh'[t].st = "live" => refresh[t].st = "live"
  <2>1. ASSUME NEW r \in Requests, CreateRefresh(r)
        PROVE  refresh'[t] = refresh[t]
    BY <1>5, <2>1 DEF CreateRefresh, Typed, TypeOK
  <2>2. ASSUME NEW r \in Requests, UpdateRefresh(r)
        PROVE  refresh'[t].st = "live" => refresh[t].st = "live"
    BY <2>2 DEF UpdateRefresh, Updatable, Typed, TypeOK
  <2>3. QED  BY <2>1, <2>2, StepDeletes DEF OnlyDeletes
<1>6. QED  BY <1>1, <1>2, <1>3, <1>4, <1>5 DEF Onward

\* Each row of a table is in the table.
LEMMA PresentedType ==
  ASSUME Typed, NEW t, NEW i \in Requests
  PROVE  Presented(t)[i] \in Row
BY DEF Typed, TypeOK, Presented

\* What has passed some of the checks has passed them from then on.
LEMMA PassedStays ==
  ASSUME CallInv, Onward, NEW v \in Calls, step[v] # "idle", task'[v] = task[v],
         step'[v] = step[v], seen'[v] = seen[v], arrival'[v] = arrival[v], now \in Nat, now' \in Nat
  PROVE  Passed(v)' /\ pc'[task[v].token] = "ok"
<1>1. /\ task[v].token \in Requests /\ pc[task[v].token] = "ok" /\ Passed(v)
      /\ arrival[v] \in Arrival
  BY DEF CallInv, TaskInv, UseTypeOK
<1>2. arrival[v].now \in Nat
  BY <1>1 DEF Arrival
<1>3. QED  BY <1>1, <1>2 DEF Passed, Onward, Presented

\* The state of the calls that a step does not concern.
OthersStay(v) ==
  \A w \in Calls \ {v} :
    /\ step'[w] = step[w] /\ task'[w] = task[w] /\ seen'[w] = seen[w] /\ arrival'[w] = arrival[w]

\* An arrival has a task of its kind, and its clock and registrations are those of now.
LEMMA ArriveCall ==
  ASSUME TokenInv, CallInv, NEW v \in Calls, CallArrives(v)
  PROVE  /\ \E t \in Task : /\ Call(v, t) /\ t.token \in Requests /\ pc[t.token] = "ok"
                            /\ t.kind \in {"delete_access", "delete_refresh"} =>
                                 t.target \in Requests
<1> DEFINE Goal(t) == /\ t \in Task /\ Call(v, t) /\ t.token \in Requests /\ pc[t.token] = "ok"
                      /\ t.kind \in {"delete_access", "delete_refresh"} => t.target \in Requests
<1> USE UseAssumption DEF Task, NoTask, AllUses, Deletions
<1>1. ASSUME NEW b \in Requests, CallResource(v, b)
      PROVE  \E t : Goal(t)
  <2> WITNESS [NoTask EXCEPT !.kind = "resource", !.token = b]
  <2> QED  BY <1>1 DEF CallResource, Call
<1>2. ASSUME NEW b \in Requests, NEW table \in {"access", "refresh"}, CallIntrospect(v, b, table)
      PROVE  \E t : Goal(t)
  <2> WITNESS [NoTask EXCEPT !.kind = "introspect", !.token = b, !.table = table]
  <2> QED  BY <1>2 DEF CallIntrospect, Call
<1>3. ASSUME NEW b \in Requests, NEW table \in {"access", "refresh"}, NEW x \in Requests,
             CallDelete(v, b, table, x)
      PROVE  \E t : Goal(t)
  <2>1. PICK k \in {"delete_access", "delete_refresh"} :
          Call(v, [NoTask EXCEPT !.kind = k, !.token = b, !.target = x])
    BY <1>3 DEF CallDelete
  <2> WITNESS [NoTask EXCEPT !.kind = k, !.token = b, !.target = x]
  <2> QED  BY <2>1 DEF Call
<1>4. ASSUME NEW b \in Requests, NEW table \in {"access", "refresh"}, NEW f \in Filters,
             CallDeleteMany(v, b, table, f[1], f[2], f[3])
      PROVE  \E t : Goal(t)
  <2> WITNESS [NoTask EXCEPT !.kind = "delete_many", !.token = b, !.table = table, !.client = f[1],
                             !.user = f[2], !.expired = f[3]]
  <2>1. f[1] \in Clients \cup {None} /\ f[2] \in Users \cup {None} /\ f[3] \in BOOLEAN
    OBVIOUS
  <2> QED  BY <1>4, <2>1 DEF CallDeleteMany, Call
<1>5. ASSUME NEW b \in Requests, NEW u \in Users, CallRevokeUser(v, b, u)
      PROVE  \E t : Goal(t)
  <2> WITNESS [NoTask EXCEPT !.kind = "revoke_user", !.token = b, !.user = u]
  <2> QED  BY <1>5 DEF CallRevokeUser, Call
<1>6. QED  BY <1>1, <1>2, <1>3, <1>4, <1>5 DEF CallArrives

\* The grants whose tokens a revocation deletes are grants.
LEMMA GrantsOfType ==
  ASSUME GrantInv, NEW u
  PROVE  GrantsOf(u) \subseteq Grants
BY DEF GrantInv, OfItsGrant, OfWholeGrant, Started, GrantsOf, OfUser

\* What a call is after its step.
StepGoal(v) ==
  /\ UseTypeOK' /\ OthersStay(v)
  /\ task'[v].token \in Requests /\ pc[task'[v].token] = "ok"
  /\ task'[v].kind \in {"delete_access", "delete_refresh"} => task'[v].target \in Requests
  /\ step'[v] = "drop_access" => task'[v].kind \in {"delete_access", "delete_refresh"}
  /\ step'[v] \in {"get_row", "drop_refresh"} => task'[v].kind = "delete_refresh"
  /\ step'[v] \in {"drop_many", "revoke_user", "revoke_rest"} =>
       task'[v].kind \in {"delete_many", "revoke_user"}
  /\ Passed(v)'

\* An arriving call has passed no check.
LEMMA ArriveGoal ==
  ASSUME TokenInv, CallInv, NEW v \in Calls, CallArrives(v)
  PROVE  StepGoal(v)
<1>1. PICK t \in Task : /\ Call(v, t) /\ t.token \in Requests /\ pc[t.token] = "ok"
                        /\ t.kind \in {"delete_access", "delete_refresh"} => t.target \in Requests
  BY ArriveCall
<1>2. /\ UNCHANGED <<vars, seen, found, revoked>>
      /\ step' = [step EXCEPT ![v] = "get_token"] /\ task' = [task EXCEPT ![v] = t]
      /\ arrival' = [arrival EXCEPT ![v] = [now |-> now, enabled |-> enabled,
                                            working |-> Presented(t)[t.token].st = "live"]]
  BY <1>1 DEF Call, Proceed
<1>3. arrival'[v] \in Arrival
  BY <1>2 DEF Arrival, TokenInv, Typed, TypeOK, CallInv, UseTypeOK
<1>4. UseTypeOK'
  BY <1>2, <1>3 DEF CallInv, UseTypeOK
<1> DEFINE working == Presented(t)[t.token].st = "live"
<1>5. Passed(v)'
  <2>1. /\ step'[v] = "get_token" /\ task'[v] = t /\ now' = now /\ enabled' = enabled /\ now \in Nat
        /\ arrival'[v].now = now /\ arrival'[v].enabled = enabled
        /\ arrival'[v].working = working
        /\ refresh' = refresh /\ access' = access
    BY <1>2 DEF vars, TokenInv, Typed, TypeOK, CallInv, UseTypeOK
  <2>2. Presented(task[v])'[task'[v].token].st = "live" => arrival'[v].working
    BY <2>1 DEF Presented
  <2>3. QED  BY <2>1, <2>2 DEF Passed, LetIn
<1>6. QED  BY <1>1, <1>2, <1>4, <1>5 DEF StepGoal, OthersStay, CallInv, UseTypeOK

\* A check of a call goes on with what it has read.
LEMMA CheckGoal ==
  ASSUME TokenInv, CallInv, NEW v \in Calls,
         GetToken(v) \/ CheckToken(v) \/ GetClient(v) \/ GetOwner(v) \/ GetRow(v)
  PROVE  StepGoal(v)
<1> USE DEF CallInv, TaskInv, UseTypeOK, Proceed
<1>1. /\ step[v] # "idle" /\ UNCHANGED <<task, arrival>> /\ UNCHANGED vars
      /\ task[v].token \in Requests /\ pc[task[v].token] = "ok"
      /\ task[v] \in Task /\ arrival[v] \in Arrival /\ seen[v] \in Row /\ Passed(v)
  BY DEF GetToken, CheckToken, GetClient, GetOwner, GetRow
<1>2. /\ now' = now /\ enabled' = enabled /\ now \in Nat /\ arrival[v].now \in Nat
      /\ Presented(task[v])' = Presented(task[v]) /\ enabled \subseteq arrival[v].enabled
  BY <1>1 DEF vars, Presented, TokenInv, Typed, TypeOK, Arrival, Passed
<1>3. Handler(task[v]) \in {"drop_access", "get_row", "drop_many", "revoke_user", "ok"}
  BY DEF Handler
<1>4. /\ Handler(task[v]) = "drop_access" => task[v].kind \in {"delete_access", "delete_refresh"}
      /\ Handler(task[v]) = "get_row" => task[v].kind = "delete_refresh"
      /\ Handler(task[v]) \in {"drop_many", "revoke_user"} =>
           task[v].kind \in {"delete_many", "revoke_user"}
  BY DEF Handler
<1>5. CASE GetToken(v)
  <2>1. Presented(task[v])[task[v].token] \in Row
    BY <1>1, PresentedType DEF TokenInv
  <2>2. UseTypeOK' /\ OthersStay(v)
    BY <1>1, <1>5, <2>1 DEF GetToken, OthersStay
  <2>3. step'[v] \in {"check_token", "inactive"}
    BY <1>5 DEF GetToken
  <2>4. step'[v] = "check_token" => arrival[v].working
    BY <1>1, <1>5 DEF GetToken, Passed
  <2>5. Passed(v)'
    BY <1>1, <1>2, <2>3, <2>4 DEF Passed, LetIn
  <2>6. QED  BY <1>1, <2>2, <2>3, <2>5 DEF StepGoal
<1>6. CASE CheckToken(v)
  <2>1. UseTypeOK' /\ OthersStay(v) /\ seen' = seen
    BY <1>1, <1>6 DEF CheckToken, OthersStay
  <2>2. step'[v] \in {"inactive", "get_client"} /\ arrival[v].working
    BY <1>1, <1>6 DEF CheckToken, Passed
  <2>3. step'[v] = "get_client" => ~HasExpired(seen[v], arrival[v].now)
    <3>1. ~HasExpired(seen[v], now) => ~HasExpired(seen[v], arrival[v].now)
      BY <1>1, <1>2 DEF HasExpired, Passed, Row
    <3>2. QED  BY <1>6, <3>1 DEF CheckToken
  <2>4. Passed(v)'
    BY <1>1, <1>2, <2>1, <2>2, <2>3 DEF Passed, LetIn
  <2>5. QED  BY <1>1, <2>1, <2>2, <2>4 DEF StepGoal
<1>7. CASE GetClient(v)
  <2>1. UseTypeOK' /\ OthersStay(v) /\ seen' = seen
    BY <1>1, <1>3, <1>7 DEF GetClient, OthersStay
  <2>2. step'[v] \in {"inactive", "get_owner", Handler(task[v])}
    BY <1>7 DEF GetClient
  <2>3. arrival[v].working /\ ~HasExpired(seen[v], arrival[v].now)
    BY <1>1, <1>7 DEF GetClient, Passed
  <2>4. step'[v] # "inactive" => seen[v].client \in arrival[v].enabled
    BY <1>2, <1>7 DEF GetClient, ClientActive
  <2>5. step'[v] \notin {"inactive", "get_owner"} => seen[v].user = None
    BY <1>7 DEF GetClient
  <2>6. Passed(v)'
    BY <1>1, <1>2, <1>3, <2>1, <2>2, <2>3, <2>4, <2>5 DEF Passed, LetIn
  <2>7. QED  BY <1>1, <1>3, <1>4, <2>1, <2>2, <2>6 DEF StepGoal
<1>8. CASE GetOwner(v)
  <2>1. UseTypeOK' /\ OthersStay(v) /\ seen' = seen
    BY <1>1, <1>3, <1>8 DEF GetOwner, OthersStay
  <2>2. step'[v] \in {"inactive", Handler(task[v])}
    BY <1>8 DEF GetOwner
  <2>3. /\ arrival[v].working /\ ~HasExpired(seen[v], arrival[v].now)
        /\ seen[v].client \in arrival[v].enabled
    BY <1>1, <1>8 DEF GetOwner, Passed
  <2>4. step'[v] # "inactive" => seen[v].user = None \/ seen[v].user \in arrival[v].enabled
    BY <1>2, <1>8 DEF GetOwner, CanSignIn
  <2>5. Passed(v)'
    BY <1>1, <1>2, <1>3, <2>1, <2>2, <2>3, <2>4 DEF Passed, LetIn
  <2>6. QED  BY <1>1, <1>3, <1>4, <2>1, <2>2, <2>5 DEF StepGoal
<1>9. CASE GetRow(v)
  <2>1. task[v].kind = "delete_refresh" /\ refresh[task[v].target] \in Row
    BY <1>9 DEF GetRow, TokenInv, Typed, TypeOK
  <2>2. UseTypeOK' /\ OthersStay(v) /\ seen' = seen
    BY <1>1, <1>9, <2>1 DEF GetRow, OthersStay
  <2>3. step'[v] \in {"drop_refresh", "not_found"} /\ step[v] = "get_row"
    BY <1>9 DEF GetRow
  <2>4. Passed(v)'
    BY <1>1, <1>2, <2>2, <2>3 DEF Passed, LetIn
  <2>5. QED  BY <1>1, <2>1, <2>2, <2>3, <2>4 DEF StepGoal
<1>10. QED  BY <1>5, <1>6, <1>7, <1>8, <1>9

\* A deletion by a call is done with what the call has passed.
LEMMA DeleteGoal ==
  ASSUME TokenInv, CallInv, NEW v \in Calls,
         \/ DropAccessToken(v) \/ DropRefreshToken(v) \/ DropMany(v)
         \/ RevokeUserFirst(v) \/ RevokeUserSecond(v)
  PROVE  StepGoal(v)
<1>1. /\ step[v] \in LetIn /\ step[v] # "idle" /\ UNCHANGED <<task, seen, found, arrival, now, enabled>>
      /\ step' \in {[step EXCEPT ![v] = l] : l \in {"ok", "not_found", "drop_access", "revoke_rest"}}
      /\ step'[v] = "drop_access" => step[v] = "drop_refresh"
  BY DEF DropAccessToken, DropRefreshToken, DropMany, RevokeUserFirst, RevokeUserSecond, Proceed,
     LetIn, CallInv, UseTypeOK
<1>2. /\ task[v].token \in Requests /\ pc[task[v].token] = "ok" /\ Passed(v) /\ UseTypeOK
      /\ task[v].kind \in {"delete_access", "delete_refresh"} => task[v].target \in Requests
      /\ step[v] = "drop_refresh" => task[v].kind = "delete_refresh"
      /\ step'[v] = "revoke_rest" => step[v] = "revoke_user"
      /\ step[v] = "revoke_user" => task[v].kind \in {"delete_many", "revoke_user"}
  BY <1>1 DEF CallInv, TaskInv, UseTypeOK, DropAccessToken, DropRefreshToken, DropMany,
     RevokeUserFirst, RevokeUserSecond, Proceed
<1>3. step'[v] \in {"ok", "not_found", "drop_access", "revoke_rest"} /\ step'[v] \in LetIn
  BY <1>1, <1>2 DEF UseTypeOK, LetIn
<1>4. revoked' \in [Calls -> SUBSET Grants]
  BY <1>2, GrantsOfType DEF DropAccessToken, DropRefreshToken, DropMany, RevokeUserFirst,
     RevokeUserSecond, UseTypeOK, TokenInv, History
<1>5. UseTypeOK'
  BY <1>1, <1>2, <1>4 DEF UseTypeOK
<1>6. Presented(task[v])'[task[v].token].st = "live" => Presented(task[v])[task[v].token].st = "live"
  <2>1. Trims
    BY CallTrims DEF CallSteps, TokenInv
  <2>2. QED  BY <1>1, <1>2, <2>1 DEF Trims, OnlyDeletes, Presented, SameColumns
<1>7. Passed(v)'
  BY <1>1, <1>2, <1>3, <1>6 DEF Passed, Presented
<1>8. OthersStay(v)
  BY <1>1, <1>2 DEF OthersStay, UseTypeOK
<1>9. QED  BY <1>1, <1>2, <1>3, <1>5, <1>7, <1>8 DEF StepGoal

\* Every step keeps what the calls have passed.
LEMMA CallInvNext == TokenInv /\ CallInv /\ [UseNext]_<<vars, uses>> => CallInv'
<1> SUFFICES ASSUME TokenInv, CallInv, [UseNext]_<<vars, uses>>
             PROVE  CallInv'
  OBVIOUS
<1>1. now \in Nat /\ now' \in Nat
  BY TokenInvNext DEF TokenInv, Typed, TypeOK
<1>2. Onward
  BY CallTrims, TrimsOnward, StepOnward DEF UseNext, TokenInv
<1>3. CASE [Next]_vars /\ UNCHANGED uses
  <2>1. UseTypeOK' /\ UNCHANGED <<step, task, seen, arrival>>
    BY <1>3 DEF uses, CallInv, UseTypeOK
  <2>2. \A v \in Calls : step[v] # "idle" => Passed(v)' /\ pc'[task[v].token] = "ok"
    BY <1>1, <1>2, <2>1, PassedStays
  <2>3. QED  BY <2>1, <2>2 DEF CallInv, TaskInv
<1>4. ASSUME NEW v \in Calls, CallArrives(v) \/ CallSteps(v)
      PROVE  CallInv'
  <2>1. StepGoal(v)
    BY <1>4, ArriveGoal, CheckGoal, DeleteGoal DEF CallSteps
  <2>2. \A w \in Calls \ {v} : step[w] # "idle" => Passed(w)' /\ pc'[task[w].token] = "ok"
    BY <1>1, <1>2, <2>1, PassedStays DEF StepGoal, OthersStay
  <2>3. pc'[task'[v].token] = "ok"
    BY <1>2, <2>1 DEF StepGoal, Onward
  <2>4. ASSUME NEW w \in Calls
        PROVE  /\ step'[w] # "idle" => task'[w].token \in Requests /\ pc'[task'[w].token] = "ok"
               /\ task'[w].kind \in {"delete_access", "delete_refresh"} => task'[w].target \in Requests
               /\ step'[w] = "drop_access" => task'[w].kind \in {"delete_access", "delete_refresh"}
               /\ step'[w] \in {"get_row", "drop_refresh"} => task'[w].kind = "delete_refresh"
               /\ step'[w] \in {"drop_many", "revoke_user", "revoke_rest"} =>
                    task'[w].kind \in {"delete_many", "revoke_user"}
               /\ step'[w] # "idle" => Passed(w)'
    <3>1. CASE w = v
      BY <2>1, <2>3, <3>1 DEF StepGoal
    <3>2. CASE w # v
      BY <2>1, <2>2, <3>2 DEF StepGoal, OthersStay, CallInv, TaskInv
    <3>3. QED  BY <3>1, <3>2
  <2>5. QED  BY <2>1, <2>4 DEF StepGoal, CallInv, TaskInv
<1>5. QED  BY <1>3, <1>4 DEF UseNext, uses, vars

\* Before the first call there is nothing to pass.
LEMMA CallInvInit == UseInit => CallInv
BY ConstantAssumption DEF UseInit, CallInv, UseTypeOK, TaskInv, Task, NoTask, Arrival, Row, NoRow, AllUses,
   Deletions

\* Every run keeps what the calls have passed.
LEMMA CallInvHolds == UseSpec => []CallInv
BY TokenInvHolds, CallInvInit, CallInvNext, PTL DEF UseSpec

\* The type invariant: the copies that calls hold are rows, and what a revocation of a user
\* ends are grants.
THEOREM UseTypeCorrect == UseSpec => []UseTypeOK
BY CallInvHolds, PTL DEF CallInv

\* A call is let in only with a token that worked when it arrived, although the token, the
\* client and the user are read in three calls with anything in between
\* (ValidateAccessToken, Introspect) and a revocation may have missed the token.
THEOREM NoStaleTokenHolds == UseSpec => []NoStaleToken
<1>1. CallInv => NoStaleToken
  BY DEF CallInv, NoStaleToken, Passed, LetIn
<1>2. QED  BY <1>1, CallInvHolds, PTL

--------------------------------------------------------------------------------
(***************************************************************************)
(* The deletion of a refresh token by the API: its grant is over, and a    *)
(* rotated grant has no other access token than the one that goes with it. *)
(***************************************************************************)

Found(v) == task[v].kind = "delete_refresh" /\ step[v] \in {"drop_refresh", "drop_access", "ok"}
Dropped(v) == task[v].kind = "delete_refresh" /\ step[v] \in {"drop_access", "ok"}

OfTarget(v) ==
  /\ refresh[task[v].target].st # "none"
  /\ found[v].grant = refresh[task[v].target].grant
  /\ found[v].client = ClientOfGrant(found[v].grant)

DeletedInv ==
  \A v \in Calls :
    /\ Found(v) => OfTarget(v)
    /\ Dropped(v) => RightOf(found[v].grant) = "over"

OnlyOfTarget(v) ==
  \A b \in Requests : Answering(b) /\ access[b].grant = found[v].grant => b = task[v].target

DeletedAccessInv ==
  \A v \in Calls : found[v].client \in OneTime =>
    /\ Found(v) => found[v].access = task[v].target
    /\ Dropped(v) => OnlyOfTarget(v)
    /\ Dropped(v) /\ step[v] = "ok" => access[task[v].target].st # "live"

\* A grant that is over has no refresh token, and no request that will store one.
LEMMA OverCases ==
  ASSUME NEW g
  PROVE  RightOf(g) = "over" => ~HasToken(g) /\ ~HasRequest(g)
BY RightCases

\* Whatever happens, a row stays the token of its grant.
LEMMA TargetStays ==
  ASSUME TokenInv, [UseNext]_<<vars, uses>>, NEW t \in Requests, refresh[t].st # "none",
         NEW g, g = refresh[t].grant
  PROVE  /\ g \in Grants /\ refresh'[t].st # "none" /\ refresh'[t].grant = g
         /\ ClientOfGrant(g)' = ClientOfGrant(g)
<1>1. Started(g) /\ g \in Grants
  BY DEF TokenInv, History, GrantInv, OfWholeGrant, OfItsGrant, Started
<1>2. CASE [Next]_vars
  BY <1>1, <1>2, StoredKeepsGrant, GrantFixed DEF TokenInv
<1>3. CASE Trims
  BY <1>1, <1>3 DEF Trims, OnlyDeletes, SameColumns, ClientOfGrant
<1>4. QED  BY <1>2, <1>3, CallTrims DEF UseNext, TokenInv

\* Once a grant is over, no access token of it is answered any more.
LEMMA NoneAnswers ==
  ASSUME ~Faults, TokenInv, TokenInv', Faultless, Faultless', [UseNext]_<<vars, uses>>,
         NEW g, g \in Grants, RightOf(g) = "over",
         NEW b \in Requests, Answering(b)', access'[b].grant = g
  PROVE  Answering(b) /\ access[b].grant = g
<1>1. /\ Typed /\ RightInv /\ WayInv /\ GrantInv /\ OwnInv /\ OwnInv'
      /\ AliveInv /\ AliveInv' /\ PairInv /\ PairInv' /\ OneAnswering
  BY DEF TokenInv, History, Faultless
<1>2. access'[b].st = "live" /\ access'[b].client \in OneTime /\ Answered(b)'
  BY DEF Answering
<1>3. CASE Trims
  BY <1>2, <1>3 DEF Trims, OnlyDeletes, SameColumns, Answering, Answered
<1>4. CASE [Next]_vars
  <2>1. (Answered(b) /\ access[b].st = "live") \/ AnswersNow(b)
    BY <1>1, <1>2, <1>4, AnswerStep
  <2>2. ~AnswersNow(b)
    <3>1. SUFFICES ASSUME AnswersNow(b)  PROVE FALSE
      OBVIOUS
    <3>2. Pending(b, g)
      BY <1>1, <1>2, <1>4, <3>1, AnsweredNow
    <3>3. QED  BY <3>2, OverCases DEF HasRequest
  <2>3. SameColumns(access'[b], access[b])
    <3>1. CASE OnlyDeletes(access', access)
      BY <3>1 DEF OnlyDeletes
    <3>2. ASSUME NEW x \in Requests, CreateAccess(x)
          PROVE  access'[b] = access[b]
      BY <1>1, <2>1, <2>2, <3>2 DEF CreateAccess, Answered, Responses, Typed, TypeOK
    <3>3. QED  BY <1>1, <1>4, <3>1, <3>2, StepDeletes DEF SameColumns
  <2>4. QED  BY <1>2, <2>1, <2>2, <2>3 DEF SameColumns, Answering
<1>5. QED  BY <1>1, <1>3, <1>4, CallTrims DEF UseNext

\* What a call has deleted stays deleted while the call does nothing more.
LEMMA DeletedStays ==
  ASSUME TokenInv, CallInv, DeletedInv, [UseNext]_<<vars, uses>>, NEW v \in Calls,
         step'[v] = step[v], task'[v] = task[v], found'[v] = found[v]
  PROVE  /\ Found(v)' => OfTarget(v)'
         /\ Dropped(v)' => RightOf(found[v].grant)' = "over"
<1> SUFFICES ASSUME Found(v)
             PROVE  /\ OfTarget(v)'
                    /\ Dropped(v) => RightOf(found[v].grant)' = "over"
  BY DEF Found, Dropped
<1>1. task[v].target \in Requests /\ OfTarget(v)
  BY DEF Found, CallInv, TaskInv, DeletedInv
<1>2. /\ found[v].grant \in Grants /\ refresh'[task[v].target].st # "none"
      /\ refresh'[task[v].target].grant = found[v].grant
      /\ ClientOfGrant(found[v].grant)' = ClientOfGrant(found[v].grant)
  BY <1>1, TargetStays DEF OfTarget
<1>3. OfTarget(v)'
  BY <1>1, <1>2 DEF OfTarget, ClientOfGrant
<1>4. Dropped(v) => RightOf(found[v].grant)' = "over"
  BY <1>2, HandoverUse DEF DeletedInv, Right!Handover
<1>5. QED  BY <1>3, <1>4

\* The delete of its refresh token ends the right of a grant.
LEMMA DropEnds ==
  ASSUME TokenInv, CallInv, DeletedInv, NEW v \in Calls, DropRefreshToken(v),
         step'[v] = "drop_access"
  PROVE  /\ refresh[task[v].target].st = "live"
         /\ RightOf(found[v].grant)' = "over"
<1> DEFINE t == task[v].target
<1>1. /\ t \in Requests /\ Found(v) /\ refresh[t].st = "live" /\ refresh' = Delete(refresh, t)
      /\ Trims /\ found' = found
  BY CallTrims DEF DropRefreshToken, Proceed, CallInv, TaskInv, UseTypeOK, Found, TokenInv, CallSteps
<1>2. found[v].grant = refresh[t].grant /\ found[v].grant \in Grants
  BY <1>1 DEF DeletedInv, OfTarget, TokenInv, RightInv, BegunInv, Begun
<1>3. HasToken(found[v].grant)
  BY <1>1, <1>2 DEF HasToken
<1>4. ~HasToken(found[v].grant)'
  <2>1. SUFFICES ASSUME NEW u \in Requests, refresh'[u].st = "live",
                        refresh'[u].grant = refresh[t].grant
                 PROVE  FALSE
    BY <1>1, <1>2 DEF HasToken
  <2>2. refresh[u].st = "live" /\ refresh[u].grant = refresh[t].grant
    BY <1>1, <2>1 DEF Trims, OnlyDeletes, SameColumns
  <2>3. u = t
    BY <1>1, <2>2 DEF TokenInv, RightInv, OneHolder, OneRefreshToken, Live
  <2>4. refresh'[t].st = "gone"
    BY <1>1 DEF Delete, Purge, TokenInv, Typed, TypeOK, Row
  <2>5. QED  BY <2>1, <2>3, <2>4
<1>5. QED  BY <1>1, <1>2, <1>3, <1>4, HandoverTrims DEF TokenInv

\* A call leaves the others alone.
LEMMA CallKeepsOthers ==
  ASSUME TokenInv, CallInv, NEW w \in Calls, CallArrives(w) \/ CallSteps(w),
         NEW v \in Calls, v # w
  PROVE  step'[v] = step[v] /\ task'[v] = task[v] /\ found'[v] = found[v]
<1>1. step'[v] = step[v] /\ task'[v] = task[v]
  BY ArriveGoal, CheckGoal, DeleteGoal DEF CallSteps, StepGoal, OthersStay
<1>2. found'[v] = found[v]
  <2>1. CASE CallArrives(w)
    BY <2>1, ArriveCall DEF Call
  <2>2. CASE CallSteps(w)
    BY <2>2 DEF CallSteps, GetToken, CheckToken, GetClient, GetOwner, DropAccessToken,
       GetRow, DropRefreshToken, DropMany, RevokeUserFirst, RevokeUserSecond, CallInv, UseTypeOK
  <2>3. QED  BY <2>1, <2>2
<1>3. QED  BY <1>1, <1>2

\* Every step keeps that the grants of deleted tokens are over.
LEMMA DeletedNext ==
  ASSUME TokenInv, CallInv, DeletedInv, [UseNext]_<<vars, uses>>
  PROVE  DeletedInv'
<1> DEFINE Goal(v) == /\ Found(v) => OfTarget(v)
                      /\ Dropped(v) => RightOf(found[v].grant) = "over"
<1>1. ASSUME NEW v \in Calls, step'[v] = step[v], task'[v] = task[v], found'[v] = found[v]
      PROVE  Goal(v)'
  BY <1>1, DeletedStays
<1>2. ASSUME NEW v \in Calls, CallArrives(v)
      PROVE  Goal(v)'
  <2>1. step'[v] = "get_token"
    BY <1>2, ArriveCall DEF Call, Proceed, CallInv, UseTypeOK
  <2>2. QED  BY <2>1 DEF Found, Dropped
<1>3. ASSUME NEW v \in Calls, GetToken(v) \/ CheckToken(v) \/ GetClient(v) \/ GetOwner(v)
      PROVE  Goal(v)'
  <2>1. /\ task' = task
        /\ step'[v] \in {"check_token", "inactive", "get_client", "get_owner", Handler(task[v])}
    BY <1>3 DEF GetToken, CheckToken, GetClient, GetOwner, Proceed, CallInv, UseTypeOK
  <2>2. task[v].kind = "delete_refresh" => Handler(task[v]) = "get_row"
    BY DEF Handler
  <2>3. QED  BY <2>1, <2>2 DEF Found, Dropped
<1>4. ASSUME NEW v \in Calls, GetRow(v)
      PROVE  Goal(v)'
  <2>1. /\ task' = task /\ UNCHANGED vars /\ task[v].target \in Requests
        /\ step'[v] = "not_found" \/ /\ step'[v] = "drop_refresh"
                                     /\ found'[v] = refresh[task[v].target]
                                     /\ refresh[task[v].target].st = "live"
    BY <1>4 DEF GetRow, Proceed, CallInv, TaskInv, UseTypeOK
  <2>2. CASE step'[v] = "not_found"
    BY <2>2 DEF Found, Dropped
  <2>3. CASE step'[v] = "drop_refresh" /\ found'[v] = refresh[task[v].target]
    <3>1. OfWholeGrant(refresh[task[v].target])
      BY <2>1, <2>3 DEF TokenInv, History, GrantInv
    <3>2. OfTarget(v)'
      BY <2>1, <2>3, <3>1 DEF vars, OfTarget, OfWholeGrant, OfItsGrant, ClientOfGrant
    <3>3. QED  BY <2>3, <3>2 DEF Dropped
  <2>4. QED  BY <2>1, <2>2, <2>3
<1>5. ASSUME NEW v \in Calls, DropRefreshToken(v)
      PROVE  Goal(v)'
  <2>1. /\ UNCHANGED <<task, found>> /\ step'[v] \in {"drop_access", "not_found"} /\ Found(v)
        /\ task[v].target \in Requests
    BY <1>5 DEF DropRefreshToken, Proceed, CallInv, TaskInv, UseTypeOK, Found
  <2>2. step'[v] = "drop_access" => RightOf(found[v].grant)' = "over"
    BY <1>5, DropEnds
  <2>3. OfTarget(v)'
    <3>1. OfTarget(v)
      BY <2>1 DEF DeletedInv
    <3>2. QED  BY <2>1, <3>1, TargetStays DEF OfTarget, ClientOfGrant
  <2>4. QED  BY <2>1, <2>2, <2>3 DEF Dropped
<1>6. ASSUME NEW v \in Calls, DropAccessToken(v)
      PROVE  Goal(v)'
  <2>1. /\ UNCHANGED <<task, found>> /\ step[v] = "drop_access" /\ UNCHANGED refresh
        /\ task[v].kind = "delete_refresh" => Dropped(v) /\ Found(v) /\ task[v].target \in Requests
    BY <1>6 DEF DropAccessToken, CallInv, TaskInv, Dropped, Found
  <2>2. Found(v)' => OfTarget(v)'
    <3>1. Found(v)' => OfTarget(v)
      BY <2>1 DEF DeletedInv, Found
    <3>2. QED  BY <2>1, <3>1, TargetStays DEF OfTarget, ClientOfGrant, Found
  <2>3. Dropped(v)' => RightOf(found[v].grant)' = "over"
    <3>1. Dropped(v)' => /\ RightOf(found[v].grant) = "over" /\ OfTarget(v)
                         /\ task[v].target \in Requests
      BY <2>1 DEF DeletedInv, Dropped
    <3>2. OfTarget(v) /\ task[v].target \in Requests => found[v].grant \in Grants
      BY DEF OfTarget, TokenInv, RightInv, BegunInv, Begun
    <3>3. QED  BY <2>1, <3>1, <3>2, HandoverUse DEF Right!Handover
  <2>4. QED  BY <2>2, <2>3
<1>7. ASSUME NEW v \in Calls, DropMany(v) \/ RevokeUserFirst(v) \/ RevokeUserSecond(v)
      PROVE  Goal(v)'
  <2>1. task'[v].kind # "delete_refresh"
    BY <1>7 DEF DropMany, RevokeUserFirst, RevokeUserSecond, CallInv, TaskInv
  <2>2. QED  BY <2>1 DEF Found, Dropped
<1>8. ASSUME NEW v \in Calls, NEW w \in Calls, CallArrives(w) \/ CallSteps(w)
      PROVE  Goal(v)'
  <2>1. CASE v = w
    BY <1>2, <1>3, <1>4, <1>5, <1>6, <1>7, <1>8, <2>1 DEF CallSteps
  <2>2. CASE v # w
    BY <1>1, <1>8, <2>2, CallKeepsOthers
  <2>3. QED  BY <2>1, <2>2
<1>9. CASE UNCHANGED uses
  BY <1>1, <1>9 DEF uses, DeletedInv
<1>10. QED  BY <1>8, <1>9 DEF UseNext, DeletedInv

\* What is deleted with a refresh token stays deleted while the call does nothing more.
LEMMA DeletedAccessStays ==
  ASSUME ~Faults, TokenInv, TokenInv', Faultless, Faultless', CallInv, DeletedInv,
         DeletedAccessInv, [UseNext]_<<vars, uses>>, NEW v \in Calls,
         step'[v] = step[v], task'[v] = task[v], found'[v] = found[v],
         found[v].client \in OneTime
  PROVE  /\ Found(v)' => found'[v].access = task'[v].target
         /\ Dropped(v)' => OnlyOfTarget(v)'
         /\ Dropped(v)' /\ step'[v] = "ok" => access'[task'[v].target].st # "live"
<1>1. Found(v)' => found'[v].access = task'[v].target
  BY DEF DeletedAccessInv, Found
<1>2. ASSUME Dropped(v)
      PROVE  OnlyOfTarget(v)' /\ (step[v] = "ok" => access'[task[v].target].st # "live")
  <2> DEFINE t == task[v].target
             g == found[v].grant
  <2>1. t \in Requests /\ OfTarget(v) /\ RightOf(g) = "over" /\ OnlyOfTarget(v)
    BY <1>2 DEF Dropped, Found, CallInv, TaskInv, DeletedInv, DeletedAccessInv
  <2>2. g \in Grants /\ pc[t] = "ok"
    BY <2>1 DEF OfTarget, TokenInv, RightInv, BegunInv, Begun
  <2>3. ASSUME NEW b \in Requests, Answering(b)', access'[b].grant = g
        PROVE  b = t
    BY <2>1, <2>2, <2>3, NoneAnswers DEF OnlyOfTarget
  <2>4. step[v] = "ok" => access[t].st # "live"
    BY <1>2 DEF DeletedAccessInv
  <2>5. Onward
    BY CallTrims, TrimsOnward, StepOnward DEF UseNext, TokenInv
  <2>6. QED  BY <2>1, <2>2, <2>3, <2>4, <2>5 DEF OnlyOfTarget, Onward
<1>3. QED  BY <1>1, <1>2 DEF Dropped

\* Without faults, every step keeps that a rotated grant whose refresh token was deleted has no
\* access token beside the one that goes with it.
LEMMA DeletedAccessNext ==
  ASSUME ~Faults, TokenInv, TokenInv', Faultless, Faultless', CallInv, DeletedInv,
         DeletedAccessInv, [UseNext]_<<vars, uses>>
  PROVE  DeletedAccessInv'
<1> DEFINE Goal(v) == found[v].client \in OneTime =>
                        /\ Found(v) => found[v].access = task[v].target
                        /\ Dropped(v) => OnlyOfTarget(v)
                        /\ Dropped(v) /\ step[v] = "ok" => access[task[v].target].st # "live"
<1>1. ASSUME NEW v \in Calls, step'[v] = step[v], task'[v] = task[v], found'[v] = found[v]
      PROVE  Goal(v)'
  BY <1>1, DeletedAccessStays
<1>2. ASSUME NEW v \in Calls, CallArrives(v)
      PROVE  Goal(v)'
  <2>1. step'[v] = "get_token"
    BY <1>2, ArriveCall DEF Call, Proceed, CallInv, UseTypeOK
  <2>2. QED  BY <2>1 DEF Found, Dropped
<1>3. ASSUME NEW v \in Calls, GetToken(v) \/ CheckToken(v) \/ GetClient(v) \/ GetOwner(v)
      PROVE  Goal(v)'
  <2>1. /\ task' = task
        /\ step'[v] \in {"check_token", "inactive", "get_client", "get_owner", Handler(task[v])}
    BY <1>3 DEF GetToken, CheckToken, GetClient, GetOwner, Proceed, CallInv, UseTypeOK
  <2>2. task[v].kind = "delete_refresh" => Handler(task[v]) = "get_row"
    BY DEF Handler
  <2>3. QED  BY <2>1, <2>2 DEF Found, Dropped
<1>4. ASSUME NEW v \in Calls, GetRow(v)
      PROVE  Goal(v)'
  <2>1. /\ task' = task /\ task[v].target \in Requests
        /\ step'[v] = "not_found" \/ /\ step'[v] = "drop_refresh"
                                     /\ found'[v] = refresh[task[v].target]
                                     /\ refresh[task[v].target].st = "live"
    BY <1>4 DEF GetRow, Proceed, CallInv, TaskInv, UseTypeOK
  <2>2. QED  BY <2>1 DEF Found, Dropped, Faultless, PairInv
<1>5. ASSUME NEW v \in Calls, DropRefreshToken(v)
      PROVE  Goal(v)'
  <2>1. /\ UNCHANGED <<task, found>> /\ step'[v] \in {"drop_access", "not_found"} /\ Found(v)
        /\ task[v].target \in Requests /\ Trims
    BY <1>5, CallTrims DEF DropRefreshToken, Proceed, CallInv, TaskInv, UseTypeOK, Found, CallSteps,
       TokenInv
  <2>2. ASSUME step'[v] = "drop_access"
        PROVE  OnlyOfTarget(v)'
    <3>1. refresh[task[v].target].st = "live" /\ OfTarget(v)
      BY <1>5, <2>1, <2>2, DropEnds DEF DeletedInv
    <3>2. ASSUME NEW b \in Requests, Answering(b)', access'[b].grant = found[v].grant
          PROVE  Answering(b) /\ access[b].grant = found[v].grant
      BY <2>1, <3>2 DEF Trims, OnlyDeletes, SameColumns, Answering, Answered
    <3>3. \A b \in Requests : Answering(b) /\ access[b].grant = found[v].grant => b = task[v].target
      BY <2>1, <3>1 DEF Faultless, OneAnswering, Live, OfTarget
    <3>4. QED  BY <2>1, <3>2, <3>3 DEF OnlyOfTarget
  <2>3. QED  BY <2>1, <2>2 DEF DeletedAccessInv, Dropped
<1>6. ASSUME NEW v \in Calls, DropAccessToken(v)
      PROVE  Goal(v)'
  <2>1. /\ UNCHANGED <<task, found>> /\ step[v] = "drop_access" /\ Trims
        /\ task[v].kind = "delete_refresh" =>
             /\ Dropped(v) /\ Found(v) /\ task[v].target \in Requests
             /\ access' = Delete(access, found[v].access)
    BY <1>6, CallTrims DEF DropAccessToken, CallInv, TaskInv, Dropped, Found, CallSteps, TokenInv
  <2>2. ASSUME found[v].client \in OneTime, task[v].kind = "delete_refresh"
        PROVE  /\ found[v].access = task[v].target /\ OnlyOfTarget(v)'
               /\ access'[task[v].target].st # "live"
    <3>1. /\ found[v].access = task[v].target /\ OnlyOfTarget(v)
      BY <2>1, <2>2 DEF DeletedAccessInv
    <3>2. access'[task[v].target].st # "live"
      BY <2>1, <2>2, <3>1 DEF Delete, Purge, TokenInv, Typed, TypeOK, Row
    <3>3. ASSUME NEW b \in Requests, Answering(b)', access'[b].grant = found[v].grant
          PROVE  Answering(b) /\ access[b].grant = found[v].grant
      BY <2>1, <3>3 DEF Trims, OnlyDeletes, SameColumns, Answering, Answered
    <3>4. QED  BY <2>1, <3>1, <3>2, <3>3 DEF OnlyOfTarget
  <2>3. QED  BY <2>1, <2>2 DEF Found, Dropped
<1>7. ASSUME NEW v \in Calls, DropMany(v) \/ RevokeUserFirst(v) \/ RevokeUserSecond(v)
      PROVE  Goal(v)'
  <2>1. task'[v].kind # "delete_refresh"
    BY <1>7 DEF DropMany, RevokeUserFirst, RevokeUserSecond, CallInv, TaskInv
  <2>2. QED  BY <2>1 DEF Found, Dropped
<1>8. ASSUME NEW v \in Calls, NEW w \in Calls, CallArrives(w) \/ CallSteps(w)
      PROVE  Goal(v)'
  <2>1. CASE v = w
    BY <1>2, <1>3, <1>4, <1>5, <1>6, <1>7, <1>8, <2>1 DEF CallSteps
  <2>2. CASE v # w
    BY <1>1, <1>8, <2>2, CallKeepsOthers
  <2>3. QED  BY <2>1, <2>2
<1>9. CASE UNCHANGED uses
  BY <1>1, <1>9 DEF uses, DeletedAccessInv
<1>10. QED  BY <1>8, <1>9 DEF UseNext, DeletedAccessInv

\* Before the first call nothing is deleted.
LEMMA DeletedInit == UseInit => DeletedInv /\ DeletedAccessInv
BY DEF UseInit, DeletedInv, DeletedAccessInv, Found, Dropped

\* The API says of the deletion of a refresh token that it is revoked with its access token
\* (HandleDeleteRefreshToken): nothing in flight brings its grant back and, if no store call
\* fails, no access token of a rotated grant is alive once the requests are answered.
THEOREM DeletedGrantEndsHolds == ~Faults => (UseSpec => []DeletedGrantEnds)
<1> SUFFICES ASSUME ~Faults
             PROVE  UseSpec => []DeletedGrantEnds
  OBVIOUS
<1> DEFINE Inv == DeletedInv /\ DeletedAccessInv
           Env == TokenInv /\ Faultless /\ CallInv
<1>1. UseInit => Inv
  BY DeletedInit
<1>2. Env /\ Env' /\ Inv /\ [UseNext]_<<vars, uses>> => Inv'
  BY DeletedNext, DeletedAccessNext
<1>3. Env /\ Inv => DeletedGrantEnds
  <2>1. SUFFICES ASSUME Env, Inv, NEW v \in Calls, step[v] = "ok", task[v].kind = "delete_refresh",
                        NEW g, g = found[v].grant
                 PROVE  /\ \A t \in Live(refresh) : refresh[t].grant # g
                        /\ Quiescent /\ found[v].client \in OneTime =>
                             \A a \in Live(access) : access[a].grant # g
    BY DEF DeletedGrantEnds
  <2>2. /\ RightOf(g) = "over" /\ OfTarget(v)
        /\ found[v].client \in OneTime =>
             OnlyOfTarget(v) /\ access[task[v].target].st # "live"
    BY <2>1 DEF DeletedInv, DeletedAccessInv, Found, Dropped
  <2>3. \A t \in Live(refresh) : refresh[t].grant # g
    BY <2>2, OverCases DEF HasToken, Live
  <2>4. ASSUME Quiescent, found[v].client \in OneTime, NEW a \in Live(access), access[a].grant = g
        PROVE  FALSE
    <3>1. a \in Requests /\ access[a].st = "live"
      BY <2>4 DEF Live
    <3>2. access[a].client \in OneTime
      BY <2>1, <2>2, <2>4, <3>1 DEF OfTarget, TokenInv, History, GrantInv, OfItsGrant
    <3>3. Answered(a)
      BY <2>1, <2>4, <3>1 DEF Quiescent, Answered, TokenInv, History, OwnInv
    <3>4. QED  BY <2>1, <2>2, <2>4, <3>1, <3>2, <3>3 DEF Answering, OnlyOfTarget
  <2>5. QED  BY <2>3, <2>4
<1>4. QED
  BY <1>1, <1>2, <1>3, TokenInvHolds, FaultlessUseHolds, CallInvHolds, PTL DEF UseSpec

--------------------------------------------------------------------------------
(***************************************************************************)
(* The tokens of a grant are all of the user of its code or first request, *)
(* so that the deletes of a user's tokens end whole grants.                *)
(***************************************************************************)

UserOfGrant(g) == IF g \in Codes THEN codes[g].user ELSE job[g].user

Owned(x) == x.user = UserOfGrant(x.grant)

\* An access token without a refresh token is stored by the first request of its grant.
OwnerInv ==
  /\ \A t \in Requests : refresh[t].st # "none" => Owned(refresh[t])
  /\ \A a \in Requests : access[a].st # "none" =>
       Owned(access[a]) /\ (access[a].grant \in Requests => pc[access[a].grant] # "authenticate")
  /\ \A r \in Requests :
       /\ job[r].kind = "refresh_token" /\ pc[r] \in Reading => Owned(row[r])
       /\ job[r].kind = "authorization_code" /\ pc[r] \in CodeSteps => Owned(row[r])

\* A request comes back neither to its beginning nor to the check of a password.
LEMMA NotAgain ==
  ASSUME Typed, [Next]_vars, NEW q \in Requests, pc[q] \notin {"idle", "authenticate"}
  PROVE  pc'[q] \notin {"idle", "authenticate"}
<1>1. ASSUME NEW r \in Requests, Arrive(r)
      PROVE  pc'[q] \notin {"idle", "authenticate"}
  BY <1>1, ArriveStep DEF Arrived
<1>2. ASSUME NEW r \in Requests, Advance(r) \/ Fail(r)
      PROVE  \E l : Goto(r, l) /\ l \notin {"idle", "authenticate"}
  BY <1>2 DEF Advance, GetCode, CheckCode, ConsumeCode, GetUser, Authenticate, CreateAccess,
     CreateRefresh, GetRefresh, CheckRefresh, DeletePrevious, Rotate, Undo, UpdateRefresh,
     GetSubject, Disable, RevokeFirst, RevokeSecond, GetAccess, DropRefresh, DropAccess, Fail,
     ExchangeVerdict, AfterCreateAccess, AfterRotate
<1>3. ASSUME NEW r \in Requests, Advance(r) \/ Fail(r)
      PROVE  pc'[q] \notin {"idle", "authenticate"}
  BY <1>2, <1>3 DEF Goto, Typed, TypeOK
<1>4. QED
  BY <1>1, <1>3 DEF Next, Tick, IssueCode, Sweep, SweepAccess, SweepRefresh, SweepCodes,
     SweepFail, vars

\* The user of a grant never changes.
LEMMA UserFixed ==
  ASSUME Typed, [Next]_vars, NEW g, Started(g)
  PROVE  UserOfGrant(g)' = UserOfGrant(g)
<1>1. CASE g \in Codes
  <2>1. codes[g].st # "none"
    BY <1>1 DEF Started
  <2>2. codes'[g].user = codes[g].user
    BY <1>1, <2>1, UsedStays DEF SameColumns
  <2>3. QED  BY <1>1, <2>2 DEF UserOfGrant
<1>2. CASE g \notin Codes
  <2>1. g \in Requests /\ pc[g] # "idle"
    BY <1>2 DEF Started, Grants
  <2>2. job'[g] = job[g]
    BY <2>1, JobFixed
  <2>3. QED  BY <1>2, <2>2 DEF UserOfGrant
<1>3. QED  BY <1>1, <1>2

\* What a request stores is of the user of its grant.
LEMMA UserOfType ==
  ASSUME Typed, OwnerInv, NEW r \in Requests,
         pc[r] \in {"get_user", "delete_previous", "create_access", "rotate", "create_refresh",
                    "update", "check_refresh"}
  PROVE  UserOf(r) = UserOfGrant(GrantOf(r)) \/ job[r].kind = "authorization_code"
<1>1. CASE job[r].kind = "refresh_token"
  BY <1>1 DEF OwnerInv, Owned, Reading, UserOf, GrantOf
<1>2. CASE job[r].kind \notin {"refresh_token", "authorization_code"}
  BY <1>2, ConstantAssumption DEF UserOf, GrantOf, UserOfGrant
<1>3. QED  BY <1>1, <1>2

\* A request with a code stores for the grant it has read.
LEMMA UserOfCode ==
  ASSUME Typed, GrantInv, OwnerInv, NEW r \in Requests, job[r].kind = "authorization_code",
         pc[r] \in {"get_user", "delete_previous", "create_access", "rotate", "create_refresh",
                    "update", "check_refresh"}
  PROVE  UserOf(r) = UserOfGrant(GrantOf(r)) /\ Started(GrantOf(r))
<1>1. pc[r] \in {"get_user", "create_access", "create_refresh"}
  BY DEF Typed, JobInv, JobAtStep
<1>2. row[r].grant = job[r].target /\ Owned(row[r]) /\ Started(row[r].grant)
  BY <1>1 DEF GrantInv, HoldsCode, OwnerInv, CodeSteps, OfWholeGrant, OfItsGrant
<1>3. QED  BY <1>2 DEF UserOf, GrantOf, Owned

\* Both together.
LEMMA OwnerOfRequest ==
  ASSUME Typed, GrantInv, OwnerInv, NEW r \in Requests,
         pc[r] \in {"get_user", "delete_previous", "create_access", "rotate", "create_refresh",
                    "update", "check_refresh"}
  PROVE  UserOf(r) = UserOfGrant(GrantOf(r))
BY UserOfType, UserOfCode

\* So does the token that a request stores belong to the user of the grant.
LEMMA StoredOwner ==
  ASSUME Typed, RightInv, GrantInv, OwnerInv, [Next]_vars, NEW i \in Requests
  PROVE  /\ refresh'[i].st # "none" => Owned(refresh'[i])
         /\ access'[i].st # "none" => Owned(access'[i])
<1>1. ASSUME OnlyDeletes(refresh', refresh)
      PROVE  refresh'[i].st # "none" => Owned(refresh'[i])
  BY <1>1 DEF OnlyDeletes, SameColumns, OwnerInv, Owned
<1>2. ASSUME OnlyDeletes(access', access)
      PROVE  access'[i].st # "none" => Owned(access'[i])
  BY <1>2 DEF OnlyDeletes, SameColumns, OwnerInv, Owned
<1>3. ASSUME NEW r \in Requests, CreateRefresh(r)
      PROVE  refresh'[i].st # "none" => Owned(refresh'[i])
  <2>1. UserOf(r) = UserOfGrant(GrantOf(r))
    BY <1>3, OwnerOfRequest DEF CreateRefresh
  <2>2. \/ refresh'[i] = refresh[i]
        \/ refresh'[i].user = UserOf(r) /\ refresh'[i].grant = GrantOf(r)
    BY <1>3 DEF CreateRefresh, Typed, TypeOK
  <2>3. QED  BY <2>1, <2>2 DEF OwnerInv, Owned
<1>4. ASSUME NEW r \in Requests, UpdateRefresh(r)
      PROVE  refresh'[i].st # "none" => Owned(refresh'[i])
  <2>1. Owned(row[r]) /\ row[r] \in Row
    BY <1>4 DEF UpdateRefresh, OwnerInv, Reading, Typed, TypeOK, JobInv, JobAtStep
  <2>2. \/ refresh'[i] = refresh[i]
        \/ refresh'[i] = [row[r] EXCEPT !.access = r, !.exp = RotatedExpiry(row[r], at[r])]
    BY <1>4 DEF UpdateRefresh, Typed, TypeOK
  <2>3. \/ refresh'[i] = refresh[i]
        \/ refresh'[i].user = row[r].user /\ refresh'[i].grant = row[r].grant
    BY <2>1, <2>2 DEF Row
  <2>4. QED  BY <2>1, <2>3 DEF OwnerInv, Owned
<1>5. ASSUME NEW r \in Requests, CreateAccess(r)
      PROVE  access'[i].st # "none" => Owned(access'[i])
  <2>1. UserOf(r) = UserOfGrant(GrantOf(r))
    BY <1>5, OwnerOfRequest DEF CreateAccess
  <2>2. \/ access'[i] = access[i]
        \/ access'[i].user = UserOf(r) /\ access'[i].grant = GrantOf(r)
    BY <1>5 DEF CreateAccess, Typed, TypeOK
  <2>3. QED  BY <2>1, <2>2 DEF OwnerInv, Owned
<1>6. QED  BY <1>1, <1>2, <1>3, <1>4, <1>5, StepDeletes

\* The grant of an access token is begun beyond the check of a password.
LEMMA BegunBeyond ==
  ASSUME Typed, RightInv, OwnInv, OwnerInv, GrantInv, [Next]_vars, NEW a \in Requests,
         access'[a].st # "none", NEW g \in Requests, access'[a].grant = g
  PROVE  pc'[g] \notin {"idle", "authenticate"}
<1>1. CASE OnlyDeletes(access', access)
  <2>1. access[a].st # "none" /\ access[a].grant = g
    BY <1>1 DEF OnlyDeletes, SameColumns
  <2>2. pc[g] \notin {"idle", "authenticate"}
    BY <2>1 DEF OwnerInv, GrantInv, OfItsGrant, Started
  <2>3. QED  BY <2>2, NotAgain
<1>2. ASSUME NEW r \in Requests, CreateAccess(r)
      PROVE  pc'[g] \notin {"idle", "authenticate"}
  <2>1. CASE a # r
    <3>1. access'[a] = access[a]
      BY <1>2, <2>1 DEF CreateAccess, Typed, TypeOK
    <3>2. pc[g] \notin {"idle", "authenticate"}
      BY <3>1 DEF OwnerInv, GrantInv, OfItsGrant, Started
    <3>3. QED  BY <3>2, NotAgain
  <2>2. CASE a = r
    <3>1. g = GrantOf(r) /\ pc[r] = "create_access"
      BY <1>2, <2>2 DEF CreateAccess, Typed, TypeOK
    <3>2. CASE job[r].kind = "refresh_token"
      <4>1. pc[g] = "ok"
        BY <3>1, <3>2 DEF GrantOf, RightInv, ReadInv, BegunInv, Begun, Reading, Typed, JobInv, Target
      <4>2. QED  BY <4>1, NotAgain
    <3>3. CASE job[r].kind = "authorization_code"
      BY <3>1, <3>3, ConstantAssumption DEF GrantOf, Typed, JobInv, Target
    <3>4. CASE job[r].kind \notin {"authorization_code", "refresh_token"}
      BY <3>1, <3>4, NotAgain DEF GrantOf
    <3>5. QED  BY <3>2, <3>3, <3>4
  <2>3. QED  BY <2>1, <2>2
<1>3. QED  BY <1>1, <1>2, StepDeletes

\* Every step of TokenGrants keeps the users of the grants.
LEMMA OwnerNext ==
  ASSUME Typed, RightInv, GrantInv, GrantInv', OwnInv, OwnerInv, [Next]_vars,
         WayInv
  PROVE  OwnerInv'
<1>1. ASSUME NEW x, Owned(x), Started(x.grant)
      PROVE  x.user = UserOfGrant(x.grant)'
  BY <1>1, UserFixed DEF Owned
<1>2. ASSUME NEW t \in Requests, refresh'[t].st # "none"
      PROVE  Owned(refresh[t])'
  <2>1. Owned(refresh'[t]) /\ Started(refresh'[t].grant)
    BY <1>2, StoredOwner, RefreshOfGrant
  <2>2. QED  BY <2>1, <1>1 DEF Owned, UserOfGrant
<1>3. ASSUME NEW a \in Requests, access'[a].st # "none"
      PROVE  /\ Owned(access[a])'
             /\ access'[a].grant \in Requests => pc'[access'[a].grant] # "authenticate"
  <2>1. Owned(access'[a]) /\ Started(access'[a].grant)
    BY <1>3, StoredOwner, AccessOfGrant
  <2>2. QED  BY <1>1, <1>3, <2>1, BegunBeyond DEF Owned, UserOfGrant
<1>4. ASSUME NEW r \in Requests, job'[r].kind = "refresh_token", pc'[r] \in Reading
      PROVE  Owned(row[r])'
  <2>1. job'[r] = job[r] /\ (ReadsRefresh(r) \/ (pc[r] \in Reading /\ row'[r] = row[r]))
    BY <1>4, ReadStep
  <2>2. Owned(row'[r]) /\ Started(row'[r].grant)
    BY <1>4, <2>1 DEF OwnerInv, GrantInv, OfWholeGrant, OfItsGrant, ReadsRefresh, Typed, JobInv,
       Target
  <2>3. QED  BY <1>1, <2>2 DEF Owned, UserOfGrant
<1>5. ASSUME NEW r \in Requests, job'[r].kind = "authorization_code", pc'[r] \in CodeSteps
      PROVE  Owned(row[r])'
  <2>1. /\ job'[r] = job[r]
        /\ ReadsCode(r) \/ (pc[r] \in CodeSteps /\ row'[r] = row[r])
    BY <1>5, ReadStep
  <2>2. CASE ReadsCode(r)
    <3> DEFINE c == job[r].target
    <3>1. c \in Codes /\ row'[r] = codes[c] /\ codes[c].st # "none"
      BY <1>5, <2>1, <2>2 DEF ReadsCode, Typed, JobInv, Target
    <3>2. codes[c].grant = c
      BY <3>1 DEF GrantInv
    <3>3. Owned(row'[r]) /\ Started(row'[r].grant)
      BY <3>1, <3>2, ConstantAssumption DEF Owned, UserOfGrant, Started, Grants
    <3>4. QED  BY <1>1, <3>3 DEF Owned, UserOfGrant
  <2>3. CASE pc[r] \in CodeSteps /\ row'[r] = row[r]
    <3>1. Owned(row'[r]) /\ Started(row'[r].grant)
      BY <1>5, <2>1, <2>3 DEF OwnerInv, GrantInv, OfWholeGrant, OfItsGrant, CodeSteps, HoldsCode
    <3>2. QED  BY <1>1, <3>1 DEF Owned, UserOfGrant
  <2>4. QED  BY <2>1, <2>2, <2>3
<1>6. QED  BY <1>2, <1>3, <1>4, <1>5 DEF OwnerInv

\* Calls do not touch them.
LEMMA OwnerTrims == Typed /\ OwnerInv /\ Trims => OwnerInv'
<1> SUFFICES ASSUME Typed, OwnerInv, Trims
             PROVE  OwnerInv'
  OBVIOUS
<1>1. /\ UNCHANGED <<codes, pc, job, row>>
      /\ \A i \in Requests : /\ SameColumns(refresh'[i], refresh[i])
                             /\ refresh'[i].st = "none" <=> refresh[i].st = "none"
      /\ \A i \in Requests : /\ SameColumns(access'[i], access[i])
                             /\ access'[i].st = "none" <=> access[i].st = "none"
  BY DEF Trims, OnlyDeletes
<1>2. QED  BY <1>1 DEF OwnerInv, Owned, UserOfGrant, SameColumns

\* Every run keeps the users of the grants.
LEMMA OwnerHolds == UseSpec => []OwnerInv
<1>1. UseInit => OwnerInv
  BY DEF UseInit, Init, OwnerInv, NoRow, NoJob, Reading, CodeSteps
<1>2. TokenInv /\ TokenInv' /\ OwnerInv /\ [UseNext]_<<vars, uses>> => OwnerInv'
  BY OwnerNext, OwnerTrims, CallTrims DEF UseNext, TokenInv, History
<1>3. QED  BY <1>1, <1>2, TokenInvHolds, PTL DEF UseSpec

--------------------------------------------------------------------------------
(***************************************************************************)
(* revokeUserTokens: two deletes that end every grant of the user, if no   *)
(* request for the user was in flight at the first one.                    *)
(***************************************************************************)

\* A grant that cannot begin any more.
Past(g) ==
  /\ g \in Grants /\ Started(g)
  /\ g \in Codes => codes[g].st \in {"used", "gone"}
  /\ g \in Requests => pc[g] \notin {"idle", "authenticate"}

\* Nobody will store a token of g, and its refresh tokens are deleted.
Stopped(g) ==
  /\ Past(g)
  /\ \A q \in Requests : ~Storing(q, g)
  /\ \A t \in Requests : refresh[t].st = "live" => refresh[t].grant # g

UserRevokedInv ==
  \A v \in Calls : \A g \in revoked[v] :
    /\ step[v] \in {"revoke_rest", "ok"} /\ Stopped(g)
    /\ step[v] = "revoke_rest" => UserOfGrant(g) = task[v].user
    /\ step[v] = "ok" => \A a \in Requests : access[a].st = "live" => access[a].grant # g

\* A row matches a grant by its grant only.
LEMMA MatchesGrant ==
  ASSUME NEW x \in Row, NEW g \in Grants
  PROVE  Matches(x, g) <=> x.grant = g
BY ConstantAssumption DEF Row, Matches

\* What is stopped stays stopped, and nothing of it is stored.
LEMMA StoppedNext ==
  ASSUME TokenInv, TokenInv', [Next]_vars, NEW g, Stopped(g)
  PROVE  /\ Stopped(g)' /\ UserOfGrant(g)' = UserOfGrant(g)
         /\ \A a \in Requests : access'[a].st = "live" /\ access'[a].grant = g =>
              access[a].st = "live" /\ access[a].grant = g
<1>1. /\ Typed /\ Typed' /\ RightInv /\ WayInv /\ Past(g) /\ g \in Grants /\ Started(g)
      /\ g \notin Users \cup Clients
  BY ConstantAssumption DEF TokenInv, History, Stopped, Past
<1>2. Started(g)' /\ UserOfGrant(g)' = UserOfGrant(g)
  BY <1>1, GrantFixed, UserFixed
<1>3. Past(g)'
  BY <1>1, <1>2, UsedStays, NotAgain DEF Past
<1>4. \A i \in Requests : /\ Matches(refresh[i], g) <=> refresh[i].grant = g
                          /\ Matches(refresh'[i], g) <=> refresh'[i].grant = g
                          /\ Matches(access[i], g) <=> access[i].grant = g
                          /\ Matches(access'[i], g) <=> access'[i].grant = g
  BY <1>1, MatchesGrant DEF Typed, TypeOK
<1>5. ASSUME NEW q \in Requests, Storing(q, g)'
      PROVE  FALSE
  <2>1. g \notin enabled
    BY <1>1 DEF Typed, TypeOK
  <2>2. /\ ~Storing(q, g) /\ ~(g \in Codes /\ codes[g].st = "unused")
        /\ ~(g = q /\ pc[q] \in {"idle", "authenticate"})
    BY <1>1 DEF Stopped, Past
  <2>3. ~(/\ job[q].target \in Requests /\ refresh[job[q].target].st = "live"
          /\ Matches(refresh[job[q].target], g))
    BY <1>4 DEF Stopped
  <2>4. QED  BY <1>1, <1>5, <2>1, <2>2, <2>3, StoringStep
<1>6. \A t \in Requests : refresh'[t].st = "live" => refresh'[t].grant # g
  BY <1>1, <1>4, StoredByStoring DEF Stopped
<1>7. \A a \in Requests : access'[a].st = "live" /\ access'[a].grant = g =>
        access[a].st = "live" /\ access[a].grant = g
  BY <1>1, <1>4, StoredByStoring DEF Stopped
<1>8. QED  BY <1>2, <1>3, <1>5, <1>6, <1>7 DEF Stopped

\* Deletions do not start it either.
LEMMA StoppedTrims ==
  ASSUME Trims, NEW g, Stopped(g)
  PROVE  /\ Stopped(g)' /\ UserOfGrant(g)' = UserOfGrant(g)
         /\ \A a \in Requests : access'[a].st = "live" /\ access'[a].grant = g =>
              access[a].st = "live" /\ access[a].grant = g
<1>1. /\ UNCHANGED <<codes, pc, job, row>>
      /\ \A i \in Requests : /\ SameColumns(refresh'[i], refresh[i])
                             /\ refresh'[i].st = "live" => refresh[i].st = "live"
      /\ \A i \in Requests : /\ SameColumns(access'[i], access[i])
                             /\ access'[i].st = "live" => access[i].st = "live"
  BY DEF Trims, OnlyDeletes
<1>2. QED
  BY <1>1 DEF Stopped, Past, Started, Storing, GrantOf, UserOf, UserOfGrant, SameColumns

\* The first delete stops the grants of the user, if nobody is in flight.
LEMMA UserFirstDelete ==
  ASSUME TokenInv, CallInv, OwnerInv, NEW v \in Calls, RevokeUserFirst(v), NEW g \in revoked'[v]
  PROVE  Stopped(g)' /\ UserOfGrant(g)' = task[v].user
<1> DEFINE u == task[v].user
<1>1. /\ \A q \in Requests : ~InFlight(q, u)
      /\ g \in GrantsOf(u) /\ refresh' = Purge(refresh, OfUser(refresh, u))
      /\ UNCHANGED <<codes, pc, job, row, task>>
  BY DEF RevokeUserFirst, PurgeOfUser, UserTables, CallInv, UseTypeOK, request
<1>2. /\ Typed /\ RightInv /\ GrantInv /\ OwnInv
  BY DEF TokenInv, History
<1>3. Past(g) /\ UserOfGrant(g) = u
  <2>1. CASE \E a \in Requests : access[a].st # "none" /\ access[a].user = u /\ access[a].grant = g
    BY <1>2, <2>1 DEF OwnerInv, Owned, OwnInv, GrantInv, OfItsGrant, Started, Past
  <2>2. CASE \E t \in Requests : refresh[t].st # "none" /\ refresh[t].user = u /\ refresh[t].grant = g
    BY <1>2, <2>2 DEF OwnerInv, Owned, RightInv, BegunInv, Begun, GrantInv, OfWholeGrant,
       OfItsGrant, Past
  <2>3. QED  BY <1>1, <2>1, <2>2 DEF GrantsOf, OfUser
<1>4. Past(g)' /\ UserOfGrant(g)' = u
  BY <1>1, <1>3 DEF Past, Started, UserOfGrant
<1>5. ASSUME NEW q \in Requests, Storing(q, g)
      PROVE  FALSE
  <2>1. g # job[q].client
    BY <1>2, <1>3, ConstantAssumption DEF Past, Typed, TypeOK, Job
  <2>2. g # UserOf(q)
    BY <1>2, <1>3, ConstantAssumption DEF Past, Typed, TypeOK, Job, Row, UserOf
  <2>3. GrantOf(q) = g /\ pc[q] \in Issuing
    BY <1>5, <2>1, <2>2 DEF Storing, Issuing
  <2>4. UserOf(q) = u
    BY <1>2, <1>3, <1>5, <2>1, <2>2, <2>3, OwnerOfRequest DEF Storing
  <2>5. QED  BY <1>1, <2>3, <2>4 DEF InFlight
<1>6. \A q \in Requests : ~Storing(q, g)'
  BY <1>1, <1>5 DEF Storing, GrantOf, UserOf
<1>7. ASSUME NEW t \in Requests, refresh'[t].st = "live", refresh'[t].grant = g
      PROVE  FALSE
  <2>1. refresh[t] \in Row
    BY <1>2 DEF Typed, TypeOK
  <2>2. refresh[t].st = "live" /\ refresh[t].grant = g /\ t \notin OfUser(refresh, u)
    BY <1>1, <1>2, <1>7, <2>1 DEF Purge, Typed, TypeOK, Row
  <2>3. refresh[t].user = u
    BY <1>3, <2>2 DEF OwnerInv, Owned
  <2>4. QED  BY <2>2, <2>3 DEF OfUser
<1>8. QED  BY <1>4, <1>6, <1>7 DEF Stopped

\* What a revocation has ended stays ended while its call does nothing more.
LEMMA UserRevokedStays ==
  ASSUME TokenInv, TokenInv', UserRevokedInv, [UseNext]_<<vars, uses>>, NEW v \in Calls,
         step'[v] = step[v], task'[v] = task[v], NEW g \in revoked[v]
  PROVE  /\ step'[v] \in {"revoke_rest", "ok"} /\ Stopped(g)'
         /\ step'[v] = "revoke_rest" => UserOfGrant(g)' = task'[v].user
         /\ step'[v] = "ok" => \A a \in Requests : access'[a].st = "live" => access'[a].grant # g
<1>1. /\ step[v] \in {"revoke_rest", "ok"} /\ Stopped(g)
      /\ step[v] = "revoke_rest" => UserOfGrant(g) = task[v].user
      /\ step[v] = "ok" => \A a \in Requests : access[a].st = "live" => access[a].grant # g
  BY DEF UserRevokedInv
<1>2. /\ Stopped(g)' /\ UserOfGrant(g)' = UserOfGrant(g)
      /\ \A a \in Requests : access'[a].st = "live" /\ access'[a].grant = g =>
           access[a].st = "live" /\ access[a].grant = g
  <2>1. CASE [Next]_vars
    BY <1>1, <2>1, StoppedNext
  <2>2. CASE Trims
    BY <1>1, <2>2, StoppedTrims
  <2>3. QED  BY <2>1, <2>2, CallTrims DEF UseNext, TokenInv
<1>3. QED  BY <1>1, <1>2

\* The second delete leaves no access token of what the first one has stopped.
LEMMA UserSecondDelete ==
  ASSUME TokenInv, CallInv, OwnerInv, UserRevokedInv, NEW v \in Calls, RevokeUserSecond(v),
         NEW g \in revoked[v]
  PROVE  /\ Stopped(g)'
         /\ \A a \in Requests : access'[a].st = "live" => access'[a].grant # g
<1> DEFINE u == task[v].user
<1>1. /\ Stopped(g) /\ UserOfGrant(g) = u /\ access' = Purge(access, OfUser(access, u)) /\ Trims
  BY CallTrims DEF RevokeUserSecond, PurgeOfUser, UserTables, UserRevokedInv, CallSteps, TokenInv
<1>2. Stopped(g)'
  BY <1>1, StoppedTrims
<1>3. ASSUME NEW a \in Requests, access'[a].st = "live", access'[a].grant = g
      PROVE  FALSE
  <2>1. access[a] \in Row
    BY DEF TokenInv, Typed, TypeOK
  <2>2. access[a].st = "live" /\ access[a].grant = g /\ a \notin OfUser(access, u)
    BY <1>1, <1>3, <2>1 DEF Purge, TokenInv, Typed, TypeOK, Row
  <2>3. access[a].user = u
    BY <1>1, <2>2 DEF OwnerInv, Owned
  <2>4. QED  BY <2>2, <2>3 DEF OfUser
<1>4. QED  BY <1>2, <1>3

\* Every step keeps what the revocations of users have ended.
LEMMA UserRevokedNext ==
  ASSUME TokenInv, TokenInv', CallInv, OwnerInv, UserRevokedInv, [UseNext]_<<vars, uses>>
  PROVE  UserRevokedInv'
<1> DEFINE Goal(v) == \A g \in revoked[v] :
      /\ step[v] \in {"revoke_rest", "ok"} /\ Stopped(g)
      /\ step[v] = "revoke_rest" => UserOfGrant(g) = task[v].user
      /\ step[v] = "ok" => \A a \in Requests : access[a].st = "live" => access[a].grant # g
<1>1. ASSUME NEW v \in Calls, step'[v] = step[v], task'[v] = task[v], revoked'[v] = revoked[v]
      PROVE  Goal(v)'
  BY <1>1, UserRevokedStays
<1>2. ASSUME NEW v \in Calls, RevokeUserFirst(v)
      PROVE  Goal(v)'
  <2>1. step'[v] = "revoke_rest" /\ task' = task
    BY <1>2 DEF RevokeUserFirst, Proceed, CallInv, UseTypeOK
  <2>2. QED  BY <1>2, <2>1, UserFirstDelete
<1>3. ASSUME NEW v \in Calls, RevokeUserSecond(v)
      PROVE  Goal(v)'
  <2>1. step'[v] = "ok" /\ revoked' = revoked
    BY <1>3 DEF RevokeUserSecond, Proceed, CallInv, UseTypeOK
  <2>2. QED  BY <1>3, <2>1, UserSecondDelete
<1>4. ASSUME NEW v \in Calls, CallArrives(v) \/ CallSteps(v), ~RevokeUserFirst(v),
             ~RevokeUserSecond(v)
      PROVE  Goal(v)'
  <2>1. step[v] \notin {"revoke_rest", "ok"} /\ revoked' = revoked
    <3>1. CASE CallArrives(v)
      BY <3>1, ArriveCall DEF Call
    <3>2. CASE CallSteps(v)
      BY <1>4, <3>2 DEF CallSteps, GetToken, CheckToken, GetClient, GetOwner, DropAccessToken,
         GetRow, DropRefreshToken, DropMany
    <3>3. QED  BY <1>4, <3>1, <3>2
  <2>2. revoked[v] = {}
    BY <2>1 DEF UserRevokedInv
  <2>3. QED  BY <2>1, <2>2
<1>5. ASSUME NEW v \in Calls, NEW w \in Calls, CallArrives(w) \/ CallSteps(w)
      PROVE  Goal(v)'
  <2>1. CASE v = w
    BY <1>2, <1>3, <1>4, <1>5, <2>1
  <2>2. CASE v # w
    <3>1. step'[v] = step[v] /\ task'[v] = task[v]
      BY <1>5, <2>2, CallKeepsOthers
    <3>2. revoked'[v] = revoked[v]
      <4>1. CASE CallArrives(w)
        BY <4>1, ArriveCall DEF Call
      <4>2. CASE CallSteps(w)
        BY <2>2, <4>2 DEF CallSteps, GetToken, CheckToken, GetClient, GetOwner, DropAccessToken,
           GetRow, DropRefreshToken, DropMany, RevokeUserFirst, RevokeUserSecond, CallInv, UseTypeOK
      <4>3. QED  BY <1>5, <4>1, <4>2
    <3>3. QED  BY <1>1, <3>1, <3>2
  <2>3. QED  BY <2>1, <2>2
<1>6. CASE UNCHANGED uses
  BY <1>1, <1>6 DEF uses, UserRevokedInv
<1>7. QED  BY <1>5, <1>6 DEF UseNext, UserRevokedInv

\* The revocation of the tokens of a user who stays enabled (revokeUserTokens) is two deletes.
\* If no request for the user was in flight at the first one, all grants that had tokens are
\* over, and only grants that begin later have tokens again.
THEOREM RevokedGrantsEndHolds == UseSpec => []RevokedGrantsEnd
<1> DEFINE Env == TokenInv /\ CallInv /\ OwnerInv
<1>1. UseInit => UserRevokedInv
  BY DEF UseInit, UserRevokedInv
<1>2. Env /\ Env' /\ UserRevokedInv /\ [UseNext]_<<vars, uses>> => UserRevokedInv'
  BY UserRevokedNext
<1>3. UserRevokedInv => RevokedGrantsEnd
  BY DEF UserRevokedInv, RevokedGrantsEnd, Stopped, Live
<1>4. QED  BY <1>1, <1>2, <1>3, TokenInvHolds, CallInvHolds, OwnerHolds, PTL DEF UseSpec

================================================================================
