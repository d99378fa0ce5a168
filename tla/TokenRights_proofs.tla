-------------------------- MODULE TokenRights_proofs --------------------------
(***************************************************************************)
(* Two more theorems about TokenGrants, for every value of its constants:  *)
(* the right to refresh a grant is handed on as RefreshRight says, and a   *)
(* bulk revocation that had nobody in flight at its start is complete.     *)
(***************************************************************************)
EXTENDS TokenHistory_proofs

--------------------------------------------------------------------------------
(***************************************************************************)
(* The refinement of RefreshRight.                                         *)
(***************************************************************************)

HasToken(g) == \E t \in Requests : refresh[t].st = "live" /\ refresh[t].grant = g
HasRequest(g) == \E r \in Requests : Pending(r, g)

\* A token of a grant is stored by the request that held the right.
LEMMA TokenStep ==
  ASSUME Typed, RightInv, [Next]_vars, NEW g, HasToken(g)'
  PROVE  HasToken(g) \/ HasRequest(g)
<1>1. PICK t \in Requests : refresh'[t].st = "live" /\ refresh'[t].grant = g
  BY DEF HasToken
<1>2. CASE refresh[t].st = "live"
  BY <1>1, <1>2, StoredKeepsGrant DEF HasToken
<1>3. CASE refresh[t].st # "live"
  <2>1. CreateRefresh(t)
    <3>1. CASE OnlyDeletes(refresh', refresh)
      BY <1>1, <1>3, <3>1 DEF OnlyDeletes
    <3>2. ASSUME NEW x \in Requests, UpdateRefresh(x)
          PROVE  FALSE
      BY <1>1, <1>3, <3>2 DEF UpdateRefresh, Updatable, Typed, TypeOK
    <3>3. ASSUME NEW x \in Requests, CreateRefresh(x)
          PROVE  x = t
      BY <1>1, <1>3, <3>3, NewToken
    <3>4. QED  BY <3>1, <3>2, <3>3, StepDeletes
  <2>2. pc[t] = "create_refresh" /\ GrantOf(t) = g
    BY <1>1, <2>1, NewToken DEF CreateRefresh
  <2>3. job[t].kind \in {"authorization_code", "password", "refresh_token"}
    BY <2>2 DEF Typed, JobInv, JobAtStep
  <2>4. Pending(t, g)
    BY <2>2, <2>3 DEF Pending, GrantOf
  <2>5. QED  BY <2>4 DEF HasRequest
<1>4. QED  BY <1>2, <1>3

\* The mapped state in terms of the three holders.
LEMMA RightCases ==
  ASSUME NEW g
  PROVE  /\ HasToken(g) => RightOf(g) = "token"
         /\ ~HasToken(g) /\ HasRequest(g) => RightOf(g) = "inflight"
         /\ ~HasToken(g) /\ ~HasRequest(g) /\ g \in Codes /\ codes[g].st = "unused"
              => RightOf(g) = "code"
         /\ ~HasToken(g) /\ ~HasRequest(g) /\ ~(g \in Codes /\ codes[g].st = "unused") /\ Fresh(g)
              => RightOf(g) = "unissued"
         /\ ~HasToken(g) /\ ~HasRequest(g) /\ ~(g \in Codes /\ codes[g].st = "unused") /\ ~Fresh(g)
              => RightOf(g) = "over"
BY DEF HasToken, HasRequest, RightOf, Live

\* Nothing becomes new again, and a code is unconsumed only from its issue on.
LEMMA FreshStep ==
  ASSUME Typed, [Next]_vars, NEW g \in Grants
  PROVE  /\ Fresh(g)' => Fresh(g)
         /\ g \in Codes /\ codes'[g].st = "unused" => codes[g].st \in {"none", "unused"}
<1>1. CASE g \in Codes
  <2>1. codes[g] \in Row
    BY <1>1 DEF Typed, TypeOK
  <2>2. codes[g].st = "live" => codes'[g].st # "unused"
    <3>1. ASSUME NEW r \in Requests, ConsumeCode(r)
          PROVE  codes'[g].st = codes[g].st \/ codes'[g].st = "used"
      BY <1>1, <3>1 DEF ConsumeCode, Typed, TypeOK, Row
    <3>2. CASE SweepCodes
      BY <1>1, <3>2 DEF SweepCodes
    <3>3. ASSUME NEW d \in Codes, NEW k \in Clients, NEW u \in Users, NEW S \in SUBSET Scopes,
                 IssueCode(d, k, u, S), codes[g].st = "live"
          PROVE  codes'[g] = codes[g]
      BY <1>1, <3>3 DEF IssueCode, Typed, TypeOK
    <3>4. QED  BY <3>1, <3>2, <3>3, CodeTable
  <2>3. QED  BY <1>1, <2>1, <2>2, UsedStays DEF Fresh, Row
<1>2. CASE g \notin Codes
  BY <1>2, JobFixed DEF Fresh, Grants
<1>3. QED  BY <1>1, <1>2

\* Every step hands the right of a grant on, or loses it, or leaves it where it is.
LEMMA HandoverStep ==
  ASSUME Typed, RightInv, [Next]_vars, NEW g \in Grants
  PROVE  RightOf(g)' \in Right!Handover(RightOf(g))
<1> DEFINE Unused == g \in Codes /\ codes[g].st = "unused"
<1>1. /\ HasToken(g)' => HasToken(g) \/ HasRequest(g)
      /\ Fresh(g)' => Fresh(g)
      /\ Unused' => g \in Codes /\ codes[g].st \in {"none", "unused"}
  BY TokenStep, FreshStep
<1>2. /\ HasToken(g)' => RightOf(g)' = "token"
      /\ ~HasToken(g)' /\ HasRequest(g)' => RightOf(g)' = "inflight"
      /\ ~HasToken(g)' /\ ~HasRequest(g)' /\ Unused' => RightOf(g)' = "code"
      /\ ~HasToken(g)' /\ ~HasRequest(g)' /\ ~Unused' /\ Fresh(g)' => RightOf(g)' = "unissued"
      /\ ~HasToken(g)' /\ ~HasRequest(g)' /\ ~Unused' /\ ~Fresh(g)' => RightOf(g)' = "over"
  BY DEF HasToken, HasRequest, RightOf, Live
<1>3. CASE HasToken(g)
  <2>1. Begun(g)
    BY <1>3 DEF HasToken, RightInv, BegunInv
  <2>2. ~Unused' /\ ~Fresh(g)
    BY <1>1, <2>1, ConstantAssumption DEF Begun, Fresh, Grants
  <2>3. QED  BY <1>1, <1>2, <1>3, <2>2, RightCases DEF Right!Handover
<1>4. CASE ~HasToken(g) /\ HasRequest(g)
  <2>1. ~(g \in Codes /\ codes[g].st \in {"none", "unused"}) /\ ~(g \in Requests /\ pc[g] = "idle")
    BY <1>4, Unbegun DEF HasRequest
  <2>2. ~Unused' /\ ~Fresh(g)
    BY <1>1, <2>1 DEF Fresh, Grants
  <2>3. QED  BY <1>1, <1>2, <1>4, <2>2, RightCases DEF Right!Handover
<1>5. CASE ~HasToken(g) /\ ~HasRequest(g) /\ Unused
  <2>1. ~Fresh(g)
    BY <1>5 DEF Fresh
  <2>2. QED  BY <1>1, <1>2, <1>5, <2>1, RightCases DEF Right!Handover
<1>6. CASE ~HasToken(g) /\ ~HasRequest(g) /\ ~Unused /\ Fresh(g)
  BY <1>1, <1>2, <1>6, RightCases DEF Right!Handover
<1>7. CASE ~HasToken(g) /\ ~HasRequest(g) /\ ~Unused /\ ~Fresh(g)
  <2>1. ~HasRequest(g)'
    <3>1. SUFFICES ASSUME NEW q \in Requests, Pending(q, g)'
                   PROVE  FALSE
      BY DEF HasRequest
    <3>2. TakesRight(q, g)
      BY <1>7, <3>1, PendingStep DEF HasRequest
    <3>3. CASE pc[q] = "idle" /\ g = q
      BY <1>7, <3>3, ConstantAssumption DEF Fresh
    <3>4. CASE Unused
      BY <1>7, <3>4
    <3>5. CASE /\ pc[q] = "rotate" /\ g = row[q].grant
               /\ job[q].kind = "refresh_token" /\ refresh[job[q].target].st = "live"
      BY <1>7, <3>5 DEF HasToken, RightInv, ReadInv, Reading, Typed, JobInv, Target
    <3>6. QED  BY <3>2, <3>3, <3>4, <3>5 DEF TakesRight
  <2>2. ~(g \in Codes /\ codes[g].st \in {"none", "unused"})
    BY <1>7 DEF Fresh
  <2>3. QED  BY <1>1, <1>2, <1>7, <2>1, <2>2, RightCases DEF Right!Handover
<1>8. QED  BY <1>3, <1>4, <1>5, <1>6, <1>7

\* A grant's right to be refreshed is in one place, is handed on from the code to the
\* request to the token to the next request, and once it is lost the grant is over for good
\* (the token endpoint, revocation and cleanup together).
THEOREM RefreshRightImplemented == Spec => ImplementsRefreshRight
<1> DEFINE right == [g \in Grants |-> RightOf(g)]
<1>1. Init => Right!Init
  <2>1. SUFFICES ASSUME Init, NEW g \in Grants
                 PROVE  RightOf(g) = "unissued"
    BY DEF Right!Init
  <2>2. ~HasToken(g) /\ ~HasRequest(g)
    BY <2>1 DEF Init, HasToken, HasRequest, Pending, NoRow, NoJob
  <2>3. ~(g \in Codes /\ codes[g].st = "unused") /\ Fresh(g)
    BY <2>1 DEF Init, Fresh, NoRow, Grants
  <2>4. QED  BY <2>2, <2>3, RightCases
<1>2. Typed /\ RightInv /\ [Next]_vars => Right!Next
  <2>1. SUFFICES ASSUME Typed, RightInv, [Next]_vars
                 PROVE  Right!Next
    OBVIOUS
  <2>2. \A g \in Grants : RightOf(g)' \in Right!Rights
    BY DEF RightOf, Right!Rights
  <2>3. \A g \in Grants : RightOf(g)' \in Right!Handover(RightOf(g))
    BY <2>1, HandoverStep
  <2>4. QED  BY <2>2, <2>3 DEF Right!Next
<1>3. Spec => [](Typed /\ RightInv)
  BY HistoryHolds, PTL
<1>4. QED  BY <1>1, <1>2, <1>3, PTL DEF Spec, ImplementsRefreshRight, Right!Spec

--------------------------------------------------------------------------------
(***************************************************************************)
(* The bulk revocations.  Once the first delete has run with nobody in     *)
(* flight, no request can store a token of what is revoked (Storing): the  *)
(* user or client is disabled, or the code is consumed, and there is no    *)
(* refresh token left to begin from.                                       *)
(***************************************************************************)

\* A request that will store a token of x, whatever it checks from here on.
Storing(q, x) ==
  \/ /\ pc[q] \in {"delete_previous", "create_access", "rotate", "create_refresh", "update"}
     /\ x \in {GrantOf(q), UserOf(q), job[q].client}
  \/ pc[q] \in {"check_refresh", "get_user"} /\ x \in {GrantOf(q), job[q].client}
  \/ pc[q] \in Entering /\ x = job[q].client

\* What a bulk revocation names cannot begin anew.
Ended(r) ==
  \/ /\ job[r].kind = "disable"
     /\ job[r].target \in (Users \cup Clients) \ enabled
  \/ /\ job[r].kind = "authorization_code" /\ job[r].target \in Codes
     /\ codes[job[r].target].st \in {"used", "gone"}

EndInv ==
  \A r \in Requests :
    /\ pc[r] \in {"get_subject", "disable"} => job[r].kind = "disable"
    /\ job[r].kind = "disable" => job[r].target \in Users \cup Clients
    /\ pc[r] = "check_code" /\ row[r].st = "used" => codes[job[r].target].st \in {"used", "gone"}
    /\ pc[r] \in {"revoke_first", "revoke_second"} => Ended(r)
    /\ quiet[r] => pc[r] \in {"revoke_second"} \cup Responses /\ Ended(r)

Revoked(r) ==
  /\ \A q \in Requests : ~Storing(q, job[r].target)
  /\ \A t \in Live(refresh) : ~Matches(refresh[t], job[r].target)
  /\ pc[r] \in {"ok", "already_used"} => \A a \in Live(access) : ~Matches(access[a], job[r].target)

RevokedInv == \A r \in Requests : quiet[r] => Revoked(r)

\* What has ended stays ended: nothing enables a user or a client again.
LEMMA EndedStays ==
  ASSUME Typed, [Next]_vars, NEW r \in Requests, pc[r] # "idle", Ended(r)
  PROVE  Ended(r)'
<1>1. job'[r] = job[r]
  BY JobFixed
<1>2. enabled' \subseteq enabled
  <2>1. CASE Tick
    BY <2>1 DEF Tick
  <2>2. ASSUME NEW c \in Codes, NEW k \in Clients, NEW u \in Users, NEW S \in SUBSET Scopes,
               IssueCode(c, k, u, S)
        PROVE  enabled' \subseteq enabled
    BY <2>2 DEF IssueCode
  <2>3. ASSUME NEW q \in Requests, Arrive(q)
        PROVE  enabled' \subseteq enabled
    BY <2>3, ArriveStep DEF Arrived
  <2>4. ASSUME NEW q \in Requests, Advance(q)
        PROVE  enabled' \subseteq enabled
    BY <2>4 DEF Advance, GetCode, CheckCode, ConsumeCode, GetUser, Authenticate, CreateAccess,
       CreateRefresh, GetRefresh, CheckRefresh, DeletePrevious, Rotate, Undo, UpdateRefresh,
       GetSubject, Disable, RevokeFirst, RevokeSecond, GetAccess, DropRefresh, DropAccess
  <2>5. ASSUME NEW q \in Requests, Fail(q)
        PROVE  enabled' \subseteq enabled
    BY <2>5 DEF Fail
  <2>6. CASE Sweep
    BY <2>6 DEF Sweep, SweepAccess, SweepRefresh, SweepCodes
  <2>7. CASE SweepFail
    BY <2>7 DEF SweepFail
  <2>8. CASE UNCHANGED vars
    BY <2>8 DEF vars
  <2>9. QED  BY <2>1, <2>2, <2>3, <2>4, <2>5, <2>6, <2>7, <2>8 DEF Next
<1>3. QED  BY <1>1, <1>2, UsedStays DEF Ended

\* A bulk revocation begins with a code that is used, or with what was just disabled.
LEMMA EndStep ==
  ASSUME Typed, EndInv, [Next]_vars, NEW q \in Requests
  PROVE  /\ pc'[q] \in {"get_subject", "disable"} => job'[q].kind = "disable"
         /\ job'[q].kind = "disable" => job'[q].target \in Users \cup Clients
         /\ pc'[q] = "check_code" =>
              /\ job'[q] = job[q] /\ pc[q] # "idle"
              /\ (pc[q] = "check_code" /\ row'[q] = row[q]) \/ row'[q] = codes[job[q].target]
         /\ pc'[q] \in {"revoke_first", "revoke_second"} =>
              /\ pc[q] # "idle"
              /\ Ended(q) \/ Ended(q)'
         /\ quiet'[q] => /\ pc[q] # "idle" /\ pc'[q] \in {"revoke_second"} \cup Responses
                         /\ quiet[q] \/ pc[q] = "revoke_first"
<1> DEFINE Goal ==
         /\ pc'[q] \in {"get_subject", "disable"} => job'[q].kind = "disable"
         /\ job'[q].kind = "disable" => job'[q].target \in Users \cup Clients
         /\ pc'[q] = "check_code" =>
              /\ job'[q] = job[q] /\ pc[q] # "idle"
              /\ (pc[q] = "check_code" /\ row'[q] = row[q]) \/ row'[q] = codes[job[q].target]
         /\ pc'[q] \in {"revoke_first", "revoke_second"} =>
              /\ pc[q] # "idle"
              /\ Ended(q) \/ Ended(q)'
         /\ quiet'[q] => /\ pc[q] # "idle" /\ pc'[q] \in {"revoke_second"} \cup Responses
                         /\ quiet[q] \/ pc[q] = "revoke_first"
<1> USE DEF Typed, TypeOK, JobInv, JobAtStep, Target, Goto, EndInv, Responses, AdminKinds, GrantKinds
<1>1. CASE Tick
  BY <1>1 DEF Tick
<1>2. ASSUME NEW c \in Codes, NEW k \in Clients, NEW u \in Users, NEW S \in SUBSET Scopes,
             IssueCode(c, k, u, S)
      PROVE  Goal
  BY <1>2 DEF IssueCode
<1>3. ASSUME NEW r \in Requests, Arrive(r)
      PROVE  Goal
  BY <1>3, ArriveStep DEF Arrived
<1>4. ASSUME NEW r \in Requests, GetCode(r)
      PROVE  Goal
  BY <1>4 DEF GetCode
<1>5. ASSUME NEW r \in Requests, CheckCode(r)
      PROVE  Goal
  BY <1>5 DEF CheckCode, ExchangeVerdict, Ended
<1>6. ASSUME NEW r \in Requests, ConsumeCode(r)
      PROVE  Goal
  <2>1. CASE q = r
    BY <1>6, <2>1 DEF ConsumeCode, Consumable, Ended, Row
  <2>2. CASE q # r
    BY <1>6, <2>2 DEF ConsumeCode
  <2>3. QED  BY <2>1, <2>2
<1>7. ASSUME NEW r \in Requests, GetUser(r)
      PROVE  Goal
  BY <1>7 DEF GetUser
<1>8. ASSUME NEW r \in Requests, Authenticate(r)
      PROVE  Goal
  BY <1>8 DEF Authenticate
<1>9. ASSUME NEW r \in Requests, CreateAccess(r)
      PROVE  Goal
  BY <1>9 DEF CreateAccess, AfterCreateAccess
<1>10. ASSUME NEW r \in Requests, CreateRefresh(r)
      PROVE  Goal
  BY <1>10 DEF CreateRefresh
<1>11. ASSUME NEW r \in Requests, GetRefresh(r)
      PROVE  Goal
  BY <1>11 DEF GetRefresh
<1>12. ASSUME NEW r \in Requests, CheckRefresh(r)
      PROVE  Goal
  BY <1>12 DEF CheckRefresh
<1>13. ASSUME NEW r \in Requests, DeletePrevious(r)
      PROVE  Goal
  BY <1>13 DEF DeletePrevious
<1>14. ASSUME NEW r \in Requests, Rotate(r)
      PROVE  Goal
  BY <1>14 DEF Rotate, AfterRotate
<1>15. ASSUME NEW r \in Requests, Undo(r)
      PROVE  Goal
  BY <1>15 DEF Undo
<1>16. ASSUME NEW r \in Requests, UpdateRefresh(r)
      PROVE  Goal
  BY <1>16 DEF UpdateRefresh
<1>17. ASSUME NEW r \in Requests, GetSubject(r)
      PROVE  Goal
  BY <1>17 DEF GetSubject
<1>18. ASSUME NEW r \in Requests, Disable(r)
      PROVE  Goal
  BY <1>18 DEF Disable, Ended
<1>19. ASSUME NEW r \in Requests, RevokeFirst(r)
      PROVE  Goal
  BY <1>19 DEF RevokeFirst
<1>20. ASSUME NEW r \in Requests, RevokeSecond(r)
      PROVE  Goal
  BY <1>20 DEF RevokeSecond
<1>21. ASSUME NEW r \in Requests, GetAccess(r)
      PROVE  Goal
  BY <1>21 DEF GetAccess
<1>22. ASSUME NEW r \in Requests, DropRefresh(r)
      PROVE  Goal
  BY <1>22 DEF DropRefresh
<1>23. ASSUME NEW r \in Requests, DropAccess(r)
      PROVE  Goal
  BY <1>23 DEF DropAccess
<1>24. ASSUME NEW r \in Requests, Fail(r)
      PROVE  Goal
  BY <1>24 DEF Fail
<1>25. CASE SweepAccess
  BY <1>25 DEF SweepAccess
<1>26. CASE SweepRefresh
  BY <1>26 DEF SweepRefresh
<1>27. CASE SweepCodes
  BY <1>27 DEF SweepCodes
<1>28. CASE SweepFail
  BY <1>28 DEF SweepFail
<1>29. CASE UNCHANGED vars
  BY <1>29 DEF vars
<1>30. QED
  BY <1>1, <1>2, <1>3, <1>4, <1>5, <1>6, <1>7, <1>8, <1>9, <1>10, <1>11, <1>12, <1>13,
     <1>14, <1>15, <1>16, <1>17, <1>18, <1>19, <1>20, <1>21, <1>22, <1>23, <1>24, <1>25,
     <1>26, <1>27, <1>28, <1>29
     DEF Next, Advance, Sweep

\* Every step keeps it.
LEMMA EndNext ==
  ASSUME Typed, EndInv, [Next]_vars
  PROVE  EndInv'
<1> SUFFICES ASSUME NEW q \in Requests
             PROVE  /\ pc'[q] \in {"get_subject", "disable"} => job'[q].kind = "disable"
                    /\ job'[q].kind = "disable" => job'[q].target \in Users \cup Clients
                    /\ pc'[q] = "check_code" /\ row'[q].st = "used" =>
                         codes'[job'[q].target].st \in {"used", "gone"}
                    /\ pc'[q] \in {"revoke_first", "revoke_second"} => Ended(q)'
                    /\ quiet'[q] => pc'[q] \in {"revoke_second"} \cup Responses /\ Ended(q)'
  BY DEF EndInv
<1>1. pc[q] # "idle" /\ Ended(q) => Ended(q)'
  BY EndedStays
<1>2. ASSUME pc'[q] = "check_code", row'[q].st = "used"
      PROVE  codes'[job'[q].target].st \in {"used", "gone"}
  <2>1. /\ job'[q] = job[q] /\ pc[q] # "idle"
        /\ (pc[q] = "check_code" /\ row'[q] = row[q]) \/ row'[q] = codes[job[q].target]
    BY <1>2, EndStep
  <2>2. job[q].target \in Codes
    <3>1. job'[q].kind = "authorization_code" /\ job'[q].target \in Codes
      BY <1>2, TypingNext DEF Typed, JobInv, JobAtStep, Target
    <3>2. QED  BY <2>1, <3>1
  <2>3. codes[job[q].target].st \in {"used", "gone"}
    BY <1>2, <2>1 DEF EndInv
  <2>4. QED  BY <2>1, <2>2, <2>3, UsedStays
<1>3. pc'[q] \in {"revoke_first", "revoke_second"} => Ended(q)'
  BY <1>1, EndStep
<1>4. ASSUME quiet'[q]
      PROVE  pc'[q] \in {"revoke_second"} \cup Responses /\ Ended(q)'
  <2>1. /\ pc[q] # "idle" /\ pc'[q] \in {"revoke_second"} \cup Responses
        /\ quiet[q] \/ pc[q] = "revoke_first"
    BY <1>4, EndStep
  <2>2. Ended(q)
    BY <2>1 DEF EndInv
  <2>3. QED  BY <1>1, <2>1, <2>2
<1>5. QED  BY <1>2, <1>3, <1>4, EndStep

\* Whoever comes to store a token of x has read a token of x, consumed the code x, found x
\* enabled, or begins the grant x.
LEMMA StoringStep ==
  ASSUME Typed, WayInv, [Next]_vars, NEW q \in Requests, NEW x \in Users \cup Clients \cup Grants,
         Storing(q, x)'
  PROVE  \/ Storing(q, x)
         \/ x \in enabled
         \/ /\ job[q].target \in Requests /\ refresh[job[q].target].st = "live"
            /\ Matches(refresh[job[q].target], x)
         \/ x \in Codes /\ codes[x].st = "unused"
         \/ x = q /\ pc[q] \in {"idle", "authenticate"}
<1> DEFINE Goal ==
         \/ Storing(q, x)
         \/ x \in enabled
         \/ /\ job[q].target \in Requests /\ refresh[job[q].target].st = "live"
            /\ Matches(refresh[job[q].target], x)
         \/ x \in Codes /\ codes[x].st = "unused"
         \/ x = q /\ pc[q] \in {"idle", "authenticate"}
<1>0. x # None /\ (x \in Grants => x \notin Clients \cup Users) /\ (x \in Codes => x \notin Requests)
  BY ConstantAssumption DEF Grants
<1> USE <1>0 DEF Typed, TypeOK, JobInv, JobAtStep, Target, Goto, Storing, Entering, GrantOf, UserOf
<1>1. CASE Tick
  BY <1>1 DEF Tick
<1>2. ASSUME NEW c \in Codes, NEW k \in Clients, NEW u \in Users, NEW S \in SUBSET Scopes,
             IssueCode(c, k, u, S)
      PROVE  Goal
  BY <1>2 DEF IssueCode
<1>3. ASSUME NEW r \in Requests, Arrive(r)
      PROVE  Goal
  BY <1>3, ArriveStep DEF Arrived
<1>4. ASSUME NEW r \in Requests, GetCode(r)
      PROVE  Goal
  BY <1>4 DEF GetCode
<1>5. ASSUME NEW r \in Requests, CheckCode(r)
      PROVE  Goal
  BY <1>5 DEF CheckCode, ExchangeVerdict
<1>6. ASSUME NEW r \in Requests, ConsumeCode(r)
      PROVE  Goal
  BY <1>6 DEF ConsumeCode, Consumable
<1>7. ASSUME NEW r \in Requests, GetUser(r)
      PROVE  Goal
  BY <1>7 DEF GetUser, CanSignIn
<1>8. ASSUME NEW r \in Requests, Authenticate(r)
      PROVE  Goal
  BY <1>8 DEF Authenticate, CanSignIn
<1>9. ASSUME NEW r \in Requests, CreateAccess(r)
      PROVE  Goal
  BY <1>9 DEF CreateAccess, AfterCreateAccess, UserOf, GrantOf
<1>10. ASSUME NEW r \in Requests, CreateRefresh(r)
      PROVE  Goal
  BY <1>10 DEF CreateRefresh
<1>11. ASSUME NEW r \in Requests, GetRefresh(r)
      PROVE  Goal
  BY <1>11 DEF GetRefresh, Matches
<1>12. ASSUME NEW r \in Requests, CheckRefresh(r)
      PROVE  Goal
  BY <1>12 DEF CheckRefresh
<1>13. ASSUME NEW r \in Requests, DeletePrevious(r)
      PROVE  Goal
  BY <1>13 DEF DeletePrevious
<1>14. ASSUME NEW r \in Requests, Rotate(r)
      PROVE  Goal
  BY <1>14 DEF Rotate, AfterRotate
<1>15. ASSUME NEW r \in Requests, Undo(r)
      PROVE  Goal
  BY <1>15 DEF Undo
<1>16. ASSUME NEW r \in Requests, UpdateRefresh(r)
      PROVE  Goal
  BY <1>16 DEF UpdateRefresh
<1>17. ASSUME NEW r \in Requests, GetSubject(r)
      PROVE  Goal
  BY <1>17 DEF GetSubject
<1>18. ASSUME NEW r \in Requests, Disable(r)
      PROVE  Goal
  BY <1>18 DEF Disable
<1>19. ASSUME NEW r \in Requests, RevokeFirst(r)
      PROVE  Goal
  BY <1>19 DEF RevokeFirst
<1>20. ASSUME NEW r \in Requests, RevokeSecond(r)
      PROVE  Goal
  BY <1>20 DEF RevokeSecond
<1>21. ASSUME NEW r \in Requests, GetAccess(r)
      PROVE  Goal
  BY <1>21 DEF GetAccess
<1>22. ASSUME NEW r \in Requests, DropRefresh(r)
      PROVE  Goal
  BY <1>22 DEF DropRefresh
<1>23. ASSUME NEW r \in Requests, DropAccess(r)
      PROVE  Goal
  BY <1>23 DEF DropAccess
<1>24. ASSUME NEW r \in Requests, Fail(r)
      PROVE  Goal
  BY <1>24 DEF Fail
<1>25. CASE SweepAccess
  BY <1>25 DEF SweepAccess
<1>26. CASE SweepRefresh
  BY <1>26 DEF SweepRefresh
<1>27. CASE SweepCodes
  BY <1>27 DEF SweepCodes
<1>28. CASE SweepFail
  BY <1>28 DEF SweepFail
<1>29. CASE UNCHANGED vars
  BY <1>29 DEF vars
<1>30. QED
  BY <1>1, <1>2, <1>3, <1>4, <1>5, <1>6, <1>7, <1>8, <1>9, <1>10, <1>11, <1>12, <1>13,
     <1>14, <1>15, <1>16, <1>17, <1>18, <1>19, <1>20, <1>21, <1>22, <1>23, <1>24, <1>25,
     <1>26, <1>27, <1>28, <1>29
     DEF Next, Advance, Sweep

\* A bulk revocation is quiet from its first delete on, and answered by its second.
LEMMA RevokeStep ==
  ASSUME Typed, EndInv, [Next]_vars, NEW q \in Requests, quiet'[q]
  PROVE  \/ quiet[q] /\ pc'[q] = pc[q]
         \/ quiet[q] /\ pc'[q] \notin {"ok", "already_used"}
         \/ RevokeFirst(q)
         \/ quiet[q] /\ RevokeSecond(q)
<1> DEFINE Goal == \/ quiet[q] /\ pc'[q] = pc[q]
                   \/ quiet[q] /\ pc'[q] \notin {"ok", "already_used"}
                   \/ RevokeFirst(q)
                   \/ quiet[q] /\ RevokeSecond(q)
<1> USE DEF Typed, TypeOK, Goto, EndInv, Responses
<1>1. CASE Tick
  BY <1>1 DEF Tick
<1>2. ASSUME NEW c \in Codes, NEW k \in Clients, NEW u \in Users, NEW S \in SUBSET Scopes,
             IssueCode(c, k, u, S)
      PROVE  Goal
  BY <1>2 DEF IssueCode
<1>3. ASSUME NEW r \in Requests, Arrive(r)
      PROVE  Goal
  BY <1>3, ArriveStep DEF Arrived
<1>4. ASSUME NEW r \in Requests, GetCode(r)
      PROVE  Goal
  BY <1>4 DEF GetCode
<1>5. ASSUME NEW r \in Requests, CheckCode(r)
      PROVE  Goal
  BY <1>5 DEF CheckCode, ExchangeVerdict
<1>6. ASSUME NEW r \in Requests, ConsumeCode(r)
      PROVE  Goal
  BY <1>6 DEF ConsumeCode
<1>7. ASSUME NEW r \in Requests, GetUser(r)
      PROVE  Goal
  BY <1>7 DEF GetUser
<1>8. ASSUME NEW r \in Requests, Authenticate(r)
      PROVE  Goal
  BY <1>8 DEF Authenticate
<1>9. ASSUME NEW r \in Requests, CreateAccess(r)
      PROVE  Goal
  BY <1>9 DEF CreateAccess, AfterCreateAccess, UserOf, GrantOf
<1>10. ASSUME NEW r \in Requests, CreateRefresh(r)
      PROVE  Goal
  BY <1>10 DEF CreateRefresh
<1>11. ASSUME NEW r \in Requests, GetRefresh(r)
      PROVE  Goal
  BY <1>11 DEF GetRefresh
<1>12. ASSUME NEW r \in Requests, CheckRefresh(r)
      PROVE  Goal
  BY <1>12 DEF CheckRefresh
<1>13. ASSUME NEW r \in Requests, DeletePrevious(r)
      PROVE  Goal
  BY <1>13 DEF DeletePrevious
<1>14. ASSUME NEW r \in Requests, Rotate(r)
      PROVE  Goal
  BY <1>14 DEF Rotate, AfterRotate
<1>15. ASSUME NEW r \in Requests, Undo(r)
      PROVE  Goal
  BY <1>15 DEF Undo
<1>16. ASSUME NEW r \in Requests, UpdateRefresh(r)
      PROVE  Goal
  BY <1>16 DEF UpdateRefresh
<1>17. ASSUME NEW r \in Requests, GetSubject(r)
      PROVE  Goal
  BY <1>17 DEF GetSubject
<1>18. ASSUME NEW r \in Requests, Disable(r)
      PROVE  Goal
  BY <1>18 DEF Disable
<1>19. ASSUME NEW r \in Requests, RevokeFirst(r)
      PROVE  Goal
  <2>1. CASE q = r
    BY <1>19, <2>1
  <2>2. CASE q # r
    BY <1>19, <2>2 DEF RevokeFirst
  <2>3. QED  BY <2>1, <2>2
<1>20. ASSUME NEW r \in Requests, RevokeSecond(r)
      PROVE  Goal
  <2>1. CASE q = r
    BY <1>20, <2>1 DEF RevokeSecond
  <2>2. CASE q # r
    BY <1>20, <2>2 DEF RevokeSecond
  <2>3. QED  BY <2>1, <2>2
<1>21. ASSUME NEW r \in Requests, GetAccess(r)
      PROVE  Goal
  BY <1>21 DEF GetAccess
<1>22. ASSUME NEW r \in Requests, DropRefresh(r)
      PROVE  Goal
  BY <1>22 DEF DropRefresh
<1>23. ASSUME NEW r \in Requests, DropAccess(r)
      PROVE  Goal
  BY <1>23 DEF DropAccess
<1>24. ASSUME NEW r \in Requests, Fail(r)
      PROVE  Goal
  BY <1>24 DEF Fail
<1>25. CASE SweepAccess
  BY <1>25 DEF SweepAccess
<1>26. CASE SweepRefresh
  BY <1>26 DEF SweepRefresh
<1>27. CASE SweepCodes
  BY <1>27 DEF SweepCodes
<1>28. CASE SweepFail
  BY <1>28 DEF SweepFail
<1>29. CASE UNCHANGED vars
  BY <1>29 DEF vars
<1>30. QED
  BY <1>1, <1>2, <1>3, <1>4, <1>5, <1>6, <1>7, <1>8, <1>9, <1>10, <1>11, <1>12, <1>13,
     <1>14, <1>15, <1>16, <1>17, <1>18, <1>19, <1>20, <1>21, <1>22, <1>23, <1>24, <1>25,
     <1>26, <1>27, <1>28, <1>29
     DEF Next, Advance, Sweep

\* A token is stored only by a request that was about to.
LEMMA StoredByStoring ==
  ASSUME Typed, WayInv, [Next]_vars, NEW x, NEW i \in Requests
  PROVE  /\ refresh'[i].st = "live" /\ Matches(refresh'[i], x) =>
              \/ refresh[i].st = "live" /\ Matches(refresh[i], x)
              \/ \E q \in Requests : Storing(q, x)
         /\ access'[i].st = "live" /\ Matches(access'[i], x) =>
              \/ access[i].st = "live" /\ Matches(access[i], x)
              \/ \E q \in Requests : Storing(q, x)
<1> DEFINE R == refresh'[i].st = "live" /\ Matches(refresh'[i], x) =>
                  \/ refresh[i].st = "live" /\ Matches(refresh[i], x)
                  \/ \E q \in Requests : Storing(q, x)
           A == access'[i].st = "live" /\ Matches(access'[i], x) =>
                  \/ access[i].st = "live" /\ Matches(access[i], x)
                  \/ \E q \in Requests : Storing(q, x)
<1>1. R
  <2>1. CASE OnlyDeletes(refresh', refresh)
    BY <2>1 DEF OnlyDeletes, SameColumns, Matches
  <2>2. ASSUME NEW q \in Requests, CreateRefresh(q)
        PROVE  R
    <3>1. CASE i = q
      BY <2>2, <3>1 DEF CreateRefresh, Storing, Matches, Typed, TypeOK
    <3>2. CASE i # q
      BY <2>2, <3>2 DEF CreateRefresh, Typed, TypeOK
    <3>3. QED  BY <3>1, <3>2
  <2>3. ASSUME NEW q \in Requests, UpdateRefresh(q)
        PROVE  R
    <3>1. \/ refresh'[i] = refresh[i]
          \/ i = job[q].target
               /\ refresh'[i] = [row[q] EXCEPT !.access = q, !.exp = RotatedExpiry(row[q], at[q])]
      BY <2>3 DEF UpdateRefresh, Typed, TypeOK
    <3>2. pc[q] = "update" /\ job[q].kind = "refresh_token" /\ row[q] \in Row
      BY <2>3 DEF UpdateRefresh, Typed, JobInv, JobAtStep, TypeOK
    <3>3. row[q].client = job[q].client
      BY <3>2 DEF WayInv, Checked
    <3>4. \/ refresh'[i] = refresh[i]
          \/ /\ refresh'[i].grant = GrantOf(q) /\ refresh'[i].client = job[q].client
             /\ refresh'[i].user = UserOf(q)
      BY <3>1, <3>2, <3>3 DEF Row, GrantOf, UserOf
    <3>5. QED  BY <3>2, <3>4 DEF Storing, Matches
  <2>4. QED  BY <2>1, <2>2, <2>3, StepDeletes
<1>2. A
  <2>1. CASE OnlyDeletes(access', access)
    BY <2>1 DEF OnlyDeletes, SameColumns, Matches
  <2>2. ASSUME NEW q \in Requests, CreateAccess(q)
        PROVE  A
    <3>1. CASE i = q
      BY <2>2, <3>1 DEF CreateAccess, Storing, Matches, Typed, TypeOK
    <3>2. CASE i # q
      BY <2>2, <3>2 DEF CreateAccess, Typed, TypeOK
    <3>3. QED  BY <3>1, <3>2
  <2>3. QED  BY <2>1, <2>2, StepDeletes
<1>3. QED  BY <1>1, <1>2

\* A request that could store a token was in flight.
LEMMA StoringInFlight ==
  ASSUME NEW q \in Requests, NEW x, Storing(q, x)
  PROVE  InFlight(q, x)
BY DEF Storing, InFlight, Issuing

\* The first delete leaves no refresh token, and the second no access token.
LEMMA FirstDelete ==
  ASSUME Typed, NEW r \in Requests, RevokeFirst(r), quiet'[r]
  PROVE  /\ \A q \in Requests : ~Storing(q, job[r].target)'
         /\ \A t \in Requests : refresh'[t].st = "live" => ~Matches(refresh'[t], job[r].target)
         /\ pc'[r] = "revoke_second"
<1> DEFINE x == job[r].target
<1>1. /\ \A q \in Requests : ~InFlight(q, x)
      /\ pc' = [pc EXCEPT ![r] = "revoke_second"] /\ UNCHANGED <<job, row>>
      /\ refresh' = Purge(refresh, {i \in Requests : Matches(refresh[i], x)})
  BY DEF RevokeFirst, DeleteMatching, RevocationOrder, Goto, Typed, TypeOK
<1>2. ASSUME NEW q \in Requests, Storing(q, x)'
      PROVE  FALSE
  <2>1. q # r
    BY <1>1, <1>2 DEF Storing, Entering, Typed, TypeOK
  <2>2. pc'[q] = pc[q] /\ job'[q] = job[q] /\ row'[q] = row[q]
    BY <1>1, <2>1 DEF Typed, TypeOK
  <2>3. Storing(q, x)
    BY <1>1, <1>2, <2>2 DEF Storing, GrantOf, UserOf
  <2>4. QED  BY <1>1, <2>3, StoringInFlight
<1>3. ASSUME NEW t \in Requests, refresh'[t].st = "live"
      PROVE  ~Matches(refresh'[t], x)
  <2>1. refresh[t] \in Row
    BY DEF Typed, TypeOK
  <2>2. refresh'[t] = IF Matches(refresh[t], x) /\ refresh[t].st = "live"
                        THEN [refresh[t] EXCEPT !.st = "gone"] ELSE refresh[t]
    BY <1>1 DEF Purge, Typed, TypeOK
  <2>3. QED  BY <1>3, <2>1, <2>2 DEF Row
<1>4. QED  BY <1>1, <1>2, <1>3 DEF Typed, TypeOK

\* After the second delete of a revocation no live access token matches what was revoked.
LEMMA SecondDelete ==
  ASSUME Typed, NEW r \in Requests, RevokeSecond(r)
  PROVE  \A a \in Requests : access'[a].st = "live" => ~Matches(access'[a], job[r].target)
<1> DEFINE x == job[r].target
<1>1. access' = Purge(access, {i \in Requests : Matches(access[i], x)})
  BY DEF RevokeSecond, DeleteMatching, RevocationOrder
<1>2. QED  BY <1>1 DEF Purge, Matches, Typed, TypeOK, Row

\* Every step keeps what is revoked revoked.
LEMMA RevokedNext ==
  ASSUME Typed, WayInv, EndInv, RevokedInv, [Next]_vars
  PROVE  RevokedInv'
<1> SUFFICES ASSUME NEW r \in Requests, quiet'[r], NEW x, x = job[r].target
             PROVE  /\ job'[r] = job[r]
                    /\ \A q \in Requests : ~Storing(q, x)'
                    /\ \A t \in Requests : refresh'[t].st = "live" => ~Matches(refresh'[t], x)
                    /\ pc'[r] \in {"ok", "already_used"} =>
                         \A a \in Requests : access'[a].st = "live" => ~Matches(access'[a], x)
  BY DEF RevokedInv, Revoked, Live
<1>1. job'[r] = job[r] /\ pc[r] # "idle"
  BY EndStep, JobFixed
<1>2. CASE RevokeFirst(r)
  BY <1>1, <1>2, FirstDelete
<1>3. CASE quiet[r]
  <2>1. Revoked(r) /\ Ended(r)
    BY <1>3 DEF RevokedInv, EndInv
  <2>2. /\ x \in Users \cup Clients \cup Codes /\ x \notin enabled /\ x \notin Requests
        /\ x \in Codes => codes[x].st # "unused"
    BY <2>1, ConstantAssumption DEF Ended, Grants, Typed, TypeOK
  <2>3. /\ \A q \in Requests : ~Storing(q, x)
        /\ \A t \in Requests : refresh[t].st = "live" => ~Matches(refresh[t], x)
        /\ pc[r] \in {"ok", "already_used"} =>
             \A a \in Requests : access[a].st = "live" => ~Matches(access[a], x)
    BY <2>1 DEF Revoked, Live
  <2>4. \A q \in Requests : ~Storing(q, x)'
    BY <2>2, <2>3, StoringStep DEF Grants
  <2>5. \A t \in Requests : refresh'[t].st = "live" => ~Matches(refresh'[t], x)
    BY <2>3, StoredByStoring
  <2>6. ASSUME pc'[r] \in {"ok", "already_used"}
        PROVE  \A a \in Requests : access'[a].st = "live" => ~Matches(access'[a], x)
    <3>1. CASE pc'[r] = pc[r]
      BY <2>3, <2>6, <3>1, StoredByStoring
    <3>2. CASE RevokeSecond(r)
      BY <3>2, SecondDelete
    <3>3. CASE RevokeFirst(r)
      BY <2>6, <3>3, FirstDelete
    <3>4. QED  BY <2>6, <3>1, <3>2, <3>3, RevokeStep
  <2>7. QED  BY <1>1, <2>4, <2>5, <2>6
<1>4. QED  BY <1>2, <1>3, RevokeStep

\* Revoking a grant, a user or a client is two deletes without a transaction.  If no request
\* past its checks was in flight when the first one ran, no token of it is alive once the
\* revocation is answered, nor ever after, whoever arrives later and though calls may fail.
THEOREM RevocationCompleteHolds == Spec => []RevocationComplete
<1> DEFINE Inv == Typed /\ RightInv /\ History /\ EndInv /\ RevokedInv
<1>1. Init => EndInv /\ RevokedInv
  BY DEF Init, EndInv, RevokedInv, NoJob
<1>2. Init => Inv
  BY <1>1, TypingInit, RightInit, HistoryInit
<1>3. Inv /\ [Next]_vars => Inv'
  <2>1. Typed /\ RightInv /\ History /\ [Next]_vars => (Typed /\ RightInv /\ History)'
    BY TypingNext, RightNext, HistoryNext
  <2>2. Inv /\ [Next]_vars => (EndInv /\ RevokedInv)'
    BY EndNext, RevokedNext DEF History
  <2>3. QED  BY <2>1, <2>2
<1>4. RevokedInv => RevocationComplete
  BY DEF RevokedInv, Revoked, RevocationComplete
<1>5. QED  BY <1>2, <1>3, <1>4, PTL DEF Spec

================================================================================
