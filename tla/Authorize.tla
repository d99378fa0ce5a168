------------------------------- MODULE Authorize -------------------------------
(***************************************************************************)
(* The authorization code flow (pkg/oauth/authorize.go): the browser of a  *)
(* user asks for a code or a token, the user signs in and approves the     *)
(* request on the consent page, and the client exchanges the code          *)
(* (pkg/oauth/grants.go), while administrators change the client (module   *)
(* Clients) and users sign in and out and change their credentials.        *)
(*                                                                         *)
(* A consent page, a code and a token have the id of the request that they *)
(* answer.  A code challenge is named by its verifier.                     *)
(***************************************************************************)
EXTENDS Clients

CONSTANTS
  Users,
  Verifiers,
  Params,       \* bound: the authorization requests that are made
  Restarts      \* bound: how often the browser is restarted

\* The parameters of an authorization request; an empty scope is an omitted one.
Param ==
  [name : Names, type : {"code", "token"}, uri : Uris \cup {None}, scope : SUBSET Scopes,
   challenge : Verifiers \cup {None}]

ASSUME AuthorizeAssumption ==
  /\ None \notin Users \cup Verifiers
  /\ Params \subseteq Param
  /\ Restarts \in Nat

VARIABLES
  users,     \* table of users: whether one can sign in, and the security stamp
  session,   \* the session cookie of the browser
  csrf,      \* the CSRF cookie of the browser, which a restart loses
  ask,       \* request -> what the browser or the client sent
  pages,     \* request -> the consent page that answers it
  grants,    \* request -> the code or token that answers it
  since      \* history: request -> the rows of its client and its user since it arrived

browserVars == <<users, session, csrf>>
vars == <<clients, pc, job, row, replaced, missed, restored,
          users, session, csrf, ask, pages, grants, since>>

NoParam == [name |-> None, type |-> "code", uri |-> None, scope |-> {}, challenge |-> None]

User == [active : BOOLEAN, stamp : 0..1]

\* The cookie names the user, with the stamp that the user had at the sign-in.
Session == [user : Users \cup {None}, stamp : 0..1]
NoSession == [user |-> None, stamp |-> 0]

\* The request of a browser, which may be the form of a page, or of a client with its code.
Ask ==
  [params : Param \cup {NoParam}, session : Session, csrf : 0..Restarts,
   page : Requests \cup {None}, allow : BOOLEAN,
   code : Requests \cup {None}, uri : Uris \cup {None}, verifier : Verifiers \cup {None}]
NoAsk == [params |-> NoParam, session |-> NoSession, csrf |-> 0, page |-> None, allow |-> FALSE,
          code |-> None, uri |-> None, verifier |-> None]

\* What a page shows, the form in it and the cookie that its token is signed for.
Page == [shown : BOOLEAN, params : Param \cup {NoParam}, scopes : SUBSET Scopes,
         user : Users \cup {None}, csrf : 0..Restarts]
NoPage == [shown |-> FALSE, params |-> NoParam, scopes |-> {}, user |-> None, csrf |-> 0]

Grant == [st : {"none", "code", "consumed", "token"}, client : Ids \cup {None},
          user : Users \cup {None}, scopes : SUBSET Scopes, to : Uris \cup {None},
          by : Requests \cup {None}]
NoGrant == [st |-> "none", client |-> None, user |-> None, scopes |-> {}, to |-> None,
            by |-> None]

AuthorizeCalls == {"find_client", "current_user", "issue", "get_code", "consume"}
Answers == {"page_error", "redirect_error", "login", "consent", "redirected", "refused",
            "exchanged"}
Responses == ClientResponses \cup Answers

TypeOK ==
  /\ ClientsTypeOK
  /\ pc \in [Requests -> {"idle"} \cup ClientCalls \cup AuthorizeCalls \cup Responses]
  /\ users \in [Users -> User] /\ session \in Session /\ csrf \in 0..Restarts
  /\ ask \in [Requests -> Ask]
  /\ pages \in [Requests -> Page]
  /\ grants \in [Requests -> Grant]
  /\ since \in [Requests -> [clients : SUBSET Client, users : SUBSET User]]

Nothing == [clients |-> {}, users |-> {}]

Init ==
  /\ ClientsInit
  /\ users = [u \in Users |-> [active |-> TRUE, stamp |-> 0]]
  /\ session = NoSession
  /\ csrf = 0
  /\ ask = [r \in Requests |-> NoAsk]
  /\ pages = [r \in Requests |-> NoPage]
  /\ grants = [r \in Requests |-> NoGrant]
  /\ since = [r \in Requests |-> Nothing]

--------------------------------------------------------------------------------
(***************************************************************************)
(* The browser and its users                                               *)
(***************************************************************************)

CanSignIn(user) == user.active

SignIn(u) ==
  /\ CanSignIn(users[u])
  /\ session' = [user |-> u, stamp |-> users[u].stamp]
  /\ UNCHANGED <<users, csrf>>

SignOut ==
  /\ session # NoSession
  /\ session' = NoSession
  /\ UNCHANGED <<users, csrf>>

\* The session cookie has a lifetime and survives, the CSRF cookie has none.
Restart ==
  /\ csrf < Restarts
  /\ csrf' = csrf + 1
  /\ UNCHANGED <<users, session>>

\* The user takes a new password or is disabled: both renew the security stamp.
ChangeUser(u, active) ==
  /\ users[u].stamp = 0
  /\ users' = [users EXCEPT ![u] = [active |-> active, stamp |-> 1]]
  /\ UNCHANGED <<session, csrf>>

Browse ==
  /\ SignOut \/ Restart \/ (\E u \in Users, active \in BOOLEAN : SignIn(u) \/ ChangeUser(u, active))
  /\ UNCHANGED <<clients, pc, job, row, replaced, missed, restored, ask, pages, grants>>

--------------------------------------------------------------------------------
(***************************************************************************)
(* HandleAuthorize.  The browser opens the endpoint, or posts the form of  *)
(* a consent page, whose hidden fields are the parameters of the request   *)
(* that the page was an answer to; the post is handled from the start.     *)
(***************************************************************************)

AcceptRequest(r, kind, a, l) ==
  /\ Accept(r, [NoJob EXCEPT !.kind = kind], l)
  /\ ask' = [ask EXCEPT ![r] = [a EXCEPT !.session = session, !.csrf = csrf]]
  /\ UNCHANGED <<row, browserVars, pages, grants>>

AcceptAuthorize(r, p) ==
  AcceptRequest(r, "authorize", [NoAsk EXCEPT !.params = p], "find_client")

AcceptApprove(r, page, allow) ==
  /\ pages[page].shown
  /\ AcceptRequest(r, "approve", [NoAsk EXCEPT !.params = pages[page].params, !.page = page,
                                               !.allow = allow], "find_client")

\* MatchRedirectUri, or the only URI when the parameter is omitted.
RedirectUris(client, p) ==
  IF p.uri # None THEN client.reg.uris \cap {p.uri}
  ELSE IF Cardinality(client.reg.uris) = 1 THEN client.reg.uris ELSE {}

GrantType(p) == IF p.type = "code" THEN "authorization_code" ELSE "implicit"

\* resolveScopes
ResolveScopes(client, p) == IF p.scope = {} THEN client.reg.defaults ELSE p.scope

ValidateScopes(client, p) == p.scope \subseteq client.reg.allowed

\* validateAuthorizeRequest
ValidateRequest(client, a) ==
  /\ GrantType(a.params) \in client.reg.grants
  /\ ValidateScopes(client, a.params)
  /\ a.params.type = "code" /\ a.params.challenge = None
       => ~client.reg.pkce /\ ~IsPublic(client)

\* validateClientAndRedirect and validateAuthorizeRequest, on the client that is read first.
FindClient(r) ==
  LET p == ask[r].params
      found == {i \in ByClientId(p.name) : clients[i].enabled} IN
  /\ pc[r] = "find_client"
  /\ \/ found = {} /\ Goto(r, "page_error") /\ UNCHANGED <<job, row>>
     \/ \E i \in found :
          /\ Read(r, clients[i])
          /\ job' = [job EXCEPT ![r].id = i]
          /\ Goto(r, IF RedirectUris(clients[i], p) = {} THEN "page_error"
                     ELSE IF ~ValidateRequest(clients[i], ask[r]) THEN "redirect_error"
                     ELSE "current_user")
  /\ UNCHANGED <<clients, replaced, missed, restored, browserVars, ask, pages, grants>>

\* Deviation: a session is good for as long as its user exists.
AnyStamp(a) == a.session.user # None

\* CurrentUser of the user interface
SessionValid(a) ==
  LET u == a.session.user IN
  /\ u # None
  /\ users[u].stamp = a.session.stamp
  /\ CanSignIn(users[u])

\* Deviation: any form with a token is taken.
AnyConsent(a) == TRUE

\* VerifyConsent: the token of the form is that of the CSRF cookie.
VerifyConsent(a) == pages[a.page].csrf = a.csrf

\* Who is asked, for what.
ConsentPage(r) ==
  [shown |-> TRUE, params |-> ask[r].params, scopes |-> ResolveScopes(row[r], ask[r].params),
   user |-> ask[r].session.user, csrf |-> csrf]

\* The session is checked when the client has been validated; a cookie that is not valid is
\* removed, also one that the browser has received meanwhile.
CurrentUser(r) ==
  /\ pc[r] = "current_user"
  /\ \/ /\ ~SessionValid(ask[r])
        /\ session' = IF ask[r].session = NoSession THEN session ELSE NoSession
        /\ Goto(r, "login")
        /\ UNCHANGED pages
     \/ /\ SessionValid(ask[r]) /\ row[r].reg.consent /\ ask[r].page = None
        /\ pages' = [pages EXCEPT ![r] = ConsentPage(r)]
        /\ Goto(r, "consent")
        /\ UNCHANGED session
     \/ /\ SessionValid(ask[r]) /\ row[r].reg.consent /\ ask[r].page # None
        /\ Goto(r, IF ~VerifyConsent(ask[r]) THEN "page_error"
                   ELSE IF ask[r].allow THEN "issue" ELSE "redirect_error")
        /\ UNCHANGED <<session, pages>>
     \/ /\ SessionValid(ask[r]) /\ ~row[r].reg.consent
        /\ Goto(r, "issue")
        /\ UNCHANGED <<session, pages>>
  /\ UNCHANGED <<clients, job, row, replaced, missed, restored, users, csrf, ask, grants>>

\* issueCode and issueImplicitToken
Issue(r) ==
  /\ pc[r] = "issue"
  /\ \E uri \in RedirectUris(row[r], ask[r].params) :
       grants' = [grants EXCEPT ![r] =
         [st |-> IF ask[r].params.type = "code" THEN "code" ELSE "token", client |-> job[r].id,
          user |-> ask[r].session.user, scopes |-> ResolveScopes(row[r], ask[r].params),
          to |-> uri, by |-> None]]
  /\ Goto(r, "redirected")
  /\ UNCHANGED <<clients, job, row, replaced, missed, restored, browserVars, ask, pages>>

--------------------------------------------------------------------------------
(***************************************************************************)
(* The token endpoint, from the authentication of the client to the        *)
(* consumption of the code; the module TokenGrants goes on from there.     *)
(***************************************************************************)

AcceptExchange(r, c, name, secret, uri, verifier) ==
  /\ grants[c].st \in {"code", "consumed"}
  /\ Accept(r, [NoJob EXCEPT !.kind = "exchange", !.name = name, !.secret = secret], "authenticate")
  /\ ask' = [ask EXCEPT ![r] = [NoAsk EXCEPT !.code = c, !.uri = uri, !.verifier = verifier]]
  /\ UNCHANGED <<row, browserVars, pages, grants>>

\* Deviation: a verifier is only compared when it is sent.
VerifierIfSent(r, c) == ask[r].verifier \in {None, ask[c].params.challenge}

\* The code challenge of the authorization request, or none in both.
VerifyChallenge(r, c) == ask[r].verifier = ask[c].params.challenge

\* The redirection URI of the authorization request; without one, any that is registered.
SameRedirect(r, c) ==
  IF ask[c].params.uri # None THEN ask[r].uri = ask[c].params.uri
  ELSE ask[r].uri \in row[r].reg.uris \cup {None}

GetCode(r) ==
  LET c == ask[r].code IN
  /\ pc[r] = "get_code"
  /\ Goto(r, IF /\ "authorization_code" \in row[r].reg.grants
                /\ grants[c].client = job[r].id /\ grants[c].st = "code"
                /\ SameRedirect(r, c) /\ VerifyChallenge(r, c)
             THEN "consume" ELSE "refused")
  /\ UNCHANGED <<clients, job, row, replaced, missed, restored, browserVars, ask, pages, grants>>

\* Store.ConsumeAuthorizationCode
Consume(r) ==
  LET c == ask[r].code IN
  /\ pc[r] = "consume"
  /\ \/ /\ grants[c].st = "code"
        /\ grants' = [grants EXCEPT ![c].st = "consumed", ![c].by = r]
        /\ Goto(r, "exchanged")
     \/ grants[c].st # "code" /\ Goto(r, "refused") /\ UNCHANGED grants
  /\ UNCHANGED <<clients, job, row, replaced, missed, restored, browserVars, ask, pages>>

--------------------------------------------------------------------------------
Arrive(r) ==
  \/ ArriveAtClients(r) /\ UNCHANGED <<browserVars, ask, pages, grants>>
  \/ \E p \in Params : AcceptAuthorize(r, p)
  \/ \E page \in Requests, allow \in BOOLEAN : AcceptApprove(r, page, allow)
  \/ \E c \in Requests, name \in Names, uri \in Uris \cup {None},
        verifier \in Verifiers \cup {None} :
       \E secret \in {None} \cup {clients[i].secret : i \in ByClientId(name)} :
         AcceptExchange(r, c, name, secret, uri, verifier)

Advance(r) ==
  \/ AdvanceClients(r) /\ UNCHANGED <<browserVars, ask, pages, grants>>
  \/ FindClient(r) \/ CurrentUser(r) \/ Issue(r) \/ GetCode(r) \/ Consume(r)

Named(table, name) == {x \in {table[i] : i \in Ids} : x.st = "stored" /\ x.name = name}

\* The rows that a request under way has had the chance to read.
Witness ==
  since' = [r \in Requests |->
    IF pc'[r] \in {"find_client", "current_user", "issue"}
    THEN [clients |-> since[r].clients \cup Named(clients', ask'[r].params.name),
          users |-> since[r].users \cup {users'[u] : u \in Users \cap {ask'[r].session.user}}]
    ELSE Nothing]

Next ==
  /\ Browse \/ \E r \in Requests : Arrive(r) \/ Advance(r)
  /\ Witness

Spec == Init /\ [][Next]_vars

--------------------------------------------------------------------------------
(***************************************************************************)
(* Properties                                                              *)
(***************************************************************************)

Granted(c) == grants[c].st # "none"

\* The client may be given this grant.
Permits(client, p, g) ==
  /\ client.enabled
  /\ GrantType(p) \in client.reg.grants
  /\ g.to \in client.reg.uris
  /\ g.scopes \subseteq client.reg.allowed
  /\ p.type = "code" /\ p.challenge = None => ~client.reg.pkce /\ ~IsPublic(client)

\* Nothing is granted on the strength of what is outdated when the request arrives: neither
\* the registration that a consent page was rendered for, nor a session that ended with a
\* change of the password.
NothingOutdated ==
  [][\A c \in Requests : ~Granted(c) /\ Granted(c)' =>
       /\ \E client \in since[c].clients : Permits(client, ask[c].params, grants'[c])
       /\ \E user \in since[c].users : user.active /\ user.stamp = ask[c].session.stamp]_vars

\* A client that requires consent gets a code or a token only for a form of this run of the
\* browser whose page asked for the same request, and for the same scopes unless the client
\* leaves them to its default scopes.
ApprovedRequest ==
  \A c \in Requests : Granted(c) /\ row[c].reg.consent =>
    LET page == pages[ask[c].page] IN
    /\ ask[c].page # None /\ ask[c].allow
    /\ page.shown /\ page.params = ask[c].params /\ page.csrf = ask[c].csrf
    /\ page.scopes = grants[c].scopes \/ ask[c].params.scope = {}

\* What ConsentRequest says of the page: it describes the authorization request that the
\* user approves, with the user and the scopes.
ApprovedAsShown ==
  \A c \in Requests : Granted(c) /\ row[c].reg.consent =>
    /\ pages[ask[c].page].scopes = grants[c].scopes
    /\ pages[ask[c].page].user = grants[c].user

\* Whoever exchanges a code is the client that asked for it, and shows it: with the secret of
\* a confidential client, or the verifier of the challenge, except for a client that became
\* public after the code was issued.
ExchangedByOwner ==
  \A c \in Requests : grants[c].st = "consumed" =>
    LET r == grants[c].by IN
    /\ job[r].id = job[c].id
    /\ ask[c].params.challenge # None => ask[r].verifier = ask[c].params.challenge
    /\ ask[c].params.uri # None => ask[r].uri = grants[c].to
    /\ IsPublic(row[r]) /\ ask[r].verifier = None => ~IsPublic(row[c])

================================================================================
