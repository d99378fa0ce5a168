# A verification of go-identity

TLA+ models of the identity server of this repository, the TLC runs that check
them, and TLAPS proofs of the properties that matter most.  Every definition
is translated from the Go source; `PROJECT.json` ("map") names the lines.

## The system

go-identity is an OAuth 2.0 authorization server as a library.  Handlers run
concurrently, one goroutine per request, and keep all state in a store
(`pkg/store`).  A store call is atomic; a handler makes several, and nothing
wraps them in a transaction.  That is where the difficulty lies: between two
calls of a handler any call of any other handler may run, and a handler may
fail between two calls, leaving what it did.  And what a handler takes for one
atomic call is several statements in some of the stores.

| Component | State | Operations | What makes it correct |
| --- | --- | --- | --- |
| Token endpoint (`pkg/oauth/grants.go`, `token.go`) | the tables of codes, access tokens and refresh tokens | the grants `authorization_code`, `password`, `client_credentials`, `refresh_token` | a code or one-time refresh token is answered once; a grant has one refresh token; scope and absolute lifetime of a grant do not grow |
| Authorization endpoint (`authorize.go`) | codes, implicit access tokens | validate, sign in, consent, issue | a code only for a validated redirect URI, an enabled client and a consenting active user |
| Client authentication (`client_auth.go`) | none | authenticate | only the client that asked for a code exchanges it |
| Revocation (`revoke.go`) | the token tables | revoke one token | a refresh token goes with its access token |
| Bearer, introspection, metadata (`bearer.go`, `server.go`) | none | reads | only live, unexpired tokens of users that can sign in are active |
| Store contract (`pkg/store`, `pkg/store/storetest`) | all tables | create, get, update, delete by id or filter, consume, list, DeleteExpired | atomic calls, unique keys, compare-and-set of a code, lists that miss nothing |
| Stores (`pkg/store/memory`, `store/sql`, `store/mongo`) | maps, a database | the statements of each call | each implements the contract |
| Accounts (`pkg/account`) | users, user tokens | create, update, delete, authenticate, lockout, activate, reset the password | a password change ends old credentials, links work once, lockout counts attempts |
| Sessions and UI (`pkg/session`, `pkg/ui`) | signed cookies | create, get, destroy, consent page, CSRF | a session dies with its security stamp; a form is the one of the page |
| Management API (`pkg/api`) | users, clients, tokens | CRUD, secrets, disable, revoke, lists | disabling revokes everything; a new secret replaces the old; what is deleted stays deleted |
| Server (`pkg/server`, `cmd`) | a ticker | RunCleanup, EnsureClient | expired rows are removed; provisioning does not undo administration |
| Entities (`pkg/identity`, `pkg/security`) | none | validation, scopes, expiry, PKCE, hashing | pure functions |
| Routers, mail (`pkg/router`, `router`, `pkg/mail`) | none | adapters, SMTP | I/O |

Components interact by calls (the token endpoint calls `Accounts`, the API and
`Accounts` call the store) and through the shared tables: a revocation
deletes rows that a refresh in flight has read, the cleanup deletes rows that
an exchange is about to consume, an administrator disables a user whose tokens
are being stored, or changes a client whose consent page is open.  Hard
behaviours, each at its line, are the "hazards" of `PROJECT.json`.

## Modules

| Module | What it is |
| --- | --- |
| `TokenGrants` | the token lifecycle: the four tables involved, every built-in grant, the revocation endpoint, bulk revocation, the cleanup, failures |
| `TokenUse` | extends `TokenGrants`: bearer tokens at protected resources, introspection, and the deletion of tokens by the management API |
| `RefreshRight` | the abstract promise about a grant: the right to refresh is one token that is handed on and may be lost for good |
| `Accounts` | users, the links that are mailed to them, and their sessions: registration, sign-in with lockout, activation, password reset, administration |
| `Account` | the abstract promise about a user and its sessions: every operation takes place at once, on the row as it is |
| `Clients` | the registrations of clients: management API, provisioning, client authentication |
| `Authorize` | extends `Clients`: the browser and its sessions, the authorization endpoint, the consent page, and the exchange of a code up to its consumption |
| `StoreContract` | the abstract specification of one table: what a store call promises while others are in flight |
| `StoreCalls` | what the stores have in common |
| `MemoryStore`, `SqlStore`, `MongoStore` | the methods of each store, statement by statement |
| `Stores` | any of the stores, which implements `StoreContract` |
| `Paging` | the lists of the API and of every store, read page after page |
| `MCTokenGrants`, `MCTokenUse`, `MCAccounts`, `MCAuthorize`, `MCStores`, `MCPaging` | the instances TLC checks |
| `TokenGrants_proofs`, `TokenHistory_proofs`, `TokenRights_proofs`, `TokenUse_proofs`, `Accounts_proofs`, `Authorize_proofs`, `Stores_proofs`, `Paging_proofs` | theorems about these modules |

`Accounts` and `TokenGrants` share no state: the account operations that end tokens
(`RevokeTokens`) are the bulk revocation of `TokenGrants`, and of a user the token
endpoint needs only whether it can sign in.  `Authorize` and `TokenGrants` meet at
the code: `Authorize` follows it from the browser to its consumption, with
registrations that change meanwhile; `TokenGrants` takes any code that was issued and
follows its tokens.  `Stores` is the ground under all of them: they take a store
call for one step, which is what `StoreContract` promises of every change of one
row.

### TokenGrants

A request is a process.  `pc[r]` names the store call or check it makes next,
its terminal values are its response; `job[r]` is its input; `row[r]` is the
code or refresh token it has read (the local variable of the handler, which may
be stale by the time it is used); `at[r]` is the clock it read when it checked
the refresh token, which the rotated row reuses.  `codes`, `access` and
`refresh` are the tables.  `now` is the clock, `enabled` the users that can sign
in and the clients that are enabled, `sweep` and `sweepAt` the progress and the
limit of the running `DeleteExpired`.  `quiet` is history for one property.

One action is one store call, or one check that reads the clock:

| Code | Actions, in the order of the calls |
| --- | --- |
| `authorizationCodeGrant` | AcceptExchange, GetCode, CheckCode, ConsumeCode, GetUser, CreateAccess, CreateRefresh |
| its replay branch, `RevokeGrant` | RevokeFirst, RevokeSecond |
| `passwordGrant` | AcceptPassword, Authenticate, CreateAccess, CreateRefresh |
| `issueImplicitToken` | AcceptImplicit, Authenticate, CreateAccess |
| `clientCredentialsGrant` | AcceptClientCredentials, CreateAccess |
| `refreshTokenGrant`, usage onetime | AcceptRefresh, GetRefresh, CheckRefresh, GetUser, DeletePrevious, CreateAccess, Rotate, CreateRefresh, or Undo for the slower of two |
| `refreshTokenGrant`, usage reuse | the same up to CreateAccess, then UpdateRefresh |
| `revoke` | AcceptRevokeAccess, GetAccess, DropAccess; AcceptRevokeRefresh, GetRefresh, DropRefresh, DropAccess |
| `UpdateUser`, `updateClient` that disable | AcceptDisable, GetSubject, Disable, RevokeFirst, RevokeSecond |
| `store.DeleteExpired` in `RunCleanup` | SweepAccess, SweepRefresh, SweepCodes, SweepFail |
| an error of any store call, or a handler that dies | Fail |

Abstractions, each chosen so that no property can tell:

- Token values and hashes are the ids of their rows.  Ids are never repeated
  (`security.NewId`), so a token has the id of the request that created it: every
  request creates at most one of each kind.  A deleted row stays in the model as
  `gone`; the actions never read its columns, except that a value that was handed
  out can still be presented.
- A value is presented after the response that carried it.  A code is presented
  after the row exists, by any client.
- `valid` stands for the checks on the request alone: redirect URI, PKCE, the
  password, and whether the client's registration still allows the scopes of a
  refresh.  Both outcomes are explored.
- Refusals are one response, `invalid_grant`, because all of them leave the
  tables alone; `already_used` is kept apart, it is the answer after a replay.
- The clock that `createAccessToken` and `newRefreshToken` read is the clock at
  the insert that follows.  The clock of a refresh is not: `at[r]` is kept,
  because the code reads it once, three store calls before it is used.
- Usage and expiration of a refresh token are constants of its client; a row of
  the code copies them from the client when the grant begins.
- A disabled user or client is not enabled again, and is not deleted: a deletion
  is the same for this module (the subject is no longer found, and the same two
  deletes follow).
- The lookup of a presented token in the table of the other kind finds nothing
  and is left out, and so is the cleanup of user tokens.

### TokenUse

A call is a process beside the requests of `TokenGrants`.  `step[v]` is its next store call
or its response (`ok` is also the answer `active` of the introspection), `task[v]` its
input, `seen[v]` its copy of the token that was presented, `found[v]` its copy of the
refresh token it deletes.  It reads the tables of `TokenGrants` and deletes from them, and
every action of `TokenGrants` may run between two of its steps.  `arrival[v]` is the state at
its arrival (of which the code keeps the clock), `revoked[v]` the grants its revocation
must end; both are there for the properties.

| Code | Actions, in the order of the calls |
| --- | --- |
| `RequireBearer`, `ValidateAccessToken` | CallResource, or any other call but CallIntrospect; GetToken, CheckToken, GetClient, GetOwner |
| `HandleIntrospect`, `Introspect` | CallIntrospect and the same, with an access or a refresh token |
| `deleteAccessToken` | CallDelete, the validation, DropAccessToken |
| `deleteRefreshToken` | CallDelete, the validation, GetRow, DropRefreshToken, DropAccessToken |
| `deleteAccessTokens`, `deleteRefreshTokens` | CallDeleteMany, the validation, DropMany |
| `revokeUserTokens` | CallRevokeUser, the validation, RevokeUserFirst, RevokeUserSecond |

Abstractions:

- The scopes a resource asks for are compared with those of the copy that has been read,
  which depends on the request alone: a token without them is refused as an unknown one is.
- The client that introspects has authenticated; `Authorize` has the authentication.
  The lookup in the other table finds nothing, as in `TokenGrants`.
- `revokeUserTokens` finds its user: users are not deleted here.
- A store call of the API that fails ends its call, as a call does that takes no further
  step.  Calls of the requests fail where `Faults` says so.

### RefreshRight

`right[g]` of a grant is `unissued`, `code`, `inflight`, `token` or `over`.  The
refinement mapping (`RightOf`) computes it from the tables and from the requests
that will store a refresh token if nothing stops them (`Pending`).  The promise
is that `over` is final: after a revocation, an expiry, a refusal or a failure
no request in flight brings the grant back.

### Accounts

`users` and `links` are the tables of users and user tokens, `sessions` the
cookies that were set.  A request is a process as in `TokenGrants`: `row[r]` is
its copy of the user, `cur[r]` the second row `UpdateUser` compares it with,
`at[r]` the clock `Authenticate` has read.  A write puts the whole copy back, as
the code does, and fails if the row is gone or the email is taken (`Updatable`).
Three variables are history: `lost` are the users of which a stale copy was
written, `ended` the sessions opened before a change that ends sessions, `out[r]`
the links that worked when the request arrived.

| Code | Actions, in the order of the calls |
| --- | --- |
| `Register`, `createUser` of the API, `CreateUser`, `SendActivation` | AcceptRegister or AcceptCreate, CheckEmail, Insert, DropLinks, StoreLink |
| `Authenticate` and the session of `loginSubmit` | AcceptLogin, Find, then CountFailure or RecordLogin |
| `SetPassword` | AcceptSetPassword, GetUser, WritePassword |
| `updateUser`, `unlockUser` of the API, `UpdateUser` | AcceptUpdate or AcceptUnlock, GetUser, GetCurrent, CheckEmail, WriteProfile |
| `DeleteUser` | AcceptDelete, DeleteUser, DropActivation, DropLinks |
| `ResendActivation`, `RequestPasswordReset` | AcceptSend, FindMailbox, DropLinks, StoreLink |
| `sendUserActivation` of the API | AcceptSendById, GetUser, DropLinks, StoreLink |
| `sendUserPasswordReset` of the API | AcceptSendById, GetUser, FindMailbox, DropLinks, StoreLink |
| `Activate` | AcceptActivate, GetLink, GetLinkUser, WriteVerified, DropLink |
| `ResetPassword` | AcceptReset, GetLink, GetLinkUser, WritePassword, DropLinks |
| `DeleteExpiredUserTokens` of the cleanup | SweepLinks |

Abstractions:

- A username is unique and looked up as an email is, so one name stands for both.
- Ids, stamps and link tokens are the ids of the requests that make them, because
  the code draws them at random; a session is named after its sign-in.
- A link is used after it was stored: it is mailed at once, to the address of the
  copy its sender holds.  Every link can be presented by every request.
- `RevokeTokens` touches the token tables only, and is left to `TokenGrants`.
- Store calls do not fail here.  A failure ends the request, as a request that takes
  no further step does; what the write of a copy has done is done.
- `LastLoginAt` and `UpdatedAt` are left out, nothing reads them.  A LockoutEnd
  that is not set is 0, the time before which nobody is locked.
- An administrator creates any of the `NewAccounts` of the instance, each a password or
  none, whether the email is verified and whether the user is enabled.

### Account

`account[u]` is the row of a user (or that it is unregistered, deleted or overwritten), and an
operation is one step on it: a wrong password counts and the last one locks the account, a
sign-in needs the password, the status and the lock of that instant and gives its
session the stamp of the account, a new password, a new address or disabling brings a
fresh stamp, addresses are free when they are taken.  `Accounts` implements it although
each of its operations is several store calls with a copy held between them: the
operation takes place at the write, and what was read for it is still true then.

The code does not keep that promise when the copy is no longer current (`lost`).  The mapping
(`AccountOf`) says `overwritten` from that write on, a state `Account` may reach at any time, and
nothing more is promised about the row or its new sessions except that the user can be
deleted and is never registered again.  The promise is per user: the others keep theirs.

### Clients and Authorize

A request is a process as above: `pc[r]` is its next store call or its response,
`job[r]` its input, `row[r]` its copy of a client.  `clients` is the table.
`Authorize` adds the users (can they sign in, and their security stamp), the two
cookies of one browser (`session`, and `csrf`, which is lost when the browser is
restarted), what a request brought along (`ask[r]`: parameters, cookies, form
fields, code and verifier), the consent page that answered it (`pages[r]`) and the
code or token that answered it (`grants[r]`).

| Code | Actions, in the order of the calls |
| --- | --- |
| `createClient` | AcceptCreate, Insert |
| `updateClient` | AcceptUpdate, GetClient, Update, then RevokeTokens if it disabled the client |
| `regenerateClientSecret` | AcceptRegenerate, GetClient, Update |
| `deleteClient` | AcceptDelete, DeleteClient, RevokeTokens |
| `EnsureClient` | AcceptEnsure, GetByClientId, Insert or Update |
| `HandleAuthorize` for a link, `validateClientAndRedirect`, `validateAuthorizeRequest`, `CurrentUser`, the consent page | AcceptAuthorize, FindClient, CurrentUser, Issue |
| `HandleAuthorize` for the form of a page | AcceptApprove and the same from the start |
| `AuthenticateClient`, `authorizationCodeGrant` up to the consume | AcceptExchange, AuthenticateClient, GetCode, Consume |
| signing in and out, a restart of the browser, a new password or disabling | SignIn, SignOut, Restart, ChangeUser |

Four variables are history: `replaced` are the secrets a write was to replace, `missed`
those that were replaced while a request held an older copy, `restored` those such a
copy brought back, `since[r]` the rows of its client and its user that a request had
the chance to read since it arrived.

Abstractions:

- A new client, a page, a code and a token have the id of the request that makes
  them, and a generated secret is named by the request that hands it out: the code
  draws them at random.  A challenge is named by its verifier, hashing is ideal.
- A registration keeps the fields that handlers decide by.  An empty type stands
  for everything that `EnsureDefaults` fills in.
- A store call that fails ends its request and changes nothing: a request that
  takes no further step.
- The hidden fields of a form are the parameters of the page's request, because the
  page is rendered with them; the browser of the user does not edit them.  A form
  can be posted any number of times, by any later state of the browser.
- A user changes once (`stamp` 0 to 1).  A second change is like the first for
  everyone who holds the old stamp.
- The token endpoint presents to a client any secret that a client has at the time,
  or none: knowledge of secrets is not modelled, possession is.

### StoreContract, the stores, and Stores

`StoreContract` is about one table, since the tables do not refer to each other.
`rows` is the table, `job[c]` the arguments of call `c`, `answer[c]` what it has
returned.  A change of one row takes place at once (`Change`).  An answer without a
change was right at some instant between the call and the answer: `may[c]` collects
these answers.  A bulk deletion deletes in parts (`DeleteSome`); `due[c]` are the
rows that have matched it all the while, which must be gone before it says ok.  Any
call may fail, also after it took place.  `pkg/store/storetest` tests the same
promises call by call.

The stores add `pc`, the next statement of a call, and `scan`, the rows a deletion
has found.

| Code | Actions |
| --- | --- |
| every method of `pkg/store/memory` | one action each: the lock is held from the first line to the last |
| `store/sql`: `getOne`, insert, `execChanged` and `exists`, `ConsumeAuthorizationCode`, `execDelete`, `execCount` | Select; Insert; Update, SelectOne; UpdateUnconsumed, SelectOne; Delete; DeleteWhere, Commit |
| `store/mongo`: `findOne`, `insert`, `replace`, `ConsumeAuthorizationCode`, `deleteById`, `DeleteMany` | FindOne; InsertOne; ReplaceOne; UpdateOne, CountDocuments; DeleteOne; DeleteMany, DeleteNext |
| a statement that is not run, or whose answer is lost | SqlFailure, MongoFailure; Replies, Returns |

MySQL counts the rows an update changes and the others those it finds, which is
why `execChanged` asks again; SQLite goes with PostgreSQL.  A DELETE locks the rows
it finds when it begins, and looks at them again if they changed meanwhile.
MongoDB cuts instants to the millisecond (`toDBTime`): `DBTime` is any monotone
rounding down.  Its bulk deletion goes document by document.  The SQL statements and
the commands of MongoDB themselves are external: their semantics is that of the
databases, as the code relies on it.

### Paging

`rows` has the columns a list sorts and filters by, `opts` and `filter` are the
request for a page, `total` and `items` its answer.  Memory counts and reads under
one lock, SQL (`list`) and MongoDB (`findPage`) by two queries, between which rows
come and go.  An administrator walks: it asks for the next page until a page is not
full.  `began`, `seen` and `left` are history: the rows that matched at first, those on
the pages, and those that were deleted or renamed.  `departures` counts how often that
happened: a user who is renamed, renamed back and renamed again shifts the pages twice.

## What is checked

| Run | Instance | Checks | Shows |
| --- | --- | --- | --- |
| `rotation` | 4 requests of every grant of a browser or a client, refreshes, both revocations, disabling, 1 code, 1 client with one-time tokens, 2 scopes, clock stopped | OneRefreshToken, SingleUse, RefusedLeavesNothing, OneAccessToken, ScopesKept | all races of exchange, refresh and revocation, with refreshes of any subset of the scopes |
| `cleanup` | 2 requests, 2 clients (reuse and sliding, with codes and passwords; onetime and absolute, with codes), failures, clock to 2, fairness | TypeOK, AbsoluteExpiryKept, ExpiredRemoved, Right!Spec (ImplementsRefreshRight) | nothing revives a grant, absolute lifetimes do not move, every expired token goes |
| `use` | 3 requests (exchange, refresh, client credentials, disabling), 1 client with one-time tokens, 1 user, 1 call of any kind, clock to 1 | UseTypeOK, RevocationComplete, NoStaleToken, DeletedGrantEnds, RevokedGrantsEnd | every way to use and to end a token, against requests in flight and each other |
| `replay` | 2 requests | ReplayRevokesEverything, violated | see below |
| `revoke_reuse` | 3 requests | RevokedWithAccessToken, violated | see below |
| `accounts` | 3 requests of every kind, 1 registered user, 2 emails, 2 passwords, 2 kinds of new account, lockout after 2 failures, clock to 1 | TypeOK, UniqueEmails, GoneForGood, LinksDie, EndedStayEnded, Account!Spec (ImplementsAccount) | all races of the account operations; until a stale copy is written they amount to operations that take place at once |
| `sessions` | 3 requests, sign-ins and new passwords | SessionsEnd, violated | see below |
| `verified` | 3 requests, reset links and changes of address | VerifiedByOwner, violated | see below |
| `stores` | 3 calls, 2 ids, 2 keys, 1 owner, every table and every store | UniqueKeys, ConsumedOnce, ContractSpec (ImplementsContract) | every store implements the contract |
| `paging` | 3 rows, 2 tags, 2 departures, clock to 1, the default limit and one above the maximum, every list and every store | TypeOK, NoneMissed | a walk misses one row at most for each departure |
| `authorize` | 3 requests (user agent or administrator, user agent or client, administrator), 2 clients, 1 user, 1 restart | TypeOK, ApprovedRequest, ExchangedByOwner, RetiredStayRetired, NothingOutdated, DeletedGone | consent, sessions and secrets against changes of the client and the user |
| `approved` | the same without restarts | ApprovedAsShown, violated | see below |

The bounds of the token runs.  Two requests are needed for every race and a third
to have issued the tokens they race for; the fourth is the request that arrives
after the race.  One code is enough, because a request names one code and the
actions on different codes touch different rows; `implicit` requests give further
grants.  In `cleanup` two requests are an exchange, or a password, and what follows it.  The clock reaches the instant of expiry and, for sliding
lifetimes, the instants on either side of it.  Requests, codes and scopes are
symmetric in the runs that only check safety: nothing distinguishes them at first;
the `cleanup` run, with a liveness property, uses no symmetry.  Runs disable the
deadlock check because a system whose requests are all answered stops.

In `use` one of the three requests has issued the token that a call presents, and the other
two change what the call has read, or race with its deletions.  `TokenUse_proofs`
says that more calls change nothing.  The clock passes the expiry of access tokens.

In `accounts` two requests race and a third has prepared the state (a session, a
link, a second user) or sees the outcome.  The second user comes from a
registration, the second email is the address to move to or to register, the
second password makes sign-ins fail.  An administrator creates a user without a
password whose email is to be verified, or one that is verified and disabled
(`NewAccounts`).  At time 1 links and lockouts have ended and
sessions have not.  The theorems of `Accounts_proofs` say that no larger instance
differs.

In `stores` two calls race between the statements of a third.  Two rows and two keys
are a clash and its absence; of the four instants two are kept as one by MongoDB, and
the deadline lies on an expiry after the rounding and not before it.  One of the rows
is stored at first, so that updates, consumes and deletions have something to meet.
In `paging` three rows and pages of one or two give walks of up to four requests;
two rows may be created at once, where the order needs its second column.  Two departures
(`MaxDepartures`) can be of two rows, or of one that returns.  `Paging_proofs` removes the bounds.

In `authorize` each of the three requests is of the kinds that follow from its
place: a page needs a request before the form, a code one before the exchange, and
the third changes the client between any two of their steps.  The clients differ
in the consent they require; the registrations make one public, change its scopes
and take the implicit grant away.  One restart separates the two values of the CSRF
cookie.  `Authorize_proofs` removes the bounds.

RefusedLeavesNothing and OneAccessToken are stated for stores that do not fail:
the code ignores the error of its undo (grants.go:216), and a refresh that fails
after its CreateAccess leaves that token until it expires.

Fairness (`FairSpec`): every accepted request takes its next step eventually (a
goroutine is scheduled, its store call returns), and the cleanup does (a ticker
fires again and again until the context is done).  A cleanup that fails is retried
at the next tick, from its first table on.  For a store that may fail, weak fairness
does not reach the refresh tokens: the first delete could succeed and the second
fail forever.  Strong fairness of SweepRefresh says that it does not, as a store that is
not down for good does not.  Nothing makes the clock run or a request arrive.

### Where the code and its documents differ

- `replay`: the README promises that a second use of a code revokes every token
  issued for it.  If the second use overtakes the first between its consume and
  its inserts, the revocation finds nothing and the tokens are stored afterwards.
  RevocationComplete states what does hold: without such a request in flight the
  revocation is complete.
- `revoke_reuse`: the revocation endpoint promises that the access token goes with
  the refresh token.  If a refresh of usage reuse updates the row between the
  read and the delete, the endpoint deletes the access token it has read about,
  and the new one survives.
- `sessions`: the README promises that a new password ends the sessions opened before.
  A sign-in reads the user, a second request stores a new password and stamp, and
  the sign-in writes its copy back, with the old password and the old stamp.  The
  old sessions are valid again (and so is the old password).  EndedStayEnded states
  what does hold: without such a write, ended sessions stay ended.
- `verified`: `ResetPassword` confirms the email address because its owner received the
  link.  An update that changes the address keeps the links, so a link mailed to
  the old address confirms the new one.
- `approved`: `ConsentRequest` describes the request the user must approve, with its
  scopes.  The form is handled from the start, and a request that leaves the scopes
  to the client gets the default scopes of that moment.  If they changed while the
  page was open, the user approves scopes the page did not show.  ApprovedRequest
  states what does hold: the same request, and the same scopes if it names any.

RetiredStayRetired has an exception of the same kind as `sessions`: an update of a client
that read the row before a new secret was stored writes the old secret back, and
the new one does not work.  No document promises otherwise, so it is listed as a
hazard and is part of the property, not a finding.

## What is proved

`TokenGrants_proofs` holds for every set of requests, codes, clients, users and
scopes, all lifetimes and registrations, with cleanup and failures or without.

- `TypeCorrect`: `Spec => []TypeOK`.  Inductive with `JobInv`, which ties the step of
  a request to the kind of its input.
- `OneRefreshTokenHolds`: `Spec => []OneRefreshToken`.  The property says nothing of
  requests in flight, so it is not inductive: a request may be about to store the
  second token.  The invariant `RightInv` says that the right to store the next
  refresh token is in one place:
  - `ReadInv`: what a refresh has read belongs to the grant of the row it names, for
    as long as it runs, even when the row is deleted;
  - `BegunInv`: a grant with a refresh token, or with a request that will store one,
    has begun: its code is not unused, or its first request is answered;
  - `OneHolder`: at most one request is `Pending` for a grant, and none while a
    refresh token of the grant is live.

  Most actions only shrink the refresh tokens and move nobody into `Pending`
  (`StepKeeps`); two hand the right on (`StepHandsOn`): the consume of a code and the
  delete of a rotation, each guarded by the row it changes.  CreateRefresh turns
  the one pending request into the one live token.

`TokenHistory_proofs` and `TokenRights_proofs` go on from `Typed` and `RightInv`, for the same
constants, and prove the other safety properties of `TokenGrants` and its refinement.

- `SingleUseHolds`: `Spec => []SingleUse`.  `WonInv` adds the row to the winner: who has
  exchanged a code, or rotated a token, has left it used or deleted, so that nobody
  wins it again.  `WayInv` keeps the two usages of refresh tokens apart: a request at a
  step of a rotation has read a token of a one-time client, its own.
- `ScopesKeptHolds`: `Spec => []ScopesKept`.  The property relates the rows of a grant to each
  other, but the next row is written from a copy.  `GrantInv` relates rows and copies
  alike to where the grant came from, the code or its first request (`OfWholeGrant`), and
  that never changes (`GrantFixed`).
- `AbsoluteExpiryHolds`: `Spec => []AbsoluteExpiryKept`.  `ExpiryInv` says the same of the
  copies; `FirstInv`, that a code has no refresh token until its exchange stores the first
  one, so that no exchange begins a second lifetime.
- `RefusedHolds` and `OneAccessTokenHolds`: `~Faults => (Spec => []...)`.  Both fail with a store that
  may fail (see the bounds above), and the proofs use that.  `AliveInv` says on which steps
  a request may have a live access token; `PairInv`, that a one-time refresh token carries
  the access token stored with it, and that a rotation is past the delete of that token
  before it stores the next; `OneAnswering`, that an answered request with a live access
  token has the one refresh token of the grant, while nobody is `Pending`.
- `RefreshRightImplemented`: `Spec => ImplementsRefreshRight`.  `RightInv` makes the mapping a
  function: the right is with the code, one request, or one token.  Each step of
  `TokenGrants` hands it on, loses it or leaves it where it is (`HandoverStep`).
- `RevocationCompleteHolds`: `Spec => []RevocationComplete`.  `RevokedInv` says that after the
  first delete nobody is `Storing` a token of what is revoked, in whatever state its request
  is; it needs `EndInv`, that what is revoked has ended (a used code, a disabled user or
  client), so that nobody can begin anew.

`TokenUse_proofs` holds for every number of calls, in addition to the constants above.  Its
actions are those of `TokenGrants`, or leave everything of `TokenGrants` alone but rows that they
delete (`Trims`).

- `GuaranteesKept`, `AccessTokensKept`, `RevocationBesideCalls`: the properties proved of `TokenGrants`
  hold with such deletions at any time.  Each of its invariants is kept by a step that
  only trims tables, which is what the cleanup does as well, so they are inductive
  for `UseNext` too (`TokenInv`).
- `RefreshRightBesideCalls`: `UseSpec => ImplementsRefreshRight`.  A trim loses the right of some
  grants and leaves that of the others (`HandoverTrims`).
- `UseTypeCorrect`: `UseSpec => []UseTypeOK`.
- `NoStaleTokenHolds`: `UseSpec => []NoStaleToken`.  `Passed` says for each step which checks of the
  call have succeeded, and what they say of the state at its arrival: a row that is
  live when it is read was stored before the call arrived, because its request had
  been answered, and a client that is enabled now was enabled then.
- `DeletedGrantEndsHolds`: `~Faults => (UseSpec => []DeletedGrantEnds)`.  Deleting the refresh token
  makes the right of its grant `over`, which is final; then nothing is `Pending`, and
  `OneAnswering` leaves at most the access token that the deletion has read about.
- `RevokedGrantsEndHolds`: `UseSpec => []RevokedGrantsEnd`.  `OwnerInv` says that all tokens of a grant
  have the user of its code or first request.  `Stopped` says of a revoked grant that
  it has begun, has no refresh token and no request that is `Storing` for it, so that no
  access token comes after the second delete.

`Accounts_proofs` holds for every set of requests, registered users, emails and
passwords, with or without activation and lockout.

- `TypeCorrect`: `Spec => []TypeOK`.  Inductive with `JobInv` (the kinds of request at each
  step), `CopyInv` (a copy, once read, names a user), `LinkInv` and `UserInv` (the row of a
  user has its id).  The five actions that write a copy back are brought to one form
  (`Written`), and everything below speaks of that form.
- `UniqueEmailsHolds`: `Spec => []UniqueEmails`.  Inductive with the types: `ensureUnique` plays no
  part in it, the check in the store does.
- `GoneForGoodHolds`: `Spec => []GoneForGood`.  `DeleteInv` says how far a deletion has come: its user
  is gone from its first call on, the links of one purpose after the other.  It needs
  that no deleted row and no deleted link comes back (`GoneFinal`, `LinksFinal`).
- `LinksDieHolds`: `Spec => []LinksDie`.  `DieInv` adds that a request that uses a link works on the
  user the link was sent to, so that its drop hits the link, and that the links its
  subject had when it arrived are gone from its drop on.
- `EndedStayEndedHolds`: `Spec => []EndedStayEnded`.  `StampInv` says that the stamp a request will write
  is nowhere before it does, and that an ended session has a stamp its user no longer
  has.  A write can bring an old stamp back only with a copy that is not current, and
  then the user is in `lost`.
- `AccountImplemented`: `Spec => ImplementsAccount`, the refinement.  A write of a copy either
  is refused, overwrites the account, or finds the account equal to the copy
  (`AccountWritten`), and then what the request has checked of its copy holds of the
  account.  `RequestInv` says what that is: a password or an address that was asked for
  (`Asked`), the verdict of `Authenticate` on the copy with the clock it has read (`Judged`), the
  copy of a stored user with a stamp (`Copied`).  That a new stamp is fresh comes from
  `StampInv`, that an address is free from the check of the store.

`Authorize_proofs` holds for every set of requests, clients, users, scopes, redirect URIs and
authorization requests, and any number of restarts.  Steps are split into those of
an administrator, of the token and authorization endpoints, and of the browser.

- `TypeCorrect`: `Spec => []TypeOK`.  Inductive with `TargetInv`, which says from which step on
  a request names a client and a code.
- `RetiredSecrets`: `Spec => []RetiredStayRetired`.  `SecretInv` says of a request that
  holds a copy: the secret it would keep has not been replaced, or it is in `missed` or
  `restored` (`Copy`); what it will write passes `Validate`; a secret that is not handed out yet is
  nowhere (`Fresh`); and the id of a creation names no client before its insert.  `Fresh`
  makes the secret a write brings differ from the ones replaced before.
- `DeletedClients`: `Spec => DeletedGone`.  Every write is guarded by the row it
  writes, and no request creates a row whose id was used (`NewId`).
- `ConsentGiven`: `Spec => []ApprovedRequest`.  `FlowInv` says what a request that
  goes through the endpoint knows: the parameters of its form are those of the page
  (`FormOf`), a shown page does not change (`PageOf`), at each step the checks before it
  held of the copy it has (`Examined`), and a grant keeps what the request had (`GrantOf`).
- `OwnerExchanges`: `Spec => []ExchangedByOwner`, from the same invariant with `OwnerOf`:
  what GetCode checked is still true of the code when it is consumed, because only its
  state changes.
- `GrantedOnTime`: `Spec => NothingOutdated`.  `SeenInv` says that the copy a request has,
  and the user it has found active, are among the rows of `since`; `Witness` keeps
  them there until the request is answered.

`Stores_proofs` holds for every number of calls, rows, keys and owners, and any rounding of instants.

- `EveryStore`: `Spec => ImplementsContract`, the refinement.  The stores have the variables of
  the contract and add `pc`, `scan` and `backend`, so the mapping is the identity and the proof
  is about steps.  Each statement amounts to one of three steps of the contract (a change
  that ends the call, an answer, the deletion of some rows) or to none (`Outcome`); the
  lemmas Getting, Storing, Updating, Consuming, Deleting and DeletingMany show it once for
  all stores.  The invariant has two parts.  `ContractInv` is the contract's own: the
  arguments of a call fit the table, what an open call has seen is in `may` and `due`, and
  no two calls create one row.  `StoreInv` adds what the second statement of a call relies
  on (`Told`): the update that affected no row was right to say ok, or conflict, at some
  instant since, or the row is gone for good; and the rows a deletion has still to come
  to include all that are due.  `Rounded` says that MongoDB keeps rounded instants only, so
  that its rounded deadline selects the same rows.
- `KeysUnique` and `ConsumedByOne`: `Spec => []UniqueKeys`, `Spec => []ConsumedOnce`.  Both are
  proved of the contract (`ContractUnique`, `ContractConsumed`) and follow for the stores from the
  refinement.  A code that a call was told to have consumed is used, and stays so
  because no call updates codes (`Spent`, `OnlyCodes`).
- `TypeCorrect`: `Spec => []TypeOK`.

`Paging_proofs` holds for every set of rows, any limits, any number of departures, every list
and every store.

- `TypeCorrect`: `Spec => []TypeOK`.
- `NoneMissedHolds`: `Spec => []NoneMissed`.  The rank of a row is the number of rows before it.  In
  any sorting the row of rank n is at place n + 1 (`SortedRank`, which needs that the order is
  total), so a page has the rows of the ranks it asks for (`PageRanks`).  What the walk will
  miss are the rows it has not seen whose rank is below what it has reached (`Overlooked`);
  `WalkInv` bounds them by the departures.  A row that comes lowers no rank (`GrowsSkips`), a row that
  leaves lowers each by one at most, and no two rows have one rank, so that one row at most
  slips below the mark (`ShrinksSkips`).  A page itself overlooks nothing (`ReadKeeps`), and where the SQL
  stores read nothing past the end, nothing is left (`CountKeeps`).

Only model-checked: liveness, which is ExpiredRemoved (TLAPS proves neither liveness under
fairness nor ENABLED).

The assumptions on the constants (`ConstantAssumption`, `UseAssumption`, `AccountsAssumption`,
`ClientsAssumption`, `AuthorizeAssumption`, `StoreAssumption`, `BackendsAssumption`, `PagingAssumption`)
say that ids of different kinds differ, that lifetimes are positive, which the code
ensures by defaulting them, that the users, clients and rows stored at first have
different keys and are valid, and that `DBTime` is monotone, rounds down and changes
nothing twice.  TLC evaluates them on every run.

## Not modelled

Out of scope: the migration of the SQL schema, which runs before the server
serves; rendering, mail delivery, router adapters and configuration, which keep no
state; the comparison of scopes by a resource and the metadata document, which depend on
nothing that changes; and the strength of hashing, signatures and randomness, which are assumed
ideal.
