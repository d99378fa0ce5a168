------------------------------- MODULE Accounts -------------------------------
(***************************************************************************)
(* User accounts: pkg/account over the tables of users and user tokens,    *)
(* with the sessions of pkg/session and the user administration of         *)
(* pkg/api.                                                                *)
(*                                                                         *)
(* Nearly every operation reads a whole user row, works on the copy        *)
(* (hashing a password takes its time) and writes the whole copy back,     *)
(* without a transaction or a version.  A request is a process that makes  *)
(* one store call per action, as in TokenGrants, and row[r] is its copy.   *)
(*                                                                         *)
(* A user, a user token (a link here, as it is mailed as one), a session   *)
(* and a security stamp have the id of the request that made them.         *)
(***************************************************************************)
EXTENDS Integers, FiniteSets

CONSTANTS
  Requests,           \* HTTP requests
  Existing,           \* users that are registered at first
  Emails, Passwords,
  None,
  SeedEmail,          \* existing user -> email
  SeedPassword,       \* existing user -> password
  RequireActivation,
  MaxFailedAttempts,  \* 0 disables the lockout
  LockoutDuration, LinkLifetime, SessionLifetime,
  MaxTime,            \* bound: the clock stops here
  NewAccounts,        \* bound: <<password, verified, enabled>> an administrator may ask for
  Kinds               \* bound: the kinds of request of the instance

Ids == Existing \cup Requests

LinkUsers == {"activate", "reset"}
Creations == {"register", "create", "invite"}   \* by the user, by an administrator, and with a link
LinkSenders == {"register", "invite", "resend", "send_activation", "forgot", "send_reset"}
Profile == {"update", "unlock"}
AllKinds == LinkUsers \cup LinkSenders \cup Creations \cup Profile \cup {"login", "set_password", "delete"}

ASSUME AccountsAssumption ==
  /\ Existing \cap Requests = {}
  /\ None \notin Ids \cup Emails \cup Passwords
  /\ SeedEmail \in [Existing -> Emails]
  /\ \A u, v \in Existing : SeedEmail[u] = SeedEmail[v] => u = v
  /\ SeedPassword \in [Existing -> Passwords]
  /\ RequireActivation \in BOOLEAN
  /\ {MaxFailedAttempts, MaxTime} \subseteq Nat
  /\ NewAccounts \subseteq (Passwords \cup {None}) \X BOOLEAN \X BOOLEAN
  /\ {LockoutDuration, LinkLifetime, SessionLifetime} \subseteq Nat \ {0}
  /\ Kinds \subseteq AllKinds

VARIABLES
  now,
  users,     \* table of users
  links,     \* table of user tokens
  sessions,  \* the session cookies that were set, by the login that set them
  pc,        \* request -> its next step, or its response
  job,       \* request -> its input
  row,       \* request -> its copy of the user
  cur,       \* request -> the row UpdateUser compares with
  at,        \* request -> the clock Authenticate has read
  lost,      \* history: users of which a copy was written back that was no longer current
  ended,     \* history: sessions opened before a change that ends sessions
  out        \* history: request -> the links that worked when it arrived

locals == <<row, cur, at>>
history == <<lost, ended, out>>
vars == <<now, users, links, sessions, pc, job, row, cur, at, lost, ended, out>>

User == [st : {"none", "stored", "gone"},
         id : Ids \cup {None},
         email : Emails \cup {None},
         password : Passwords \cup {None},
         verified : BOOLEAN,
         enabled : BOOLEAN,
         stamp : Ids \cup {None},
         failed : Nat,
         locked : Nat]            \* LockoutEnd, 0 when it is not set

NoUser == [st |-> "none", id |-> None, email |-> None, password |-> None, verified |-> FALSE,
           enabled |-> FALSE, stamp |-> None, failed |-> 0, locked |-> 0]

NewUser(id, email, password, verified, enabled) ==
  [NoUser EXCEPT !.st = "stored", !.id = id, !.email = email, !.password = password,
                 !.verified = verified, !.enabled = enabled, !.stamp = id]

Link == [st : {"none", "live", "gone"}, user : Ids \cup {None},
         purpose : {"activation", "password_reset"}, email : Emails \cup {None}, exp : Nat]

NoLink == [st |-> "none", user |-> None, purpose |-> "activation", email |-> None, exp |-> 0]

Session == [user : Ids \cup {None}, stamp : Ids \cup {None}, exp : Nat]

NoSession == [user |-> None, stamp |-> None, exp |-> 0]

Job == [kind : AllKinds \cup {"none"}, target : Ids \cup {None}, email : Emails \cup {None},
        password : Passwords \cup {None}, verified : BOOLEAN, enabled : BOOLEAN]

NoJob == [kind |-> "none", target |-> None, email |-> None, password |-> None,
          verified |-> FALSE, enabled |-> FALSE]

Responses == {"ok", "refused", "error"}
Steps == {"check_email", "insert", "find", "count_failure", "record_login", "get_user",
          "get_current", "write_profile", "write_password", "get_link", "get_link_user",
          "write_verified", "drop_link", "find_mailbox", "delete", "drop_activation",
          "drop_links", "store_link"}

TypeOK ==
  /\ now \in Nat
  /\ users \in [Ids -> User]
  /\ links \in [Requests -> Link]
  /\ sessions \in [Requests -> Session]
  /\ pc \in [Requests -> {"idle"} \cup Steps \cup Responses]
  /\ job \in [Requests -> Job]
  /\ row \in [Requests -> User]
  /\ cur \in [Requests -> User]
  /\ at \in [Requests -> Nat]
  /\ lost \in SUBSET Ids
  /\ ended \in SUBSET Requests
  /\ out \in [Requests -> SUBSET Requests]

Init ==
  /\ now = 0
  /\ users = [u \in Ids |->
                IF u \in Existing THEN NewUser(u, SeedEmail[u], SeedPassword[u], TRUE, TRUE) ELSE NoUser]
  /\ links = [r \in Requests |-> NoLink]
  /\ sessions = [r \in Requests |-> NoSession]
  /\ pc = [r \in Requests |-> "idle"]
  /\ job = [r \in Requests |-> NoJob]
  /\ row = [r \in Requests |-> NoUser]
  /\ cur = [r \in Requests |-> NoUser]
  /\ at = [r \in Requests |-> 0]
  /\ lost = {}
  /\ ended = {}
  /\ out = [r \in Requests |-> {}]

--------------------------------------------------------------------------------
Stored == {u \in Ids : users[u].st = "stored"}
Working == {l \in Requests : links[l].st = "live"}

Goto(r, l) == pc' = [pc EXCEPT ![r] = l]

\* userTaken, and the unique indexes of the SQL and MongoDB stores.
Taken(email, except) == \E u \in Stored \ {except} : users[u].email = email

CanSignIn(user) == user.enabled /\ (RequireActivation => user.verified)

LinkExpired(link) == now >= link.exp

\* Deviation: the update inserts the row when it is gone.
UpdatableUpsert(id, email) == users[id].st # "none" /\ ~Taken(email, id)

\* Deviation: the update leaves uniqueness to ensureUnique.
UpdatableDuplicate(id, email) == users[id].st = "stored"

\* UpdateUser of the store finds the row and no other with the same email.
Updatable(id, email) == users[id].st = "stored" /\ ~Taken(email, id)

\* The changes a session does not survive: a new password or email, and disabling.
EndsSessions(r, old, new) ==
  \/ pc[r] = "write_password"
  \/ old.email # new.email
  \/ old.enabled /\ ~new.enabled

\* A request writes its whole copy back, changed to new, and goes on at l.
Write(r, new, l) ==
  LET id == row[r].id IN
    \/ /\ Updatable(id, new.email)
       /\ users' = [users EXCEPT ![id] = new]
       /\ lost' = IF users[id] # row[r] \/ (cur[r] # NoUser /\ users[id] # cur[r])
                    THEN lost \cup {id} ELSE lost
       /\ ended' = IF EndsSessions(r, users[id], new)
                     THEN ended \cup {s \in Requests : sessions[s].user = id} ELSE ended
       /\ Goto(r, l)
    \/ /\ ~Updatable(id, new.email)
       /\ Goto(r, "error")
       /\ UNCHANGED <<users, lost, ended>>

Tick ==
  /\ now < MaxTime
  /\ now' = now + 1
  /\ UNCHANGED <<users, links, sessions, pc, job, locals, history>>

--------------------------------------------------------------------------------
(***************************************************************************)
(* Requests.  A link is used after it was stored: it is mailed at once.    *)
(***************************************************************************)

Accept(r, j, l) ==
  /\ pc[r] = "idle"
  /\ j.kind \in Kinds
  /\ job' = [job EXCEPT ![r] = j]
  /\ out' = [out EXCEPT ![r] = Working]
  /\ Goto(r, l)
  /\ UNCHANGED <<now, users, links, sessions, locals, lost, ended>>

AcceptRegister(r, e, p) ==
  Accept(r, [NoJob EXCEPT !.kind = "register", !.email = e, !.password = p,
                          !.verified = ~RequireActivation, !.enabled = TRUE], "check_email")

\* An administrator may leave the password to a reset, and decides on everything else.
AcceptCreate(r, kind, e, p, verified, enabled) ==
  Accept(r, [NoJob EXCEPT !.kind = kind, !.email = e, !.password = p, !.verified = verified,
                          !.enabled = enabled], "check_email")

AcceptLogin(r, e, p) ==
  Accept(r, [NoJob EXCEPT !.kind = "login", !.email = e, !.password = p], "find")

AcceptSetPassword(r, u, p) ==
  /\ users[u].st # "none"
  /\ Accept(r, [NoJob EXCEPT !.kind = "set_password", !.target = u, !.password = p], "get_user")

AcceptUpdate(r, u, e, verified, enabled) ==
  /\ users[u].st # "none"
  /\ Accept(r, [NoJob EXCEPT !.kind = "update", !.target = u, !.email = e,
                             !.verified = verified, !.enabled = enabled], "get_user")

AcceptUnlock(r, u) ==
  /\ users[u].st # "none"
  /\ Accept(r, [NoJob EXCEPT !.kind = "unlock", !.target = u], "get_user")

AcceptDelete(r, u) ==
  /\ users[u].st # "none"
  /\ Accept(r, [NoJob EXCEPT !.kind = "delete", !.target = u], "delete")

AcceptSend(r, kind, e) ==
  Accept(r, [NoJob EXCEPT !.kind = kind, !.email = e], "find_mailbox")

AcceptSendById(r, kind, u) ==
  /\ users[u].st # "none"
  /\ Accept(r, [NoJob EXCEPT !.kind = kind, !.target = u], "get_user")

AcceptActivate(r, l) ==
  /\ links[l].st # "none"
  /\ Accept(r, [NoJob EXCEPT !.kind = "activate", !.target = l], "get_link")

AcceptReset(r, l, p) ==
  /\ links[l].st # "none"
  /\ Accept(r, [NoJob EXCEPT !.kind = "reset", !.target = l, !.password = p], "get_link")

--------------------------------------------------------------------------------
(***************************************************************************)
(* CreateUser, and ensureUnique, which UpdateUser shares                   *)
(***************************************************************************)

\* The row an administrator asks for: a copy with the profile, or the lockout cleared.
Edited(r) ==
  IF job[r].kind = "update"
    THEN [row[r] EXCEPT !.email = job[r].email, !.verified = job[r].verified,
                        !.enabled = job[r].enabled]
    ELSE [row[r] EXCEPT !.failed = 0, !.locked = 0]

CheckEmail(r) ==
  /\ pc[r] = "check_email"
  /\ IF job[r].kind \in Creations
       THEN Goto(r, IF Taken(job[r].email, r) THEN "refused" ELSE "insert")
       ELSE Goto(r, IF Taken(Edited(r).email, row[r].id) THEN "refused" ELSE "write_profile")
  /\ UNCHANGED <<now, users, links, sessions, job, locals, history>>

Insert(r) ==
  /\ pc[r] = "insert"
  /\ LET user == NewUser(r, job[r].email, job[r].password, job[r].verified, job[r].enabled) IN
       \/ /\ ~Taken(user.email, r)
          /\ users' = [users EXCEPT ![r] = user]
          /\ row' = [row EXCEPT ![r] = user]
          /\ Goto(r, IF job[r].kind \in LinkSenders /\ ~user.verified THEN "drop_links" ELSE "ok")
       \/ /\ Taken(user.email, r)
          /\ Goto(r, "refused")
          /\ UNCHANGED <<users, row>>
  /\ UNCHANGED <<now, links, sessions, job, cur, at, history>>

--------------------------------------------------------------------------------
(***************************************************************************)
(* Authenticate and the session of a login                                 *)
(***************************************************************************)

\* Deviation: the lock is looked at only when the password is wrong.
LoginVerdictUnlocked(user, password, time) ==
  IF user.password # password
    THEN IF time < user.locked \/ MaxFailedAttempts = 0 THEN "refused" ELSE "count_failure"
  ELSE IF CanSignIn(user) THEN "record_login" ELSE "refused"

LoginVerdict(user, password, time) ==
  IF time < user.locked THEN "refused"
  ELSE IF user.password # password
    THEN IF MaxFailedAttempts > 0 THEN "count_failure" ELSE "refused"
  ELSE IF CanSignIn(user) THEN "record_login" ELSE "refused"

Find(r) ==
  /\ pc[r] = "find"
  /\ \/ \E u \in Stored :
          /\ users[u].email = job[r].email
          /\ row' = [row EXCEPT ![r] = users[u]]
          /\ at' = [at EXCEPT ![r] = now]
          /\ Goto(r, LoginVerdict(users[u], job[r].password, now))
     \/ /\ ~Taken(job[r].email, None)
        /\ Goto(r, "refused")
        /\ UNCHANGED <<row, at>>
  /\ UNCHANGED <<now, users, links, sessions, job, cur, history>>

CountFailure(r) ==
  /\ pc[r] = "count_failure"
  /\ Write(r, IF row[r].failed + 1 >= MaxFailedAttempts
                THEN [row[r] EXCEPT !.failed = 0, !.locked = at[r] + LockoutDuration]
                ELSE [row[r] EXCEPT !.failed = @ + 1], "refused")
  /\ UNCHANGED <<now, links, sessions, job, locals, out>>

\* The session carries the stamp of the copy.
RecordLogin(r) ==
  /\ pc[r] = "record_login"
  /\ Write(r, [row[r] EXCEPT !.failed = 0, !.locked = 0], "ok")
  /\ sessions' = IF pc'[r] = "ok"
                   THEN [sessions EXCEPT ![r] = [user |-> row[r].id, stamp |-> row[r].stamp,
                                                 exp |-> now + SessionLifetime]]
                   ELSE sessions
  /\ UNCHANGED <<now, links, job, locals, out>>

\* CurrentUser: the session of the cookie is valid and of a user that can still sign in.
SignedIn(s) ==
  LET session == sessions[s] IN
    /\ session.user \in Stored
    /\ now < session.exp
    /\ users[session.user].stamp = session.stamp
    /\ CanSignIn(users[session.user])

--------------------------------------------------------------------------------
(***************************************************************************)
(* SetPassword, ResetPassword, UpdateUser and DeleteUser.  Their           *)
(* RevokeTokens is the bulk revocation of TokenGrants.                     *)
(***************************************************************************)

\* What an operation that was given an id does with the user.
AfterGetUser(kind, user) ==
  CASE kind = "set_password" -> "write_password"
    [] kind = "send_activation" -> IF user.verified THEN "refused" ELSE "drop_links"
    [] kind = "send_reset" -> IF user.enabled THEN "find_mailbox" ELSE "refused"
    [] OTHER -> "get_current"

GetUser(r) ==
  /\ pc[r] = "get_user"
  /\ LET user == users[job[r].target] IN
       \/ /\ user.st = "stored"
          /\ row' = [row EXCEPT ![r] = user]
          /\ Goto(r, AfterGetUser(job[r].kind, user))
       \/ /\ user.st = "gone"
          /\ Goto(r, "refused")
          /\ UNCHANGED row
  /\ UNCHANGED <<now, users, links, sessions, job, cur, at, history>>

\* Deviation: the stamp is kept.
NewStampKept(r) == row[r].stamp

NewStamp(r) == r

WritePassword(r) ==
  /\ pc[r] = "write_password"
  /\ Write(r, [row[r] EXCEPT !.password = job[r].password, !.stamp = NewStamp(r),
                             !.failed = 0, !.locked = 0,
                             !.verified = @ \/ job[r].kind = "reset"],
           IF job[r].kind = "reset" THEN "drop_links" ELSE "ok")
  /\ UNCHANGED <<now, links, sessions, job, locals, out>>

GetCurrent(r) ==
  /\ pc[r] = "get_current"
  /\ LET user == users[job[r].target] IN
       \/ /\ user.st = "stored"
          /\ cur' = [cur EXCEPT ![r] = user]
          /\ Goto(r, "check_email")
       \/ /\ user.st = "gone"
          /\ Goto(r, "refused")
          /\ UNCHANGED cur
  /\ UNCHANGED <<now, users, links, sessions, job, row, at, history>>

\* The password is that of the second read, the stamp that of the first.
WriteProfile(r) ==
  /\ pc[r] = "write_profile"
  /\ LET new == Edited(r)
         renew == (~new.enabled /\ cur[r].enabled) \/ new.email # cur[r].email IN
       Write(r, [new EXCEPT !.password = cur[r].password,
                            !.stamp = IF renew THEN r ELSE @], "ok")
  /\ UNCHANGED <<now, links, sessions, job, locals, out>>

DeleteUser(r) ==
  /\ pc[r] = "delete"
  /\ LET u == job[r].target IN
       \/ /\ users[u].st = "stored"
          /\ users' = [users EXCEPT ![u].st = "gone"]
          /\ Goto(r, "drop_activation")
       \/ /\ users[u].st = "gone"
          /\ Goto(r, "refused")
          /\ UNCHANGED users
  /\ UNCHANGED <<now, links, sessions, job, locals, history>>

--------------------------------------------------------------------------------
(***************************************************************************)
(* User tokens                                                             *)
(***************************************************************************)

\* Deviation: the kind of the request is stored as the purpose.
PurposeOfKind(r) == job[r].kind

PurposeOf(r) ==
  IF job[r].kind \in {"register", "invite", "resend", "send_activation", "activate"}
    THEN "activation" ELSE "password_reset"

Subject(r) == IF job[r].kind = "delete" THEN job[r].target ELSE row[r].id

Drop(ids) == links' = [l \in Requests |-> IF l \in ids /\ links[l].st = "live"
                                            THEN [links[l] EXCEPT !.st = "gone"] ELSE links[l]]

\* An administrator who sends a reset link names a user, whose address is looked up again.
Mailbox(r) == IF job[r].kind = "send_reset" THEN row[r].email ELSE job[r].email

\* ResendActivation and RequestPasswordReset answer ok whoever asks.
FindMailbox(r) ==
  /\ pc[r] = "find_mailbox"
  /\ \/ \E u \in Stored :
          /\ users[u].email = Mailbox(r)
          /\ row' = [row EXCEPT ![r] = users[u]]
          /\ Goto(r, IF users[u].enabled /\ (job[r].kind = "resend" => ~users[u].verified)
                       THEN "drop_links" ELSE "ok")
     \/ /\ ~Taken(Mailbox(r), None)
        /\ Goto(r, "ok")
        /\ UNCHANGED row
  /\ UNCHANGED <<now, users, links, sessions, job, cur, at, history>>

\* Deviation: only links that have expired are deleted.
DroppedExpired(user, purpose) ==
  {l \in Requests : links[l].user = user /\ links[l].purpose = purpose /\ LinkExpired(links[l])}

\* DeleteUserTokens
Dropped(user, purpose) ==
  {l \in Requests : links[l].user = user /\ links[l].purpose = purpose}

DropActivation(r) ==
  /\ pc[r] = "drop_activation"
  /\ Drop(Dropped(Subject(r), "activation"))
  /\ Goto(r, "drop_links")
  /\ UNCHANGED <<now, users, sessions, job, locals, history>>

DropLinks(r) ==
  /\ pc[r] = "drop_links"
  /\ Drop(Dropped(Subject(r), PurposeOf(r)))
  /\ Goto(r, IF job[r].kind \in LinkSenders THEN "store_link" ELSE "ok")
  /\ UNCHANGED <<now, users, sessions, job, locals, history>>

\* The link is mailed to the address of the copy.
StoreLink(r) ==
  /\ pc[r] = "store_link"
  /\ links' = [links EXCEPT ![r] = [st |-> "live", user |-> row[r].id, purpose |-> PurposeOf(r),
                                    email |-> row[r].email, exp |-> now + LinkLifetime]]
  /\ Goto(r, "ok")
  /\ UNCHANGED <<now, users, sessions, job, locals, history>>

\* lookupUserToken, its first half
GetLink(r) ==
  /\ pc[r] = "get_link"
  /\ LET link == links[job[r].target] IN
       Goto(r, IF link.st = "live" /\ link.purpose = PurposeOf(r) /\ ~LinkExpired(link)
                 THEN "get_link_user" ELSE "refused")
  /\ UNCHANGED <<now, users, links, sessions, job, locals, history>>

GetLinkUser(r) ==
  /\ pc[r] = "get_link_user"
  /\ LET user == users[links[job[r].target].user]
         found == user.st = "stored" /\ (job[r].kind = "reset" => user.enabled) IN
       \/ /\ found
          /\ row' = [row EXCEPT ![r] = user]
          /\ Goto(r, IF job[r].kind = "reset" THEN "write_password" ELSE "write_verified")
       \/ /\ ~found
          /\ Goto(r, "refused")
          /\ UNCHANGED row
  /\ UNCHANGED <<now, users, links, sessions, job, cur, at, history>>

WriteVerified(r) ==
  /\ pc[r] = "write_verified"
  /\ Write(r, [row[r] EXCEPT !.verified = TRUE], "drop_link")
  /\ UNCHANGED <<now, links, sessions, job, locals, out>>

DropLink(r) ==
  /\ pc[r] = "drop_link"
  /\ Drop({job[r].target})
  /\ Goto(r, "ok")
  /\ UNCHANGED <<now, users, sessions, job, locals, history>>

\* DeleteExpiredUserTokens of the cleanup
SweepLinks ==
  /\ \E l \in Working : LinkExpired(links[l])
  /\ Drop({l \in Requests : LinkExpired(links[l])})
  /\ UNCHANGED <<now, users, sessions, pc, job, locals, history>>

--------------------------------------------------------------------------------
Arrive(r) ==
  \/ \E e \in Emails, p \in Passwords : AcceptRegister(r, e, p) \/ AcceptLogin(r, e, p)
  \/ \E kind \in {"create", "invite"}, e \in Emails, new \in NewAccounts :
       AcceptCreate(r, kind, e, new[1], new[2], new[3])
  \/ \E u \in Ids, p \in Passwords : AcceptSetPassword(r, u, p)
  \/ \E u \in Ids, e \in Emails, verified, enabled \in BOOLEAN :
       AcceptUpdate(r, u, e, verified, enabled)
  \/ \E u \in Ids : AcceptUnlock(r, u) \/ AcceptDelete(r, u)
  \/ \E kind \in {"resend", "forgot"}, e \in Emails : AcceptSend(r, kind, e)
  \/ \E kind \in {"send_activation", "send_reset"}, u \in Ids : AcceptSendById(r, kind, u)
  \/ \E l \in Requests : AcceptActivate(r, l)
  \/ \E l \in Requests, p \in Passwords : AcceptReset(r, l, p)

Advance(r) ==
  \/ CheckEmail(r) \/ Insert(r) \/ Find(r) \/ CountFailure(r) \/ RecordLogin(r)
  \/ GetUser(r) \/ WritePassword(r) \/ GetCurrent(r) \/ WriteProfile(r) \/ DeleteUser(r)
  \/ FindMailbox(r) \/ DropActivation(r) \/ DropLinks(r) \/ StoreLink(r)
  \/ GetLink(r) \/ GetLinkUser(r) \/ WriteVerified(r) \/ DropLink(r)

Next ==
  \/ Tick
  \/ \E r \in Requests : Arrive(r) \/ Advance(r)
  \/ SweepLinks

Spec == Init /\ [][Next]_vars

--------------------------------------------------------------------------------
(***************************************************************************)
(* Properties                                                              *)
(***************************************************************************)

\* No two users share an email, although every writer has looked for one long before it
\* writes (ensureUnique): the store refuses the second.
UniqueEmails ==
  \A u, v \in Stored : users[u].email = users[v].email => u = v

\* A deleted user does not come back with a copy that was in flight, nobody is signed in as
\* it, and no link that worked when the deletion arrived works on.
GoneForGood ==
  \A r \in Requests : job[r].kind = "delete" /\ pc[r] = "ok" =>
    /\ job[r].target \notin Stored
    /\ \A s \in Requests : sessions[s].user = job[r].target => ~SignedIn(s)
    /\ \A l \in out[r] : links[l].user = job[r].target => links[l].st = "gone"

\* A link that worked when a request arrived no longer works when that request has been
\* answered after using it, replacing it with a newer one or resetting the password.
LinksDie ==
  \A r \in Requests : pc[r] = "ok" /\ job[r].kind \in LinkUsers \cup LinkSenders =>
    \A l \in out[r] :
      \/ job[r].kind \in LinkUsers /\ l = job[r].target
      \/ /\ row[r].id = links[l].user /\ PurposeOf(r) = links[l].purpose
         /\ job[r].kind = "reset" \/ links[r].st # "none"
      => links[l].st = "gone"

\* A new password, a new email and disabling end every session opened before, for good,
\* unless somebody has written back a copy of the user that was no longer current.
EndedStayEnded ==
  \A s \in ended : sessions[s].user \notin lost => ~SignedIn(s)

\* The row of a user, of which nothing more is said once a copy was written back that was no
\* longer current.
AccountOf(u) ==
  CASE users[u].st = "none" -> [st |-> "none"]
    [] users[u].st = "gone" -> [st |-> "gone"]
    [] users[u].st = "stored" /\ u \in lost -> [st |-> "overwritten"]
    [] OTHER -> users[u]

Whole == INSTANCE Account WITH
  Users <- Ids, Sessions <- Requests, Stamps <- Ids,
  account <- [u \in Ids |-> AccountOf(u)], session <- sessions

\* Every operation takes place at once on the row as it is: each wrong password counts, a
\* session is opened only with the password, the status and the lock that the user has at
\* that instant, nothing that one request changes is undone by another.  It ends for a user
\* of which a copy was written back that was no longer current.
ImplementsAccount == Whole!Spec

\* What the README says: the stamp changes when the password changes or the account is
\* disabled, and that ends the session.
SessionsEnd == \A s \in ended : ~SignedIn(s)

\* What ResetPassword says: the email address is confirmed because the user has proved to
\* have access to it.  Unless an administrator says so, an address is verified only if a
\* link that was mailed to it was used, or was when the user was registered.
VerifiedByOwner ==
  \A u \in Stored :
    /\ users[u].verified
    /\ \A r \in Requests : job[r].kind = "update" /\ job[r].target = u => ~job[r].verified
    => \/ u \in Existing /\ users[u].email = SeedEmail[u]
       \/ u \in Requests /\ job[u].verified /\ users[u].email = job[u].email
       \/ \E r \in Requests : /\ job[r].kind \in LinkUsers
                              /\ links[job[r].target].user = u
                              /\ links[job[r].target].email = users[u].email

================================================================================
