---------------------------- MODULE Accounts_proofs ----------------------------
(***************************************************************************)
(* Theorems about Accounts, for every set of requests, users, emails and   *)
(* passwords, every lifetime, with or without activation and lockout.      *)
(***************************************************************************)
EXTENDS Accounts, TLAPS

(***************************************************************************)
(* Which requests are at which step, and what they name there.             *)
(***************************************************************************)
JobAtStep(r) ==
  /\ pc[r] \in {"get_link", "get_link_user", "write_verified", "drop_link"}
       => job[r].kind \in LinkUsers
  /\ pc[r] \in {"get_link", "get_link_user", "write_verified", "drop_link", "write_password"}
       => job[r].kind \notin LinkSenders \cup {"delete"}
  /\ pc[r] \in {"write_verified", "drop_link"} => job[r].kind = "activate"
  /\ pc[r] = "get_user" =>
       job[r].kind \in Profile \cup {"set_password", "send_activation", "send_reset"}
  /\ pc[r] \in {"get_current", "write_profile"} => job[r].kind \in Profile
  /\ pc[r] = "write_password" => job[r].kind \in {"set_password", "reset"}
  /\ pc[r] = "check_email" => job[r].kind \in Profile \cup Creations
  /\ pc[r] = "insert" => job[r].kind \in Creations
  /\ pc[r] \in {"find", "count_failure", "record_login"} => job[r].kind = "login"
  /\ pc[r] \in {"delete", "drop_activation"} => job[r].kind = "delete"
  /\ pc[r] = "find_mailbox" => job[r].kind \in {"resend", "forgot", "send_reset"}
  /\ pc[r] = "drop_links" => job[r].kind \in LinkSenders \cup {"reset", "delete"}
  /\ pc[r] = "store_link" => job[r].kind \in LinkSenders

Target(r) ==
  /\ job[r].kind \in LinkUsers => job[r].target \in Requests
  /\ job[r].kind \in Profile \cup {"set_password", "delete", "send_activation", "send_reset"} =>
       job[r].target \in Ids

\* A request whose next steps use its copy has one.
HasCopy(r) ==
  \/ pc[r] \in {"count_failure", "record_login", "get_current", "write_profile",
                "write_password", "write_verified", "store_link"}
  \/ pc[r] = "check_email" /\ job[r].kind \notin Creations
  \/ pc[r] = "drop_links" /\ job[r].kind # "delete"

CopyRead(r) == HasCopy(r) => row[r].id \in Ids

\* A link, once stored, belongs to a user; a request that looks its user up has found it.
LinkStored(r) ==
  /\ links[r].st # "none" => /\ links[r].user \in Ids
                             /\ pc[r] = "ok" /\ job[r].kind \in LinkSenders
  /\ pc[r] = "get_link_user" => links[job[r].target].st # "none"

\* A user has its own id; a registered user was inserted by its request.
OwnId(u) == users[u].st # "none" => users[u].id = u

Inserted(r) == users[r].st # "none" => /\ job[r].kind \in Creations
                                       /\ pc[r] \notin {"idle", "check_email", "insert"}

JobInv == \A r \in Requests : JobAtStep(r) /\ Target(r)
CopyInv == \A r \in Requests : CopyRead(r)
LinkInv == \A r \in Requests : LinkStored(r)
UserInv == (\A u \in Ids : OwnId(u)) /\ (\A r \in Requests : Inserted(r))

Typed == TypeOK /\ JobInv /\ CopyInv /\ LinkInv /\ UserInv

--------------------------------------------------------------------------------
\* What a copy keeps when only its lockout, its verification or its row change.
Kept(x, y) == y.id = x.id /\ y.email = x.email /\ y.enabled = x.enabled /\ y.stamp = x.stamp

\* A copy with another failure counter.
LEMMA UserWithFailed ==
  ASSUME NEW x \in User, NEW n \in Nat
  PROVE  [x EXCEPT !.failed = n] \in User /\ Kept(x, [x EXCEPT !.failed = n])
BY DEF User, Kept

\* A copy with another failure counter and end of the lockout.
LEMMA UserWithLockout ==
  ASSUME NEW x \in User, NEW n \in Nat, NEW m \in Nat
  PROVE  /\ [x EXCEPT !.failed = n, !.locked = m] \in User
         /\ Kept(x, [x EXCEPT !.failed = n, !.locked = m])
BY DEF User, Kept

\* A copy that is verified or not.
LEMMA UserWithVerified ==
  ASSUME NEW x \in User, NEW v \in BOOLEAN
  PROVE  [x EXCEPT !.verified = v] \in User /\ Kept(x, [x EXCEPT !.verified = v])
BY DEF User, Kept

\* A row that is deleted keeps its columns.
LEMMA UserWithSt ==
  ASSUME NEW x \in User, NEW s \in {"none", "stored", "gone"}
  PROVE  [x EXCEPT !.st = s] \in User /\ Kept(x, [x EXCEPT !.st = s])
BY DEF User, Kept

\* A row that was never stored.
LEMMA NoUserType == NoUser \in User /\ NoUser.st = "none" /\ NoUser.id = None /\ NoUser.stamp = None
BY DEF NoUser, User

\* The row of a new user: its stamp is its own id.
LEMMA NewUserType ==
  ASSUME NEW id \in Ids, NEW e \in Emails \cup {None}, NEW p \in Passwords \cup {None},
         NEW v \in BOOLEAN, NEW n \in BOOLEAN
  PROVE  /\ NewUser(id, e, p, v, n) \in User
         /\ NewUser(id, e, p, v, n).id = id
         /\ NewUser(id, e, p, v, n).st = "stored"
         /\ NewUser(id, e, p, v, n).email = e
         /\ NewUser(id, e, p, v, n).stamp = id
<1> DEFINE x == NewUser(id, e, p, v, n)
<1>1. x = [NoUser EXCEPT !.st = "stored", !.id = id, !.email = e, !.password = p,
                         !.verified = v, !.enabled = n, !.stamp = id]
  BY DEF NewUser
<1> HIDE DEF x
<1>2. x \in User
  BY <1>1, NoUserType DEF User
<1>3. x.id = id /\ x.st = "stored" /\ x.email = e /\ x.stamp = id
  BY <1>1, NoUserType DEF User
<1>4. QED  BY <1>2, <1>3 DEF x

\* The row that a creation inserts.
Created(r) == NewUser(r, job[r].email, job[r].password, job[r].verified, job[r].enabled)

\* It is a user with the id and the stamp of its request.
LEMMA CreatedType ==
  ASSUME Typed, NEW r \in Requests
  PROVE  /\ r \in Ids /\ Created(r) \in User
         /\ Created(r).id = r /\ Created(r).st = "stored" /\ Created(r).stamp = r
<1>1. r \in Ids /\ job[r] \in Job
  BY DEF Typed, TypeOK, Ids
<1>2. /\ job[r].email \in Emails \cup {None} /\ job[r].password \in Passwords \cup {None}
      /\ job[r].verified \in BOOLEAN /\ job[r].enabled \in BOOLEAN
  BY <1>1 DEF Job
<1>3. \A v, n \in BOOLEAN :
        LET new == NewUser(r, job[r].email, job[r].password, v, n)
        IN  new \in User /\ new.id = r /\ new.st = "stored" /\ new.stamp = r
  BY <1>1, <1>2, NewUserType
<1>4. QED  BY <1>1, <1>2, <1>3, Zenon DEF Created

\* The invariant holds before the first request.
LEMMA TypingInit == Init => Typed
<1> SUFFICES ASSUME Init PROVE Typed
  OBVIOUS
<1> USE AccountsAssumption
<1>1. \A u \in Ids : users[u] \in User /\ OwnId(u)
  <2>1. ASSUME NEW u \in Existing
        PROVE  users[u] \in User /\ users[u].id = u
    <3> DEFINE v == TRUE
    <3>1. users[u] = NewUser(u, SeedEmail[u], SeedPassword[u], v, v)
      BY DEF Init, Ids
    <3>2. /\ u \in Ids /\ v \in BOOLEAN
          /\ SeedEmail[u] \in Emails \cup {None} /\ SeedPassword[u] \in Passwords \cup {None}
      BY DEF Ids
    <3> HIDE DEF v
    <3>3. NewUser(u, SeedEmail[u], SeedPassword[u], v, v) \in User
      BY <3>2, NewUserType
    <3>4. NewUser(u, SeedEmail[u], SeedPassword[u], v, v).id = u
      BY <3>2, NewUserType
    <3>5. QED  BY <3>1, <3>3, <3>4
  <2>2. ASSUME NEW u \in Ids, u \notin Existing
        PROVE  users[u] \in User /\ users[u].st = "none"
    BY <2>2, NoUserType DEF Init
  <2>3. QED  BY <2>1, <2>2 DEF OwnId
<1>2. \A r \in Requests : users[r].st = "none"
  BY NoUserType DEF Init, Ids
<1>3. users \in [Ids -> User]
  BY <1>1 DEF Init
<1>4. TypeOK
  BY <1>3, NoUserType DEF Init, TypeOK, NoLink, Link, NoSession, Session, NoJob, Job
<1>5. JobInv
  BY DEF Init, JobInv, JobAtStep, Target, NoJob, LinkUsers, LinkSenders, Creations, Profile
<1>6. CopyInv /\ LinkInv
  BY DEF Init, CopyInv, CopyRead, HasCopy, LinkInv, LinkStored, NoLink
<1>7. UserInv
  BY <1>1, <1>2 DEF UserInv, Inserted
<1>8. QED  BY <1>4, <1>5, <1>6, <1>7 DEF Typed

\* A request that is accepted.
LEMMA TypingAccept ==
  ASSUME Typed, NEW r \in Requests, NEW j \in Job, NEW l \in Steps, Accept(r, j, l),
         Target(r)', JobAtStep(r)', ~HasCopy(r)', l # "get_link_user"
  PROVE  Typed'
<1> USE DEF Typed
<1>1. TypeOK'
  BY DEF TypeOK, Accept, Goto, history, locals, Working
<1>2. JobInv'
  BY DEF TypeOK, JobInv, JobAtStep, Target, Accept, Goto
<1>3. CopyInv'
  BY DEF TypeOK, CopyInv, CopyRead, HasCopy, Accept, Goto, locals
<1>4. LinkInv'
  BY DEF TypeOK, LinkInv, LinkStored, Accept, Goto
<1>5. UserInv'
  BY DEF TypeOK, UserInv, OwnId, Inserted, Accept, Goto
<1>6. QED  BY <1>1, <1>2, <1>3, <1>4, <1>5

\* A copy that is written back.
LEMMA TypingWrite ==
  ASSUME Typed, NEW r \in Requests, NEW new \in User, NEW l \in Steps \cup Responses,
         Write(r, new, l), row[r].id \in Ids, new.id = row[r].id
  PROVE  /\ users' \in [Ids -> User]
         /\ lost' \in SUBSET Ids
         /\ ended' \in SUBSET Requests
         /\ pc' = [pc EXCEPT ![r] = l] \/ pc' = [pc EXCEPT ![r] = "error"]
         /\ (\A u \in Ids : OwnId(u))'
         /\ \A u \in Ids : users[u].st = "none" => users'[u].st = "none"
<1>1. CASE Updatable(row[r].id, new.email)
  BY <1>1 DEF Typed, TypeOK, UserInv, OwnId, Write, Goto, Updatable, EndsSessions
<1>2. CASE ~Updatable(row[r].id, new.email)
  BY <1>2 DEF Typed, TypeOK, UserInv, OwnId, Write, Goto
<1>3. QED  BY <1>1, <1>2

\* The input that no request has yet.
LEMMA NoJobType == NoJob \in Job
BY DEF NoJob, Job

\* An accepted input whose target suits its kind, at a first step that suits it too.
LEMMA TypingAcceptJob ==
  ASSUME Typed, NEW r \in Requests, NEW j \in Job,
         NEW l \in {"check_email", "find", "get_user", "delete", "find_mailbox", "get_link"},
         Accept(r, j, l),
         l = "check_email" => j.kind \in Creations,
         l = "find" => j.kind = "login",
         l = "get_user" => j.kind \in Profile \cup {"set_password", "send_activation", "send_reset"},
         l = "delete" => j.kind = "delete",
         l = "find_mailbox" => j.kind \in {"resend", "forgot"},
         l = "get_link" => j.kind \in LinkUsers,
         j.kind \in LinkUsers => j.target \in Requests /\ links[j.target].st # "none",
         j.kind \in Profile \cup {"set_password", "delete", "send_activation", "send_reset"} =>
           j.target \in Ids
  PROVE  Typed'
<1>1. job'[r] = j /\ pc'[r] = l /\ links' = links
  BY DEF Accept, Goto, Typed, TypeOK
<1>2. Target(r)'
  BY <1>1 DEF Target
<1>3. JobAtStep(r)'
  BY <1>1 DEF JobAtStep, LinkUsers, LinkSenders, Creations, Profile
<1>4. ~HasCopy(r)'
  BY <1>1 DEF HasCopy
<1>5. l \in Steps /\ l # "get_link_user"
  BY DEF Steps
<1>6. QED  BY <1>2, <1>3, <1>4, <1>5, TypingAccept

\* Whatever is accepted names what its kind of input allows.
LEMMA TypingArrive ==
  ASSUME Typed, NEW r \in Requests, Arrive(r)
  PROVE  Typed'
<1>1. ASSUME NEW e \in Emails, NEW p \in Passwords,
             AcceptRegister(r, e, p)
      PROVE  Typed'
  <2> DEFINE j == [NoJob EXCEPT !.kind = "register", !.email = e, !.password = p,
                                !.verified = ~RequireActivation, !.enabled = TRUE]
  <2>1. j \in Job /\ j.kind = "register" /\ j.target = None
    BY NoJobType DEF Job, NoJob, AllKinds, LinkUsers, LinkSenders, Creations, Profile
  <2>2. Accept(r, j, "check_email")
    BY <1>1 DEF AcceptRegister
  <2> HIDE DEF j
  <2>3. QED  BY <2>1, <2>2, TypingAcceptJob DEF LinkUsers, LinkSenders, Creations, Profile
<1>2. ASSUME NEW e \in Emails, NEW p \in Passwords,
             AcceptLogin(r, e, p)
      PROVE  Typed'
  <2> DEFINE j == [NoJob EXCEPT !.kind = "login", !.email = e, !.password = p]
  <2>1. j \in Job /\ j.kind = "login" /\ j.target = None
    BY NoJobType DEF Job, NoJob, AllKinds, LinkUsers, LinkSenders, Creations, Profile
  <2>2. Accept(r, j, "find")
    BY <1>2 DEF AcceptLogin
  <2> HIDE DEF j
  <2>3. QED  BY <2>1, <2>2, TypingAcceptJob DEF LinkUsers, LinkSenders, Creations, Profile
<1>3. ASSUME NEW u \in Ids, NEW p \in Passwords,
             AcceptSetPassword(r, u, p)
      PROVE  Typed'
  <2> DEFINE j == [NoJob EXCEPT !.kind = "set_password", !.target = u, !.password = p]
  <2>1. j \in Job /\ j.kind = "set_password" /\ j.target = u
    BY NoJobType DEF Job, AllKinds, LinkUsers, LinkSenders, Creations, Profile
  <2>2. Accept(r, j, "get_user")
    BY <1>3 DEF AcceptSetPassword
  <2> HIDE DEF j
  <2>3. QED  BY <2>1, <2>2, TypingAcceptJob DEF LinkUsers, LinkSenders, Creations, Profile
<1>4. ASSUME NEW u \in Ids, NEW e \in Emails, NEW v \in BOOLEAN, NEW n \in BOOLEAN,
             AcceptUpdate(r, u, e, v, n)
      PROVE  Typed'
  <2> DEFINE j == [NoJob EXCEPT !.kind = "update", !.target = u, !.email = e, !.verified = v,
                              !.enabled = n]
  <2>1. j \in Job /\ j.kind = "update" /\ j.target = u
    BY NoJobType DEF Job, AllKinds, LinkUsers, LinkSenders, Creations, Profile
  <2>2. Accept(r, j, "get_user")
    BY <1>4 DEF AcceptUpdate
  <2> HIDE DEF j
  <2>3. QED  BY <2>1, <2>2, TypingAcceptJob DEF LinkUsers, LinkSenders, Creations, Profile
<1>5. ASSUME NEW u \in Ids,
             AcceptUnlock(r, u)
      PROVE  Typed'
  <2> DEFINE j == [NoJob EXCEPT !.kind = "unlock", !.target = u]
  <2>1. j \in Job /\ j.kind = "unlock" /\ j.target = u
    BY NoJobType DEF Job, AllKinds, LinkUsers, LinkSenders, Creations, Profile
  <2>2. Accept(r, j, "get_user")
    BY <1>5 DEF AcceptUnlock
  <2> HIDE DEF j
  <2>3. QED  BY <2>1, <2>2, TypingAcceptJob DEF LinkUsers, LinkSenders, Creations, Profile
<1>6. ASSUME NEW u \in Ids,
             AcceptDelete(r, u)
      PROVE  Typed'
  <2> DEFINE j == [NoJob EXCEPT !.kind = "delete", !.target = u]
  <2>1. j \in Job /\ j.kind = "delete" /\ j.target = u
    BY NoJobType DEF Job, AllKinds, LinkUsers, LinkSenders, Creations, Profile
  <2>2. Accept(r, j, "delete")
    BY <1>6 DEF AcceptDelete
  <2> HIDE DEF j
  <2>3. QED  BY <2>1, <2>2, TypingAcceptJob DEF LinkUsers, LinkSenders, Creations, Profile
<1>7. ASSUME NEW kind \in {"resend", "forgot"}, NEW e \in Emails,
             AcceptSend(r, kind, e)
      PROVE  Typed'
  <2> DEFINE j == [NoJob EXCEPT !.kind = kind, !.email = e]
  <2>1. j \in Job /\ j.kind = kind /\ j.target = None
    BY NoJobType DEF Job, NoJob, AllKinds, LinkUsers, LinkSenders, Creations, Profile
  <2>2. Accept(r, j, "find_mailbox")
    BY <1>7 DEF AcceptSend
  <2> HIDE DEF j
  <2>3. QED  BY <2>1, <2>2, TypingAcceptJob DEF LinkUsers, LinkSenders, Creations, Profile
<1>8. ASSUME NEW l \in Requests,
             AcceptActivate(r, l)
      PROVE  Typed'
  <2> DEFINE j == [NoJob EXCEPT !.kind = "activate", !.target = l]
  <2>1. j \in Job /\ j.kind = "activate" /\ j.target = l
    BY NoJobType DEF Job, Ids, AllKinds, LinkUsers, LinkSenders, Creations, Profile
  <2>2. Accept(r, j, "get_link") /\ links[l].st # "none"
    BY <1>8 DEF AcceptActivate
  <2> HIDE DEF j
  <2>3. QED  BY <2>1, <2>2, TypingAcceptJob DEF LinkUsers, LinkSenders, Creations, Profile
<1>9. ASSUME NEW l \in Requests, NEW p \in Passwords,
             AcceptReset(r, l, p)
      PROVE  Typed'
  <2> DEFINE j == [NoJob EXCEPT !.kind = "reset", !.target = l, !.password = p]
  <2>1. j \in Job /\ j.kind = "reset" /\ j.target = l
    BY NoJobType DEF Job, Ids, AllKinds, LinkUsers, LinkSenders, Creations, Profile
  <2>2. Accept(r, j, "get_link") /\ links[l].st # "none"
    BY <1>9 DEF AcceptReset
  <2> HIDE DEF j
  <2>3. QED  BY <2>1, <2>2, TypingAcceptJob DEF LinkUsers, LinkSenders, Creations, Profile
<1>10. ASSUME NEW kind \in {"create", "invite"}, NEW e \in Emails, NEW new \in NewAccounts,
              AcceptCreate(r, kind, e, new[1], new[2], new[3])
       PROVE  Typed'
  <2> DEFINE j == [NoJob EXCEPT !.kind = kind, !.email = e, !.password = new[1],
                                !.verified = new[2], !.enabled = new[3]]
  <2>1. new[1] \in Passwords \cup {None} /\ new[2] \in BOOLEAN /\ new[3] \in BOOLEAN
    BY AccountsAssumption
  <2>2. j \in Job /\ j.kind = kind
    BY <2>1, NoJobType DEF Job, NoJob, AllKinds, Creations
  <2>3. Accept(r, j, "check_email")
    BY <1>10 DEF AcceptCreate
  <2> HIDE DEF j
  <2>4. QED  BY <2>2, <2>3, TypingAcceptJob DEF LinkUsers, Creations, Profile
<1>11. ASSUME NEW kind \in {"send_activation", "send_reset"}, NEW u \in Ids,
              AcceptSendById(r, kind, u)
       PROVE  Typed'
  <2> DEFINE j == [NoJob EXCEPT !.kind = kind, !.target = u]
  <2>1. j \in Job /\ j.kind = kind /\ j.target = u
    BY NoJobType DEF Job, AllKinds, LinkSenders
  <2>2. Accept(r, j, "get_user")
    BY <1>11 DEF AcceptSendById
  <2> HIDE DEF j
  <2>3. QED  BY <2>1, <2>2, TypingAcceptJob DEF LinkUsers, Profile
<1>12. QED
  BY <1>1, <1>2, <1>3, <1>4, <1>5, <1>6, <1>7, <1>8, <1>9, <1>10, <1>11 DEF Arrive

\* Any other step of a request keeps its input and leaves the others alone.
LEMMA TypingStep ==
  ASSUME Typed, TypeOK', job' = job, NEW r \in Requests,
         \A q \in Requests \ {r} : pc'[q] = pc[q] /\ row'[q] = row[q],
         \A q \in Requests \ {r} : links'[q].st = "none" <=> links[q].st = "none",
         \A q \in Requests : links[q].st # "none" => /\ links'[q].st # "none"
                                                 /\ links'[q].user = links[q].user,
         \A q \in Requests \ {r} : users[q].st = "none" => users'[q].st = "none",
         \A u \in Ids : OwnId(u)',
         JobAtStep(r)', CopyRead(r)', LinkStored(r)', Inserted(r)'
  PROVE  Typed'
<1> USE DEF Typed
<1>1. JobInv'
  BY DEF JobInv, JobAtStep, Target
<1>2. CopyInv'
  BY DEF CopyInv, CopyRead, HasCopy
<1>3. LinkInv'
  BY DEF LinkInv, LinkStored, JobInv, JobAtStep, Target, TypeOK
<1>4. UserInv'
  BY DEF UserInv, Inserted
<1>5. QED  BY <1>1, <1>2, <1>3, <1>4

\* A step that only reads, and may keep a copy of the row it has read.
LEMMA TypingLook ==
  ASSUME Typed, NEW r \in Requests, NEW l \in Steps \cup Responses, NEW x \in User,
         UNCHANGED <<now, users, links, sessions, job, lost, ended, out>>,
         pc[r] \in Steps, pc' = [pc EXCEPT ![r] = l],
         row' = row \/ row' = [row EXCEPT ![r] = x],
         cur' \in [Requests -> User], at' \in [Requests -> Nat],
         JobAtStep(r)', CopyRead(r)',
         l = "get_link_user" => links[job[r].target].st # "none",
         l \in {"check_email", "insert"} => users[r].st = "none"
  PROVE  Typed'
<1>1. TypeOK'
  <2>1. row' \in [Requests -> User]
    BY DEF Typed, TypeOK
  <2>2. pc' \in [Requests -> {"idle"} \cup Steps \cup Responses]
    BY DEF Typed, TypeOK
  <2>3. QED  BY <2>1, <2>2 DEF Typed, TypeOK
<1>2. pc'[r] = l /\ \A q \in Requests \ {r} : pc'[q] = pc[q] /\ row'[q] = row[q]
  BY DEF Typed, TypeOK
<1>3. pc[r] \notin {"idle", "ok"} /\ l # "idle"
  BY DEF Steps, Responses
<1>4. links[r].st = "none"
  BY <1>3 DEF Typed, LinkInv, LinkStored
<1>5. LinkStored(r)'
  BY <1>2, <1>4 DEF LinkStored
<1>6. Inserted(r)'
  BY <1>2, <1>3 DEF Typed, UserInv, Inserted
<1>7. \A u \in Ids : OwnId(u)'
  BY DEF Typed, UserInv, OwnId
<1>8. \A q \in Requests : links[q].st # "none" => links'[q].st # "none" /\ links'[q].user = links[q].user
  OBVIOUS
<1>9. QED  BY <1>1, <1>2, <1>5, <1>6, <1>7, <1>8, TypingStep

\* CheckEmail reads the users.
LEMMA TypingCheckEmail ==
  ASSUME Typed, NEW r \in Requests, CheckEmail(r)
  PROVE  Typed'
<1>1. /\ pc[r] = "check_email" /\ pc[r] \in Steps
      /\ UNCHANGED <<now, users, links, sessions, job, row, cur, at, lost, ended, out>>
  BY DEF CheckEmail, locals, history, Steps
<1>2. PICK l \in {"refused", "insert", "write_profile"} :
         /\ pc' = [pc EXCEPT ![r] = l]
         /\ l = "insert" => job[r].kind \in Creations
         /\ l = "write_profile" => job[r].kind \notin Creations
  BY DEF CheckEmail, Goto
<1>3. pc'[r] = l /\ l \in Steps \cup Responses
  BY <1>2 DEF Typed, TypeOK, Steps, Responses
<1>4. job[r].kind \in Profile \cup Creations /\ users[r].st = "none"
  BY <1>1 DEF Typed, JobInv, JobAtStep, UserInv, Inserted, Profile
<1>5. JobAtStep(r)'
  BY <1>1, <1>2, <1>3, <1>4 DEF JobAtStep, Profile
<1>6. CopyRead(r)'
  BY <1>1, <1>2, <1>3 DEF Typed, CopyInv, CopyRead, HasCopy
<1>7. row[r] \in User /\ cur \in [Requests -> User] /\ at \in [Requests -> Nat]
  BY DEF Typed, TypeOK
<1>8. QED  BY <1>1, <1>2, <1>3, <1>4, <1>5, <1>6, <1>7, TypingLook

\* A step that finds a user and keeps the copy, or finds none and answers.
LEMMA TypingFound ==
  ASSUME Typed, NEW r \in Requests, NEW u \in Ids, NEW l \in Steps \cup Responses,
         users[u].st = "stored",
         UNCHANGED <<now, users, links, sessions, job, lost, ended, out>>,
         pc[r] \in Steps, pc' = [pc EXCEPT ![r] = l], row' = [row EXCEPT ![r] = users[u]],
         cur' = cur, at' \in [Requests -> Nat],
         JobAtStep(r)', l \notin {"get_link_user", "check_email", "insert"}
  PROVE  Typed'
<1>1. users[u] \in User /\ cur \in [Requests -> User]
  BY DEF Typed, TypeOK
<1>2. row'[r].id \in Ids
  BY DEF Typed, TypeOK, UserInv, OwnId
<1>3. QED  BY <1>1, <1>2, TypingLook DEF CopyRead

\* A step that answers without anything kept.
LEMMA TypingAnswer ==
  ASSUME Typed, NEW r \in Requests, NEW l \in Responses,
         UNCHANGED <<now, users, links, sessions, job, row, cur, at, lost, ended, out>>,
         pc[r] \in Steps, pc' = [pc EXCEPT ![r] = l]
  PROVE  Typed'
<1>1. row[r] \in User /\ cur \in [Requests -> User] /\ at \in [Requests -> Nat] /\ pc'[r] = l
  BY DEF Typed, TypeOK
<1>2. pc'[r] \in {"ok", "refused", "error"}
  BY <1>1 DEF Responses
<1>3. JobAtStep(r)' /\ CopyRead(r)'
  BY <1>2 DEF JobAtStep, CopyRead, HasCopy
<1>4. l \notin {"get_link_user", "check_email", "insert"}
  BY DEF Responses
<1>5. QED  BY <1>1, <1>3, <1>4, TypingLook

\* StoreLink stores the only link of its request.
LEMMA TypingStoreLink ==
  ASSUME Typed, NEW r \in Requests, StoreLink(r)
  PROVE  Typed'
<1>1. /\ pc[r] = "store_link" /\ pc' = [pc EXCEPT ![r] = "ok"]
      /\ UNCHANGED <<now, users, sessions, job, row, cur, at, lost, ended, out>>
  BY DEF StoreLink, Goto, locals, history
<1> DEFINE link == [st |-> "live", user |-> row[r].id, purpose |-> PurposeOf(r),
                    email |-> row[r].email, exp |-> now + LinkLifetime]
<1>2. links' = [links EXCEPT ![r] = link]
  BY DEF StoreLink
<1>3. links[r].st = "none" /\ job[r].kind \in LinkSenders /\ row[r].id \in Ids
  BY <1>1 DEF Typed, LinkInv, LinkStored, JobInv, JobAtStep, CopyInv, CopyRead, HasCopy
<1>4. link \in Link /\ link.st = "live" /\ link.user \in Ids
  <2>1. row[r].email \in Emails \cup {None} /\ now + LinkLifetime \in Nat
    BY AccountsAssumption DEF Typed, TypeOK, User
  <2>2. PurposeOf(r) \in {"activation", "password_reset"}
    BY DEF PurposeOf
  <2>3. QED  BY <1>3, <2>1, <2>2 DEF Link
<1> HIDE DEF link
<1>5. pc'[r] = "ok" /\ links'[r] = link /\ \A q \in Requests \ {r} : pc'[q] = pc[q] /\ links'[q] = links[q]
  BY <1>1, <1>2 DEF Typed, TypeOK
<1>6. TypeOK'
  <2>1. links' \in [Requests -> Link]
    BY <1>2, <1>4 DEF Typed, TypeOK
  <2>2. pc' \in [Requests -> {"idle"} \cup Steps \cup Responses]
    BY <1>1 DEF Typed, TypeOK, Responses
  <2>3. QED  BY <1>1, <2>1, <2>2 DEF Typed, TypeOK
<1>7. JobAtStep(r)' /\ CopyRead(r)'
  BY <1>5 DEF JobAtStep, CopyRead, HasCopy
<1>8. LinkStored(r)'
  BY <1>1, <1>3, <1>4, <1>5 DEF LinkStored
<1>9. Inserted(r)'
  BY <1>1, <1>5 DEF Typed, UserInv, Inserted
<1>10. \A u \in Ids : OwnId(u)'
  BY <1>1 DEF Typed, UserInv, OwnId
<1>11. \A q \in Requests : links[q].st # "none" => links'[q].st # "none" /\ links'[q].user = links[q].user
  BY <1>3, <1>5
<1>12. QED  BY <1>1, <1>5, <1>6, <1>7, <1>8, <1>9, <1>10, <1>11, TypingStep

\* The steps that read, and the one that stores a link.
LEMMA TypingRead ==
  ASSUME Typed, NEW r \in Requests,
         \/ CheckEmail(r) \/ Find(r) \/ GetUser(r) \/ GetCurrent(r) \/ FindMailbox(r)
         \/ StoreLink(r) \/ GetLink(r) \/ GetLinkUser(r)
  PROVE  Typed'
<1>1. CASE Find(r)
  <2>1. /\ pc[r] = "find" /\ pc[r] \in Steps
        /\ UNCHANGED <<now, users, links, sessions, job, cur, lost, ended, out>>
    BY <1>1 DEF Find, history, Steps
  <2>2. ASSUME NEW u \in Stored,
               row' = [row EXCEPT ![r] = users[u]], at' = [at EXCEPT ![r] = now],
               Goto(r, LoginVerdict(users[u], job[r].password, now))
        PROVE  Typed'
    <3>1. PICK l \in {"refused", "count_failure", "record_login"} : pc' = [pc EXCEPT ![r] = l]
      BY <2>2 DEF Goto, LoginVerdict
    <3>2. u \in Ids /\ users[u].st = "stored" /\ l \in Steps \cup Responses
      BY DEF Stored, Steps, Responses
    <3>3. at' \in [Requests -> Nat] /\ pc'[r] = l
      BY <2>2, <3>1 DEF Typed, TypeOK
    <3>4. JobAtStep(r)'
      BY <2>1, <3>3 DEF Typed, JobInv, JobAtStep
    <3>5. QED  BY <2>1, <2>2, <3>1, <3>2, <3>3, <3>4, TypingFound
  <2>3. ASSUME pc' = [pc EXCEPT ![r] = "refused"], UNCHANGED <<row, at>>
        PROVE  Typed'
    BY <2>1, <2>3, TypingAnswer DEF Responses
  <2>4. QED  BY <1>1, <2>2, <2>3 DEF Find, Goto
<1>2. CASE GetUser(r)
  <2>1. /\ pc[r] = "get_user" /\ pc[r] \in Steps
        /\ UNCHANGED <<now, users, links, sessions, job, cur, at, lost, ended, out>>
    BY <1>2 DEF GetUser, history, Steps
  <2>2. /\ job[r].kind \in Profile \cup {"set_password", "send_activation", "send_reset"}
        /\ job[r].target \in Ids
    BY <2>1 DEF Typed, JobInv, JobAtStep, Target, Profile
  <2>3. ASSUME users[job[r].target].st = "stored", row' = [row EXCEPT ![r] = users[job[r].target]],
               Goto(r, AfterGetUser(job[r].kind, users[job[r].target]))
        PROVE  Typed'
    <3>1. PICK l \in {"write_password", "get_current", "refused", "drop_links", "find_mailbox"} :
             /\ pc' = [pc EXCEPT ![r] = l]
             /\ l = "write_password" => job[r].kind = "set_password"
             /\ l = "get_current" => job[r].kind \in Profile
             /\ l = "drop_links" => job[r].kind = "send_activation"
             /\ l = "find_mailbox" => job[r].kind = "send_reset"
      BY <2>2, <2>3 DEF Goto, AfterGetUser, Profile
    <3>2. l \in Steps \cup Responses /\ pc'[r] = l /\ at' \in [Requests -> Nat]
      BY <2>1, <3>1 DEF Typed, TypeOK, Steps, Responses
    <3>3. JobAtStep(r)'
      BY <2>1, <2>2, <3>1, <3>2 DEF JobAtStep, LinkUsers, LinkSenders, Creations, Profile
    <3>4. QED  BY <2>1, <2>2, <2>3, <3>1, <3>2, <3>3, TypingFound
  <2>4. ASSUME pc' = [pc EXCEPT ![r] = "refused"], UNCHANGED row
        PROVE  Typed'
    BY <2>1, <2>4, TypingAnswer DEF Responses
  <2>5. QED  BY <1>2, <2>3, <2>4 DEF GetUser, Goto
<1>3. CASE GetCurrent(r)
  <2>1. /\ pc[r] = "get_current" /\ pc[r] \in Steps
        /\ UNCHANGED <<now, users, links, sessions, job, row, at, lost, ended, out>>
    BY <1>3 DEF GetCurrent, history, Steps
  <2>2. job[r].kind \in {"update", "unlock"} /\ job[r].target \in Ids /\ row[r].id \in Ids
    BY <2>1 DEF Typed, JobInv, JobAtStep, Target, CopyInv, CopyRead, HasCopy, Profile
  <2>3. ASSUME cur' = [cur EXCEPT ![r] = users[job[r].target]], pc' = [pc EXCEPT ![r] = "check_email"]
        PROVE  Typed'
    <3>1. users[r].st = "none"
      BY <2>2 DEF Typed, UserInv, Inserted, Creations
    <3>2. cur' \in [Requests -> User] /\ at' \in [Requests -> Nat] /\ row[r] \in User
      BY <2>1, <2>2, <2>3 DEF Typed, TypeOK
    <3>3. pc'[r] = "check_email" /\ "check_email" \in Steps
      BY <2>3 DEF Typed, TypeOK, Steps
    <3>4. JobAtStep(r)' /\ CopyRead(r)'
      BY <2>1, <2>2, <3>3 DEF JobAtStep, CopyRead, Profile
    <3>5. QED  BY <2>1, <2>3, <3>1, <3>2, <3>3, <3>4, TypingLook
  <2>4. ASSUME pc' = [pc EXCEPT ![r] = "refused"], UNCHANGED cur
        PROVE  Typed'
    BY <2>1, <2>4, TypingAnswer DEF Responses
  <2>5. QED  BY <1>3, <2>3, <2>4 DEF GetCurrent, Goto
<1>4. CASE FindMailbox(r)
  <2>1. /\ pc[r] = "find_mailbox" /\ pc[r] \in Steps
        /\ UNCHANGED <<now, users, links, sessions, job, cur, at, lost, ended, out>>
    BY <1>4 DEF FindMailbox, history, Steps
  <2>2. job[r].kind \in {"resend", "forgot", "send_reset"}
    BY <2>1 DEF Typed, JobInv, JobAtStep
  <2>3. ASSUME NEW u \in Stored, NEW l \in {"drop_links", "ok"},
               row' = [row EXCEPT ![r] = users[u]], pc' = [pc EXCEPT ![r] = l]
        PROVE  Typed'
    <3>1. u \in Ids /\ users[u].st = "stored" /\ l \in Steps \cup Responses
      BY DEF Stored, Steps, Responses
    <3>2. pc'[r] = l /\ at' \in [Requests -> Nat]
      BY <2>1, <2>3 DEF Typed, TypeOK
    <3>3. JobAtStep(r)'
      BY <2>1, <2>2, <3>2 DEF JobAtStep, LinkSenders
    <3>4. QED  BY <2>1, <2>3, <3>1, <3>2, <3>3, TypingFound
  <2>4. ASSUME pc' = [pc EXCEPT ![r] = "ok"], UNCHANGED row
        PROVE  Typed'
    BY <2>1, <2>4, TypingAnswer DEF Responses
  <2>5. QED  BY <1>4, <2>3, <2>4 DEF FindMailbox, Goto
<1>5. CASE StoreLink(r)
  BY <1>5, TypingStoreLink
<1>6. CASE GetLink(r)
  <2>1. /\ pc[r] = "get_link" /\ pc[r] \in Steps
        /\ UNCHANGED <<now, users, links, sessions, job, row, cur, at, lost, ended, out>>
    BY <1>6 DEF GetLink, locals, history, Steps
  <2>2. CASE /\ pc' = [pc EXCEPT ![r] = "get_link_user"]
             /\ links[job[r].target].st = "live"
    <3>1. pc'[r] = "get_link_user" /\ "get_link_user" \in Steps
      BY <2>2 DEF Typed, TypeOK, Steps
    <3>2. JobAtStep(r)' /\ CopyRead(r)'
      BY <2>1, <3>1 DEF Typed, JobInv, JobAtStep, CopyRead, HasCopy
    <3>3. cur \in [Requests -> User] /\ at \in [Requests -> Nat] /\ row[r] \in User
      BY DEF Typed, TypeOK
    <3>4. QED  BY <2>1, <2>2, <3>1, <3>2, <3>3, TypingLook
  <2>3. CASE pc' = [pc EXCEPT ![r] = "refused"]
    BY <2>1, <2>3, TypingAnswer DEF Responses
  <2>4. QED  BY <1>6, <2>2, <2>3 DEF GetLink, Goto
<1>7. CASE GetLinkUser(r)
  <2>1. /\ pc[r] = "get_link_user" /\ pc[r] \in Steps
        /\ UNCHANGED <<now, users, links, sessions, job, cur, at, lost, ended, out>>
    BY <1>7 DEF GetLinkUser, history, Steps
  <2> DEFINE u == links[job[r].target].user
  <2>2. job[r].target \in Requests /\ job[r].kind \in {"activate", "reset"} /\ u \in Ids
    BY <2>1 DEF Typed, JobInv, JobAtStep, Target, LinkInv, LinkStored, LinkUsers
  <2>3. ASSUME users[u].st = "stored", row' = [row EXCEPT ![r] = users[u]],
               Goto(r, IF job[r].kind = "reset" THEN "write_password" ELSE "write_verified")
        PROVE  Typed'
    <3>1. PICK l \in {"write_password", "write_verified"} :
             /\ pc' = [pc EXCEPT ![r] = l]
             /\ l = "write_password" <=> job[r].kind = "reset"
      BY <2>3 DEF Goto
    <3>2. l \in Steps \cup Responses /\ pc'[r] = l /\ at' \in [Requests -> Nat]
      BY <2>1, <3>1 DEF Typed, TypeOK, Steps, Responses
    <3>3. JobAtStep(r)'
      BY <2>1, <2>2, <3>1, <3>2 DEF JobAtStep, LinkUsers, LinkSenders
    <3> HIDE DEF u
    <3>4. QED  BY <2>1, <2>2, <2>3, <3>1, <3>2, <3>3, TypingFound
  <2>4. ASSUME pc' = [pc EXCEPT ![r] = "refused"], UNCHANGED row
        PROVE  Typed'
    BY <2>1, <2>4, TypingAnswer DEF Responses
  <2>5. QED  BY <1>7, <2>3, <2>4 DEF GetLinkUser, Goto
<1>8. QED
  BY <1>1, <1>2, <1>3, <1>4, <1>5, <1>6, <1>7, TypingCheckEmail

\* Links that are deleted keep their type and their user.
LEMMA DropKeeps ==
  ASSUME links \in [Requests -> Link], NEW ids, Drop(ids)
  PROVE  /\ links' \in [Requests -> Link]
         /\ \A l \in Requests : /\ links'[l].st = "none" <=> links[l].st = "none"
                               /\ links'[l].user = links[l].user
<1>1. ASSUME NEW l \in Requests
      PROVE  /\ links'[l] \in Link
             /\ links'[l].st = "none" <=> links[l].st = "none"
             /\ links'[l].user = links[l].user
  <2>1. CASE l \in ids /\ links[l].st = "live"
    <3>1. links'[l] = [links[l] EXCEPT !.st = "gone"]
      BY <2>1 DEF Drop
    <3>2. links[l] \in Link
      OBVIOUS
    <3>3. QED  BY <2>1, <3>1, <3>2 DEF Link
  <2>2. CASE ~(l \in ids /\ links[l].st = "live")
    <3>1. links'[l] = links[l]
      BY <2>2 DEF Drop
    <3>2. QED  BY <3>1
  <2>3. QED  BY <2>1, <2>2
<1>2. QED  BY <1>1 DEF Drop

\* The steps that delete links.
LEMMA TypingDropped ==
  ASSUME Typed, NEW r \in Requests, DropActivation(r) \/ DropLinks(r) \/ DropLink(r)
  PROVE  Typed'
<1>1. /\ links' \in [Requests -> Link]
      /\ \A l \in Requests : /\ links'[l].st = "none" <=> links[l].st = "none"
                            /\ links'[l].user = links[l].user
  <2>1. PICK ids : Drop(ids)
    BY DEF DropActivation, DropLinks, DropLink
  <2>2. links \in [Requests -> Link]
    BY DEF Typed, TypeOK
  <2>3. QED  BY <2>1, <2>2, DropKeeps
<1>2. /\ job' = job /\ row' = row /\ users' = users
      /\ \/ pc[r] = "drop_activation" /\ pc' = [pc EXCEPT ![r] = "drop_links"]
         \/ pc[r] = "drop_links" /\ job[r].kind \in LinkSenders
            /\ pc' = [pc EXCEPT ![r] = "store_link"]
         \/ pc[r] \in {"drop_links", "drop_link"} /\ pc' = [pc EXCEPT ![r] = "ok"]
      /\ UNCHANGED <<now, sessions, cur, at, lost, ended, out>>
  BY DEF DropActivation, DropLinks, DropLink, Goto, locals, history
<1>3. TypeOK'
  BY <1>1, <1>2 DEF Typed, TypeOK, Steps, Responses
<1>4. JobAtStep(r)' /\ Inserted(r)'
  BY <1>2 DEF Typed, TypeOK, JobInv, JobAtStep, UserInv, Inserted, LinkSenders
<1>5. CopyRead(r)' /\ LinkStored(r)'
  BY <1>1, <1>2 DEF Typed, TypeOK, JobInv, JobAtStep, CopyInv, CopyRead, HasCopy, LinkInv,
                    LinkStored, LinkSenders
<1>6. (\A u \in Ids : OwnId(u))'
  BY <1>2 DEF Typed, UserInv, OwnId
<1>7. \A q \in Requests \ {r} : pc'[q] = pc[q] /\ row'[q] = row[q]
  BY <1>2 DEF Typed, TypeOK
<1>8. QED  BY <1>1, <1>2, <1>3, <1>4, <1>5, <1>6, <1>7, TypingStep

\* What the five steps that write a copy back have in common.
Written(r, new, l) ==
  /\ new \in User /\ new.id = row[r].id /\ row[r].id \in Ids
  /\ Write(r, new, l)
  /\ \/ l \in {"ok", "refused"}
     \/ l = "drop_links" /\ job[r].kind = "reset"
     \/ l = "drop_link" /\ job[r].kind = "activate"
  /\ pc[r] \in {"count_failure", "record_login", "write_password", "write_profile", "write_verified"}
  /\ UNCHANGED <<now, links, job, row, cur, at, out>>

\* The copies that the five steps write back.
Counted(r) == IF row[r].failed + 1 >= MaxFailedAttempts
                THEN [row[r] EXCEPT !.failed = 0, !.locked = at[r] + LockoutDuration]
                ELSE [row[r] EXCEPT !.failed = @ + 1]
Recorded(r) == [row[r] EXCEPT !.failed = 0, !.locked = 0]
Verified(r) == [row[r] EXCEPT !.verified = TRUE]
Repassworded(r) == [row[r] EXCEPT !.password = job[r].password, !.stamp = NewStamp(r),
                                  !.failed = 0, !.locked = 0,
                                  !.verified = @ \/ job[r].kind = "reset"]
Profiled(r) ==
  LET new == Edited(r)
      renew == (~new.enabled /\ cur[r].enabled) \/ new.email # cur[r].email
  IN  [new EXCEPT !.password = cur[r].password, !.stamp = IF renew THEN r ELSE @]

\* Authenticate after a wrong password writes back a copy with the same id, email and stamp.
LEMMA CountFailureWrites ==
  ASSUME Typed, NEW r \in Requests, CountFailure(r)
  PROVE  \E new \in User : /\ Written(r, new, "refused") /\ Kept(row[r], new) /\ UNCHANGED sessions
                          /\ new = Counted(r)
<1> DEFINE new == IF row[r].failed + 1 >= MaxFailedAttempts
                    THEN [row[r] EXCEPT !.failed = 0, !.locked = at[r] + LockoutDuration]
                    ELSE [row[r] EXCEPT !.failed = @ + 1]
<1>1. row[r] \in User /\ row[r].id \in Ids /\ at[r] \in Nat
  BY DEF Typed, TypeOK, CountFailure, CopyInv, CopyRead, HasCopy
<1>2. row[r].failed + 1 \in Nat /\ at[r] + LockoutDuration \in Nat /\ 0 \in Nat
  BY <1>1, AccountsAssumption DEF User
<1>3. new \in User /\ Kept(row[r], new)
  <2>1. CASE row[r].failed + 1 >= MaxFailedAttempts
    BY <1>1, <1>2, <2>1, UserWithLockout, Zenon
  <2>2. CASE ~(row[r].failed + 1 >= MaxFailedAttempts)
    BY <1>1, <1>2, <2>2, UserWithFailed, Zenon
  <2>3. QED  BY <2>1, <2>2
<1>4. Write(r, new, "refused") /\ pc[r] = "count_failure"
      /\ UNCHANGED <<now, links, job, row, cur, at, out, sessions>>
  BY DEF CountFailure, locals
<1>5. new = Counted(r)
  BY DEF Counted
<1> HIDE DEF new
<1>6. QED  BY <1>1, <1>3, <1>4, <1>5 DEF Written, Kept

\* So does Authenticate after the right one.
LEMMA RecordLoginWrites ==
  ASSUME Typed, NEW r \in Requests, RecordLogin(r)
  PROVE  \E new \in User : Written(r, new, "ok") /\ Kept(row[r], new) /\ new = Recorded(r)
<1> DEFINE new == [row[r] EXCEPT !.failed = 0, !.locked = 0]
<1>1. row[r] \in User /\ row[r].id \in Ids
  BY DEF Typed, TypeOK, RecordLogin, CopyInv, CopyRead, HasCopy
<1>2. new \in User /\ Kept(row[r], new)
  <2>1. row[r] \in User /\ 0 \in Nat
    BY <1>1
  <2>2. QED  BY <2>1, UserWithLockout, Zenon
<1>3. Write(r, new, "ok") /\ pc[r] = "record_login" /\ UNCHANGED <<now, links, job, row, cur, at, out>>
  BY DEF RecordLogin, locals
<1>4. new = Recorded(r)
  BY DEF Recorded
<1> HIDE DEF new
<1>5. QED  BY <1>1, <1>2, <1>3, <1>4 DEF Written, Kept

\* So does Activate.
LEMMA WriteVerifiedWrites ==
  ASSUME Typed, NEW r \in Requests, WriteVerified(r)
  PROVE  \E new \in User : /\ Written(r, new, "drop_link") /\ Kept(row[r], new) /\ UNCHANGED sessions
                          /\ new = Verified(r)
<1> DEFINE new == [row[r] EXCEPT !.verified = TRUE]
<1>1. row[r] \in User /\ row[r].id \in Ids /\ job[r].kind = "activate"
  BY DEF Typed, TypeOK, WriteVerified, CopyInv, CopyRead, HasCopy, JobInv, JobAtStep
<1>2. new \in User /\ Kept(row[r], new)
  BY <1>1, UserWithVerified
<1>3. Write(r, new, "drop_link") /\ pc[r] = "write_verified"
      /\ UNCHANGED <<now, links, job, row, cur, at, out, sessions>>
  BY DEF WriteVerified, locals
<1>4. new = Verified(r)
  BY DEF Verified
<1> HIDE DEF new
<1>5. QED  BY <1>1, <1>2, <1>3, <1>4 DEF Written, Kept

\* SetPassword and ResetPassword write back a copy with a new stamp.
LEMMA WritePasswordWrites ==
  ASSUME Typed, NEW r \in Requests, WritePassword(r)
  PROVE  \E new \in User : /\ Written(r, new, IF job[r].kind = "reset" THEN "drop_links" ELSE "ok")
                          /\ new.stamp = r /\ new = Repassworded(r)
                          /\ UNCHANGED sessions
<1> DEFINE v == row[r].verified \/ job[r].kind = "reset"
           new == [row[r] EXCEPT !.password = job[r].password, !.stamp = NewStamp(r),
                                 !.failed = 0, !.locked = 0, !.verified = v]
           l == IF job[r].kind = "reset" THEN "drop_links" ELSE "ok"
<1>1. row[r] \in User /\ row[r].id \in Ids /\ job[r] \in Job
  BY DEF Typed, TypeOK, WritePassword, CopyInv, CopyRead, HasCopy
<1>2. job[r].password \in Passwords \cup {None} /\ NewStamp(r) \in Ids /\ v \in BOOLEAN
  BY <1>1 DEF Job, NewStamp, Ids
<1>3. Write(r, new, l) /\ pc[r] = "write_password"
      /\ UNCHANGED <<now, links, job, row, cur, at, out, sessions>>
  BY DEF WritePassword, locals
<1>4. new \in User /\ new.id = row[r].id /\ new.stamp = r
  <2> HIDE DEF v
  <2>1. NewStamp(r) = r
    BY DEF NewStamp
  <2>2. QED  BY <1>1, <1>2, <2>1 DEF User
<1>5. new = Repassworded(r)
  BY DEF Repassworded
<1> HIDE DEF new
<1>6. QED  BY <1>1, <1>3, <1>4, <1>5 DEF Written

\* UpdateUser writes back a new stamp when it disables the user or changes the email of the
\* row it compares with, and the stamp of its copy otherwise.
LEMMA WriteProfileWrites ==
  ASSUME Typed, NEW r \in Requests, WriteProfile(r)
  PROVE  \E new \in User :
           /\ Written(r, new, "ok")
           /\ IF (~new.enabled /\ cur[r].enabled) \/ new.email # cur[r].email
                THEN new.stamp = r ELSE new.stamp = row[r].stamp
           /\ new = Profiled(r)
           /\ UNCHANGED sessions
<1> DEFINE renew == (~Edited(r).enabled /\ cur[r].enabled) \/ Edited(r).email # cur[r].email
           stamp == IF renew THEN r ELSE Edited(r).stamp
           new == [Edited(r) EXCEPT !.password = cur[r].password, !.stamp = stamp]
<1>1. row[r] \in User /\ row[r].id \in Ids /\ cur[r] \in User /\ r \in Ids /\ job[r] \in Job
  BY DEF Typed, TypeOK, WriteProfile, CopyInv, CopyRead, HasCopy, Ids
<1>2. /\ job[r].email \in Emails \cup {None}
      /\ job[r].verified \in BOOLEAN /\ job[r].enabled \in BOOLEAN
  BY <1>1 DEF Job
<1>3. Edited(r) \in User /\ Edited(r).id = row[r].id /\ Edited(r).stamp = row[r].stamp
  <2>1. CASE job[r].kind = "update"
    <3>1. Edited(r) = [row[r] EXCEPT !.email = job[r].email, !.verified = job[r].verified,
                                     !.enabled = job[r].enabled]
      BY <2>1 DEF Edited
    <3>2. QED  BY <1>1, <1>2, <3>1 DEF User
  <2>2. CASE job[r].kind # "update"
    <3>1. Edited(r) = [row[r] EXCEPT !.failed = 0, !.locked = 0] /\ 0 \in Nat
      BY <2>2 DEF Edited
    <3>2. QED  BY <1>1, <3>1 DEF User
  <2>3. QED  BY <2>1, <2>2
<1>4. stamp \in Ids \cup {None} /\ cur[r].password \in Passwords \cup {None}
  BY <1>1, <1>3 DEF User
<1>5. Write(r, new, "ok") /\ pc[r] = "write_profile"
      /\ UNCHANGED <<now, links, job, row, cur, at, out, sessions>>
  BY DEF WriteProfile, locals
<1>6. /\ new \in User /\ new.id = row[r].id /\ new.stamp = stamp
      /\ new.email = Edited(r).email /\ new.enabled = Edited(r).enabled
  <2> HIDE DEF stamp
  <2>1. QED  BY <1>1, <1>3, <1>4 DEF User
<1>7. new = Profiled(r)
  BY DEF Profiled
<1> HIDE DEF new
<1>8. QED  BY <1>1, <1>3, <1>5, <1>6, <1>7 DEF Written

\* Writing a well-typed copy back, whoever does, keeps the invariant.
LEMMA TypingWritten ==
  ASSUME Typed, NEW r \in Requests, NEW new \in User, NEW l, Written(r, new, l),
         sessions' \in [Requests -> Session]
  PROVE  Typed'
<1>1. /\ users' \in [Ids -> User] /\ lost' \in SUBSET Ids /\ ended' \in SUBSET Requests
      /\ pc' = [pc EXCEPT ![r] = l] \/ pc' = [pc EXCEPT ![r] = "error"]
      /\ (\A u \in Ids : OwnId(u))'
      /\ \A u \in Ids : users[u].st = "none" => users'[u].st = "none"
  BY TypingWrite DEF Written, Steps, Responses
<1>2. TypeOK'
  BY <1>1 DEF Typed, TypeOK, Written, Steps, Responses
<1>3. JobAtStep(r)' /\ CopyRead(r)'
  BY <1>1 DEF Typed, TypeOK, JobInv, JobAtStep, CopyRead, HasCopy, Written, LinkUsers, LinkSenders
<1>4. LinkStored(r)' /\ Inserted(r)'
  BY <1>1 DEF Typed, TypeOK, LinkInv, LinkStored, UserInv, Inserted, Written, Ids
<1>5. QED  BY <1>1, <1>2, <1>3, <1>4, TypingStep DEF Typed, TypeOK, Written, Ids

\* So does a registration that inserts its user.
LEMMA TypingInsert ==
  ASSUME Typed, NEW r \in Requests, Insert(r)
  PROVE  Typed'
<1> DEFINE user == Created(r)
<1>1. r \in Ids /\ user \in User /\ user.id = r /\ user.st = "stored"
  BY CreatedType
<1>2. pc[r] = "insert" /\ UNCHANGED <<now, links, sessions, job, cur, at, lost, ended, out>>
  BY DEF Insert, history
<1>3. CASE /\ users' = [users EXCEPT ![r] = user] /\ row' = [row EXCEPT ![r] = user]
           /\ pc' = [pc EXCEPT ![r] = IF job[r].kind \in LinkSenders /\ ~user.verified
                                        THEN "drop_links" ELSE "ok"]
  <2> HIDE DEF user
  <2>1. TypeOK'
    BY <1>1, <1>2, <1>3 DEF Typed, TypeOK, Steps, Responses
  <2>2. JobAtStep(r)' /\ CopyRead(r)' /\ LinkStored(r)' /\ Inserted(r)'
    BY <1>1, <1>2, <1>3 DEF Typed, TypeOK, JobInv, JobAtStep, CopyRead, HasCopy, LinkInv,
       LinkStored, Inserted, LinkUsers, LinkSenders
  <2>3. (\A u \in Ids : OwnId(u))'
    BY <1>1, <1>3 DEF Typed, TypeOK, UserInv, OwnId
  <2>4. QED  BY <1>2, <1>3, <2>1, <2>2, <2>3, TypingStep DEF Typed, TypeOK, Ids
<1>4. CASE pc' = [pc EXCEPT ![r] = "refused"] /\ UNCHANGED <<users, row>>
  <2>1. TypeOK'
    BY <1>2, <1>4 DEF Typed, TypeOK, Steps, Responses
  <2>2. JobAtStep(r)' /\ CopyRead(r)' /\ LinkStored(r)' /\ Inserted(r)'
    BY <1>2, <1>4 DEF Typed, TypeOK, JobInv, JobAtStep, CopyRead, HasCopy, LinkInv,
       LinkStored, UserInv, Inserted, LinkUsers, LinkSenders
  <2>3. (\A u \in Ids : OwnId(u))'
    BY <1>4 DEF Typed, UserInv, OwnId
  <2>4. QED  BY <1>2, <1>4, <2>1, <2>2, <2>3, TypingStep DEF Typed, TypeOK
<1>5. QED  BY <1>3, <1>4 DEF Insert, Goto, Created

\* So does a deletion.
LEMMA TypingDelete ==
  ASSUME Typed, NEW r \in Requests, DeleteUser(r)
  PROVE  Typed'
<1>1. /\ pc[r] = "delete" /\ job[r].target \in Ids
      /\ UNCHANGED <<now, links, sessions, job, row, cur, at, lost, ended, out>>
      /\ pc' = [pc EXCEPT ![r] = "drop_activation"] \/ pc' = [pc EXCEPT ![r] = "refused"]
  BY DEF DeleteUser, Typed, JobInv, JobAtStep, Target, Goto, locals, history
<1>2. \A u \in Ids : /\ [users[u] EXCEPT !.st = "gone"] \in User
                     /\ [users[u] EXCEPT !.st = "gone"].id = users[u].id
  BY UserWithSt DEF Kept, Typed, TypeOK
<1>3. users' \in [Ids -> User]
  BY <1>1, <1>2 DEF DeleteUser, Typed, TypeOK
<1>4. \A u \in Ids : users'[u].id = users[u].id /\ (users'[u].st = "none" <=> users[u].st = "none")
  <2>1. \A u \in Ids : [users[u] EXCEPT !.st = "gone"].st = "gone"
    BY DEF Typed, TypeOK, User
  <2>2. QED  BY <1>1, <1>2, <2>1 DEF DeleteUser, Typed, TypeOK
<1>5. TypeOK'
  BY <1>1, <1>3 DEF Typed, TypeOK, Steps, Responses
<1>6. JobAtStep(r)' /\ CopyRead(r)' /\ LinkStored(r)' /\ Inserted(r)'
  BY <1>1, <1>4 DEF Typed, TypeOK, JobInv, JobAtStep, CopyRead, HasCopy, LinkInv, LinkStored, UserInv,
     Inserted, LinkUsers, LinkSenders, Ids
<1>7. (\A u \in Ids : OwnId(u))'
  BY <1>4 DEF Typed, UserInv, OwnId
<1>8. QED  BY <1>1, <1>4, <1>5, <1>6, <1>7, TypingStep DEF Typed, TypeOK, Ids

\* So does the cleanup of user tokens.
LEMMA TypingSweep ==
  ASSUME Typed, SweepLinks
  PROVE  Typed'
<1>1. /\ links' \in [Requests -> Link]
      /\ \A l \in Requests : /\ links'[l].st = "none" <=> links[l].st = "none"
                            /\ links'[l].user = links[l].user
  <2>1. PICK ids : Drop(ids)
    BY DEF SweepLinks
  <2>2. links \in [Requests -> Link]
    BY DEF Typed, TypeOK
  <2>3. QED  BY <2>1, <2>2, DropKeeps
<1>2. TypeOK'
  BY <1>1 DEF Typed, TypeOK, SweepLinks, locals, history
<1>3. JobInv' /\ CopyInv' /\ UserInv'
  BY DEF Typed, JobInv, JobAtStep, Target, CopyInv, CopyRead, HasCopy, UserInv, OwnId, Inserted,
         SweepLinks, locals
<1>4. LinkInv'
  BY <1>1 DEF Typed, LinkInv, LinkStored, JobInv, JobAtStep, Target, SweepLinks
<1>5. QED  BY <1>2, <1>3, <1>4 DEF Typed

\* Every step keeps the invariant.
LEMMA TypingNext == Typed /\ [Next]_vars => Typed'
<1> SUFFICES ASSUME Typed, [Next]_vars
             PROVE  Typed'
  OBVIOUS
<1>1. CASE Tick \/ UNCHANGED vars
  <2>1. UNCHANGED <<users, links, sessions, pc, job, row, cur, at, lost, ended, out>> /\ now' \in Nat
    BY <1>1 DEF Tick, vars, locals, history, Typed, TypeOK
  <2>2. QED
    BY <2>1 DEF Typed, TypeOK, JobInv, JobAtStep, Target, CopyInv, CopyRead, HasCopy, LinkInv,
       LinkStored, UserInv, OwnId, Inserted
<1>2. ASSUME NEW r \in Requests, CountFailure(r)
      PROVE  Typed'
  <2>1. sessions' \in [Requests -> Session]
    BY <1>2 DEF CountFailure, Typed, TypeOK
  <2>2. QED  BY <1>2, <2>1, CountFailureWrites, TypingWritten
<1>3. ASSUME NEW r \in Requests, RecordLogin(r)
      PROVE  Typed'
  <2>1. row[r] \in User /\ now + SessionLifetime \in Nat
    BY AccountsAssumption DEF Typed, TypeOK
  <2>2. [user |-> row[r].id, stamp |-> row[r].stamp, exp |-> now + SessionLifetime] \in Session
    BY <2>1 DEF Session, User
  <2>3. sessions' \in [Requests -> Session]
    BY <1>3, <2>2 DEF RecordLogin, Typed, TypeOK
  <2>4. QED  BY <1>3, <2>3, RecordLoginWrites, TypingWritten
<1>4. ASSUME NEW r \in Requests, WritePassword(r)
      PROVE  Typed'
  <2>1. sessions' \in [Requests -> Session]
    BY <1>4 DEF WritePassword, Typed, TypeOK
  <2>2. QED  BY <1>4, <2>1, WritePasswordWrites, TypingWritten
<1>5. ASSUME NEW r \in Requests, WriteProfile(r)
      PROVE  Typed'
  <2>1. sessions' \in [Requests -> Session]
    BY <1>5 DEF WriteProfile, Typed, TypeOK
  <2>2. QED  BY <1>5, <2>1, WriteProfileWrites, TypingWritten
<1>6. ASSUME NEW r \in Requests, WriteVerified(r)
      PROVE  Typed'
  <2>1. sessions' \in [Requests -> Session]
    BY <1>6 DEF WriteVerified, Typed, TypeOK
  <2>2. QED  BY <1>6, <2>1, WriteVerifiedWrites, TypingWritten
<1>7. QED
  BY <1>1, <1>2, <1>3, <1>4, <1>5, <1>6, TypingArrive, TypingRead, TypingDropped, TypingInsert,
     TypingDelete, TypingSweep
     DEF Next, Advance

\* Every row, link, session and copy is of its type (identity.User, identity.UserToken and the
\* session payload), whatever the requests do.
THEOREM TypeCorrect == Spec => []TypeOK
<1>1. Spec => []Typed
  BY TypingInit, TypingNext, PTL DEF Spec
<1>2. Typed => TypeOK
  BY DEF Typed
<1>3. QED  BY <1>1, <1>2, PTL

--------------------------------------------------------------------------------
(***************************************************************************)
(* Emails                                                                  *)
(***************************************************************************)

\* The steps that leave the table of users alone.
LEMMA UsersKept ==
  ASSUME NEW r \in Requests,
         \/ Arrive(r) \/ CheckEmail(r) \/ Find(r) \/ GetUser(r) \/ GetCurrent(r) \/ FindMailbox(r)
         \/ DropActivation(r) \/ DropLinks(r) \/ DropLink(r)
         \/ StoreLink(r) \/ GetLink(r) \/ GetLinkUser(r)
  PROVE  UNCHANGED <<users, lost, ended>>
BY DEF Arrive, AcceptRegister, AcceptLogin, AcceptSetPassword, AcceptUpdate, AcceptUnlock,
       AcceptDelete, AcceptSend, AcceptCreate, AcceptSendById, AcceptActivate, AcceptReset, Accept,
       CheckEmail, Find, GetUser,
       GetCurrent, FindMailbox, DropActivation, DropLinks, DropLink, StoreLink, GetLink,
       GetLinkUser, history

\* A step of Advance that changes the table of users writes a copy, inserts or deletes.
WritesCopy(r) ==
  CountFailure(r) \/ RecordLogin(r) \/ WritePassword(r) \/ WriteProfile(r) \/ WriteVerified(r)

\* The five steps that write a copy back write the id they have read.
LEMMA CopyWritten ==
  ASSUME Typed, NEW r \in Requests, WritesCopy(r)
  PROVE  \E new \in User, l \in {"ok", "refused", "drop_links", "drop_link"} : Written(r, new, l)
BY CountFailureWrites, RecordLoginWrites, WritePasswordWrites, WriteProfileWrites, WriteVerifiedWrites
   DEF WritesCopy

\* The store refuses an email that is taken, whatever ensureUnique has seen.
LEMMA UniqueNext == Typed /\ UniqueEmails /\ [Next]_vars => UniqueEmails'
<1> SUFFICES ASSUME Typed, UniqueEmails, [Next]_vars
             PROVE  UniqueEmails'
  OBVIOUS
<1>1. CASE UNCHANGED users
  BY <1>1 DEF UniqueEmails, Stored
<1>2. ASSUME NEW r \in Requests, WritesCopy(r)
      PROVE  UniqueEmails'
  <2>1. PICK new \in User, l \in {"ok", "refused", "drop_links", "drop_link"} : Written(r, new, l)
    BY <1>2, CopyWritten
  <2> DEFINE id == row[r].id
  <2>2. CASE Updatable(id, new.email) /\ users' = [users EXCEPT ![id] = new]
    BY <2>1, <2>2 DEF Updatable, Taken, UniqueEmails, Stored, Typed, TypeOK, Written
  <2>3. CASE UNCHANGED users
    BY <2>3, <1>1
  <2>4. QED  BY <2>1, <2>2, <2>3 DEF Written, Write
<1>3. ASSUME NEW r \in Requests, Insert(r)
      PROVE  UniqueEmails'
  <2> DEFINE user == Created(r)
  <2> HIDE DEF user
  <2>1. CASE ~Taken(user.email, r) /\ users' = [users EXCEPT ![r] = user]
    BY <2>1 DEF Taken, UniqueEmails, Stored, Typed, TypeOK, Ids
  <2>2. CASE UNCHANGED users
    BY <2>2, <1>1
  <2>3. QED  BY <1>3, <2>1, <2>2 DEF Insert, Created, user
<1>4. ASSUME NEW r \in Requests, DeleteUser(r)
      PROVE  UniqueEmails'
  <2>1. CASE users' = [users EXCEPT ![job[r].target].st = "gone"]
    BY <2>1 DEF UniqueEmails, Stored, Typed, TypeOK, User
  <2>2. QED  BY <1>1, <1>4, <2>1 DEF DeleteUser
<1>5. ASSUME NEW r \in Requests, Arrive(r) \/ Advance(r)
      PROVE  UniqueEmails'
  BY <1>1, <1>2, <1>3, <1>4, <1>5, UsersKept DEF Advance, WritesCopy
<1>6. QED  BY <1>1, <1>5 DEF Next, Tick, SweepLinks, vars

\* No two users share an email at first.
LEMMA UniqueInit == Init => UniqueEmails
<1> SUFFICES ASSUME Init, NEW u \in Stored, NEW v \in Stored, users[u].email = users[v].email
             PROVE  u = v
  BY DEF UniqueEmails
<1>1. u \in Existing /\ v \in Existing
  BY NoUserType DEF Init, Stored
<1>2. ASSUME NEW x \in Existing
      PROVE  users[x].email = SeedEmail[x]
  <2> DEFINE w == TRUE
  <2>1. /\ x \in Ids /\ w \in BOOLEAN
        /\ SeedEmail[x] \in Emails \cup {None} /\ SeedPassword[x] \in Passwords \cup {None}
    BY AccountsAssumption DEF Ids
  <2>2. users[x] = NewUser(x, SeedEmail[x], SeedPassword[x], w, w)
    BY <2>1 DEF Init
  <2> HIDE DEF w
  <2>3. NewUser(x, SeedEmail[x], SeedPassword[x], w, w).email = SeedEmail[x]
    BY <2>1, NewUserType
  <2>4. QED  BY <2>2, <2>3
<1>3. users[u].email = SeedEmail[u] /\ users[v].email = SeedEmail[v]
  BY <1>1, <1>2
<1>4. QED  BY <1>1, <1>3, AccountsAssumption

\* Two users never share an email, however many registrations and changes of address have
\* passed ensureUnique with the same one: the store's own check decides.
THEOREM UniqueEmailsHolds == Spec => []UniqueEmails
<1>1. Spec => []Typed
  BY TypingInit, TypingNext, PTL DEF Spec
<1>2. QED  BY <1>1, UniqueInit, UniqueNext, PTL DEF Spec

--------------------------------------------------------------------------------
(***************************************************************************)
(* What every step keeps                                                   *)
(***************************************************************************)
Accepting == {"check_email", "find", "get_user", "delete", "find_mailbox", "get_link"}

\* What accepting a request changes: its own input, step and history.
LEMMA Arrival ==
  ASSUME Typed, NEW r \in Requests, Arrive(r)
  PROVE  /\ pc[r] = "idle" /\ out' = [out EXCEPT ![r] = Working]
         /\ \E l \in Accepting : pc' = [pc EXCEPT ![r] = l]
         /\ \E j : job' = [job EXCEPT ![r] = j]
         /\ UNCHANGED <<now, users, links, sessions, row, cur, lost, ended>>
BY DEF Arrive, AcceptRegister, AcceptLogin, AcceptSetPassword, AcceptUpdate, AcceptUnlock,
       AcceptDelete, AcceptSend, AcceptCreate, AcceptSendById, AcceptActivate, AcceptReset, Accept,
       Goto, Accepting, locals

\* A request keeps its input, and what it found when it arrived.
LEMMA AdvanceKeeps ==
  ASSUME NEW r \in Requests, Advance(r)
  PROVE  UNCHANGED <<job, out>>
BY DEF Advance, CheckEmail, Insert, Find, CountFailure, RecordLogin, GetUser, WritePassword,
       GetCurrent, WriteProfile, DeleteUser, FindMailbox, DropActivation, DropLinks, StoreLink,
       GetLink, GetLinkUser, WriteVerified, DropLink, history

\* A step of one request leaves the local variables and the session of the others alone.
LEMMA OthersKept ==
  ASSUME Typed, NEW r \in Requests, Arrive(r) \/ Advance(r), NEW q \in Requests \ {r}
  PROVE  /\ pc'[q] = pc[q] /\ job'[q] = job[q] /\ row'[q] = row[q] /\ cur'[q] = cur[q]
         /\ out'[q] = out[q] /\ sessions'[q] = sessions[q]
<1>1. CASE Arrive(r)
  BY <1>1, Arrival DEF Typed, TypeOK
<1>2. CASE WritesCopy(r)
  <2>1. PICK new \in User, l \in {"ok", "refused", "drop_links", "drop_link"} : Written(r, new, l)
    BY <1>2, CopyWritten
  <2>2. sessions'[q] = sessions[q]
    BY <1>2 DEF WritesCopy, CountFailure, RecordLogin, WritePassword, WriteProfile, WriteVerified,
                Typed, TypeOK
  <2>3. QED  BY <2>1, <2>2 DEF Written, Write, Goto, Typed, TypeOK
<1>3. CASE CheckEmail(r) \/ Insert(r) \/ Find(r) \/ GetUser(r) \/ GetCurrent(r) \/ DeleteUser(r)
  BY <1>3 DEF CheckEmail, Insert, Find, GetUser, GetCurrent, DeleteUser, Goto, locals, history,
              Typed, TypeOK
<1>4. CASE \/ FindMailbox(r) \/ DropActivation(r) \/ DropLinks(r) \/ StoreLink(r) \/ GetLink(r)
           \/ GetLinkUser(r) \/ DropLink(r)
  BY <1>4 DEF FindMailbox, DropActivation, DropLinks, StoreLink, GetLink, GetLinkUser, DropLink,
              Goto, locals, history, Typed, TypeOK
<1>5. QED  BY <1>1, <1>2, <1>3, <1>4 DEF Advance, WritesCopy

\* A link is stored once, and does not come back.
LEMMA LinksFinal ==
  ASSUME Typed, [Next]_vars, NEW l \in Requests, links[l].st # "none"
  PROVE  /\ links'[l].st # "none"
         /\ links'[l].user = links[l].user /\ links'[l].purpose = links[l].purpose
         /\ links[l].st # "live" => links'[l].st # "live"
<1>1. CASE UNCHANGED links
  BY <1>1
<1>2. CASE \E ids : Drop(ids)
  BY <1>2 DEF Drop, Link, Typed, TypeOK
<1>3. ASSUME NEW r \in Requests, StoreLink(r)
      PROVE  UNCHANGED links[l]
  <2>1. links[r].st = "none"
    BY <1>3 DEF StoreLink, Typed, LinkInv, LinkStored
  <2>2. QED  BY <1>3, <2>1 DEF StoreLink, Typed, TypeOK
<1>4. ASSUME NEW r \in Requests, Arrive(r)
      PROVE  UNCHANGED links
  BY <1>4, Arrival
<1>5. ASSUME NEW r \in Requests, WritesCopy(r)
      PROVE  UNCHANGED links
  BY <1>5, CopyWritten DEF Written
<1>6. ASSUME NEW r \in Requests, Advance(r)
      PROVE  UNCHANGED links \/ (\E ids : Drop(ids)) \/ StoreLink(r)
  BY <1>5, <1>6 DEF Advance, WritesCopy, CheckEmail, Insert, Find, GetUser, GetCurrent, DeleteUser,
     FindMailbox, DropActivation, DropLinks, GetLink, GetLinkUser, DropLink
<1>7. CASE SweepLinks
  BY <1>2, <1>7 DEF SweepLinks
<1>8. QED  BY <1>1, <1>2, <1>3, <1>4, <1>6, <1>7 DEF Next, Tick, vars

\* A deleted user does not come back.
LEMMA GoneFinal ==
  ASSUME Typed, [Next]_vars, NEW u \in Ids, users[u].st = "gone"
  PROVE  users'[u].st = "gone"
<1>1. CASE UNCHANGED users
  BY <1>1
<1>2. ASSUME NEW r \in Requests, WritesCopy(r)
      PROVE  users'[u].st = "gone"
  <2>1. PICK new \in User, l \in {"ok", "refused", "drop_links", "drop_link"} : Written(r, new, l)
    BY <1>2, CopyWritten
  <2>2. QED  BY <2>1 DEF Written, Write, Updatable, Typed, TypeOK
<1>3. ASSUME NEW r \in Requests, Insert(r)
      PROVE  users'[u].st = "gone"
  <2>1. users[r].st = "none"
    BY <1>3 DEF Insert, Typed, UserInv, Inserted
  <2>2. QED  BY <1>3, <2>1 DEF Insert, Typed, TypeOK
<1>4. ASSUME NEW r \in Requests, DeleteUser(r)
      PROVE  users'[u].st = "gone"
  BY <1>4 DEF DeleteUser, Typed, TypeOK, User
<1>5. ASSUME NEW r \in Requests, Arrive(r) \/ Advance(r)
      PROVE  users'[u].st = "gone"
  BY <1>1, <1>2, <1>3, <1>4, <1>5, UsersKept DEF Advance, WritesCopy
<1>6. QED  BY <1>1, <1>5 DEF Next, Tick, SweepLinks, vars

--------------------------------------------------------------------------------
(***************************************************************************)
(* Deletions                                                               *)
(***************************************************************************)

\* The links of out are stored.
ArrivedLinks(r) == \A l \in out[r] : links[l].st # "none"

\* The links of the target that worked at first and have the purpose.
LinksOf(r, purpose) == {l \in out[r] : links[l].user = job[r].target /\ links[l].purpose = purpose}

Deleted(r) ==
  job[r].kind = "delete" =>
    /\ pc[r] \in {"drop_activation", "drop_links", "ok"} => users[job[r].target].st = "gone"
    /\ pc[r] \in {"drop_links", "ok"}
         => \A l \in LinksOf(r, "activation") : links[l].st = "gone"
    /\ pc[r] = "ok" => \A l \in LinksOf(r, "password_reset") : links[l].st = "gone"

DeleteInv == \A r \in Requests : ArrivedLinks(r) /\ Deleted(r)

\* The links that worked when a request arrived were stored, and stay so.
LEMMA ArrivedNext ==
  ASSUME Typed, [Next]_vars, \A q \in Requests : ArrivedLinks(q)
  PROVE  (\A q \in Requests : ArrivedLinks(q))'
<1> SUFFICES ASSUME NEW q \in Requests
             PROVE  \A l \in out'[q] : links'[l].st # "none"
  BY DEF ArrivedLinks
<1>1. ASSUME out'[q] = out[q]
      PROVE  \A l \in out'[q] : links'[l].st # "none"
  BY <1>1, LinksFinal DEF ArrivedLinks, Typed, TypeOK
<1>2. ASSUME Arrive(q)
      PROVE  \A l \in out'[q] : links'[l].st # "none"
  BY <1>2, Arrival DEF Working, Typed, TypeOK
<1>3. ASSUME NEW r \in Requests, Arrive(r) \/ Advance(r), ~Arrive(q)
      PROVE  out'[q] = out[q]
  BY <1>3, OthersKept, AdvanceKeeps
<1>4. QED
  BY <1>1, <1>2, <1>3 DEF Next, Tick, SweepLinks, vars, history

\* A deletion in progress has deleted its user and one purpose of links after the other.
LEMMA DeleteNext == Typed /\ DeleteInv /\ [Next]_vars => DeleteInv'
<1> SUFFICES ASSUME Typed, DeleteInv, [Next]_vars, NEW q \in Requests
             PROVE  Deleted(q)'
  BY ArrivedNext DEF DeleteInv
<1>1. ArrivedLinks(q) /\ Deleted(q) /\ Target(q)
  BY DEF DeleteInv, Typed, JobInv
<1>2. CASE pc'[q] = pc[q] /\ job'[q] = job[q] /\ out'[q] = out[q]
  <2>1. ASSUME NEW l \in out[q]
        PROVE  /\ links'[l].user = links[l].user /\ links'[l].purpose = links[l].purpose
               /\ links[l].st = "gone" => links'[l].st = "gone"
    <3>1. l \in Requests /\ links'[l] \in Link
      BY TypingNext DEF Typed, TypeOK
    <3>2. links[l].st # "none"
      BY <1>1 DEF ArrivedLinks
    <3>3. /\ links'[l].st # "none"
          /\ links'[l].user = links[l].user /\ links'[l].purpose = links[l].purpose
          /\ links[l].st # "live" => links'[l].st # "live"
      BY <3>1, <3>2, LinksFinal
    <3>4. QED  BY <3>1, <3>3 DEF Link
  <2>2. job[q].kind = "delete" => job[q].target \in Ids
    BY <1>1 DEF Target
  <2>3. job[q].kind = "delete" /\ users[job[q].target].st = "gone" => users'[job[q].target].st = "gone"
    BY <2>2, GoneFinal
  <2>4. QED  BY <1>1, <1>2, <2>1, <2>3 DEF Deleted, LinksOf
<1>3. CASE Arrive(q)
  <2>1. pc'[q] \in Accepting
    BY <1>3, Arrival DEF Typed, TypeOK
  <2>2. QED  BY <2>1 DEF Deleted, Accepting
<1>4. CASE Advance(q)
  <2> SUFFICES ASSUME job[q].kind = "delete"
               PROVE  Deleted(q)'
    BY <1>4, AdvanceKeeps DEF Deleted
  <2>1. /\ pc[q] \in {"delete", "drop_activation", "drop_links"}
        /\ DeleteUser(q) \/ DropActivation(q) \/ DropLinks(q)
    BY <1>4 DEF Typed, JobInv, JobAtStep, LinkUsers, LinkSenders, Creations, Profile, Advance,
       CheckEmail, Insert,
       Find, CountFailure, RecordLogin, GetUser, WritePassword, GetCurrent, WriteProfile,
       DeleteUser, FindMailbox, DropActivation, DropLinks, StoreLink, GetLink, GetLinkUser,
       WriteVerified, DropLink
  <2>2. job' = job /\ out' = out /\ job[q].target \in Ids
    BY <1>1, <1>4, AdvanceKeeps DEF Target
  <2>3. CASE DeleteUser(q)
    BY <2>2, <2>3 DEF DeleteUser, Goto, Deleted, Typed, TypeOK, User
  <2>4. ASSUME NEW purpose, Drop(Dropped(job[q].target, purpose))
        PROVE  \A l \in out[q] :
                 /\ links'[l].user = links[l].user /\ links'[l].purpose = links[l].purpose
                 /\ links[l].st = "gone" => links'[l].st = "gone"
                 /\ links[l].user = job[q].target /\ links[l].purpose = purpose
                      => links'[l].st = "gone"
    BY <1>1, <2>4 DEF Drop, Dropped, ArrivedLinks, Link, Typed, TypeOK
  <2>5. CASE DropActivation(q)
    <3>1. Drop(Dropped(job[q].target, "activation")) /\ pc[q] = "drop_activation"
          /\ pc' = [pc EXCEPT ![q] = "drop_links"] /\ users' = users
      BY <2>5 DEF DropActivation, Subject, Goto
    <3>2. \A l \in LinksOf(q, "activation")' : links'[l].st = "gone"
      BY <2>2, <2>4, <3>1 DEF LinksOf
    <3>3. QED  BY <1>1, <2>2, <3>1, <3>2 DEF Deleted, Typed, TypeOK
  <2>6. CASE DropLinks(q)
    <3>1. Drop(Dropped(job[q].target, "password_reset")) /\ pc[q] = "drop_links"
          /\ pc' = [pc EXCEPT ![q] = "ok"] /\ users' = users
      BY <2>6 DEF DropLinks, Subject, PurposeOf, Goto, LinkSenders
    <3>2. /\ \A l \in LinksOf(q, "activation")' : links'[l].st = "gone"
          /\ \A l \in LinksOf(q, "password_reset")' : links'[l].st = "gone"
      BY <1>1, <2>2, <2>4, <3>1 DEF LinksOf, Deleted
    <3>3. QED  BY <1>1, <2>2, <3>1, <3>2 DEF Deleted, Typed, TypeOK
  <2>7. QED  BY <2>1, <2>3, <2>5, <2>6
<1>5. ASSUME NEW r \in Requests, r # q, Arrive(r) \/ Advance(r)
      PROVE  pc'[q] = pc[q] /\ job'[q] = job[q] /\ out'[q] = out[q]
  BY <1>5, OthersKept
<1>6. QED
  BY <1>2, <1>3, <1>4, <1>5 DEF Next, Tick, SweepLinks, vars, history

\* After DeleteUser has answered, no copy that a sign-in, an update or a reset has read brings
\* the user back, no session of it is signed in, and the links that worked are deleted.
THEOREM GoneForGoodHolds == Spec => []GoneForGood
<1>1. Spec => []Typed
  BY TypingInit, TypingNext, PTL DEF Spec
<1>2. Init => DeleteInv
  BY DEF Init, DeleteInv, ArrivedLinks, Deleted, NoJob
<1>3. Typed /\ DeleteInv => GoneForGood
  <2> SUFFICES ASSUME Typed, DeleteInv, NEW r \in Requests, job[r].kind = "delete", pc[r] = "ok"
               PROVE  /\ job[r].target \notin Stored
                      /\ \A s \in Requests : sessions[s].user = job[r].target => ~SignedIn(s)
                      /\ \A l \in out[r] : links[l].user = job[r].target => links[l].st = "gone"
    BY DEF GoneForGood
  <2>1. Deleted(r) /\ users[job[r].target].st = "gone"
    BY DEF DeleteInv, Deleted
  <2>2. job[r].target \notin Stored
    BY <2>1 DEF Stored
  <2>3. \A l \in out[r] : links[l].purpose \in {"activation", "password_reset"}
    BY DEF Typed, TypeOK, Link
  <2>4. QED  BY <2>1, <2>2, <2>3 DEF Deleted, LinksOf, SignedIn
<1>4. QED  BY <1>1, <1>2, <1>3, DeleteNext, PTL DEF Spec

--------------------------------------------------------------------------------
(***************************************************************************)
(* Links: the copy of a request belongs to the link it uses, and the links *)
(* that worked when it arrived die at its drop.                            *)
(***************************************************************************)

\* A reset works on the user its link was sent to.
UsesOwnLink(r) ==
  /\ pc[r] \in {"get_link_user", "write_password", "drop_links", "ok"} /\ job[r].kind = "reset"
       => /\ links[job[r].target].st # "none"
          /\ links[job[r].target].purpose = "password_reset"
  /\ pc[r] \in {"write_verified", "drop_link", "ok"} /\ job[r].kind = "activate"
       => links[job[r].target].st # "none"
  /\ pc[r] \in {"write_password", "drop_links", "ok"} /\ job[r].kind = "reset"
       => links[job[r].target].user = row[r].id

Subjected(r, l) == links[l].user = row[r].id /\ links[l].purpose = PurposeOf(r)

LinksGone(r) ==
  /\ \/ pc[r] = "store_link"
     \/ pc[r] = "ok" /\ job[r].kind = "reset"
     \/ pc[r] = "ok" /\ links[r].st # "none"
     => \A l \in out[r] : Subjected(r, l) => links[l].st = "gone"
  /\ pc[r] = "ok" /\ job[r].kind = "activate" => links[job[r].target].st # "live"

DieInv == \A r \in Requests : ArrivedLinks(r) /\ UsesOwnLink(r) /\ LinksGone(r)

\* Only its own request stores a link.
LEMMA LinksNew ==
  ASSUME Typed, [Next]_vars, NEW l \in Requests, ~StoreLink(l), links[l].st = "none"
  PROVE  links'[l].st = "none"
<1>1. CASE UNCHANGED links
  BY <1>1
<1>2. CASE \E ids : Drop(ids)
  BY <1>2 DEF Drop, Link, Typed, TypeOK
<1>3. ASSUME NEW r \in Requests, r # l, StoreLink(r)
      PROVE  UNCHANGED links[l]
  BY <1>3 DEF StoreLink, Typed, TypeOK
<1>4. ASSUME NEW r \in Requests, Arrive(r)
      PROVE  UNCHANGED links
  BY <1>4, Arrival
<1>5. ASSUME NEW r \in Requests, WritesCopy(r)
      PROVE  UNCHANGED links
  BY <1>5, CopyWritten DEF Written
<1>6. ASSUME NEW r \in Requests, Advance(r)
      PROVE  UNCHANGED links \/ (\E ids : Drop(ids)) \/ StoreLink(r)
  BY <1>5, <1>6 DEF Advance, WritesCopy, CheckEmail, Insert, Find, GetUser, GetCurrent, DeleteUser,
     FindMailbox, DropActivation, DropLinks, GetLink, GetLinkUser, DropLink
<1>7. CASE SweepLinks
  BY <1>2, <1>7 DEF SweepLinks
<1>8. QED  BY <1>1, <1>2, <1>3, <1>4, <1>6, <1>7 DEF Next, Tick, vars

\* What a request that uses or sends links does to its own part of the invariant.
LEMMA DieAdvance ==
  ASSUME Typed, DieInv, [Next]_vars, Typed', NEW q \in Requests, Advance(q)
  PROVE  UsesOwnLink(q)' /\ LinksGone(q)'
<1>1. ArrivedLinks(q) /\ UsesOwnLink(q) /\ LinksGone(q) /\ Target(q) /\ JobAtStep(q) /\ LinkStored(q)
  BY DEF DieInv, Typed, JobInv, LinkInv
<1>2. job' = job /\ out' = out /\ PurposeOf(q)' = PurposeOf(q)
  BY AdvanceKeeps DEF PurposeOf
<1>3. ASSUME NEW l \in Requests, links[l].st # "none"
      PROVE  /\ links'[l].st # "none" /\ links'[l].user = links[l].user
             /\ links'[l].purpose = links[l].purpose
             /\ links[l].st # "live" => links'[l].st # "live"
             /\ links'[l].st # "live" => links'[l].st = "gone"
  BY <1>3, LinksFinal DEF Typed, TypeOK, Link
<1>4. \A l \in out[q] : l \in Requests /\ links[l].st # "none"
  BY <1>1 DEF ArrivedLinks, Typed, TypeOK
<1>5. pc[q] \notin {"idle", "ok", "refused", "error"}
  BY DEF Advance, CheckEmail, Insert, Find, CountFailure, RecordLogin, GetUser, WritePassword,
       GetCurrent, WriteProfile, DeleteUser, FindMailbox, DropActivation, DropLinks, StoreLink,
       GetLink, GetLinkUser, WriteVerified, DropLink
<1>6. links[q].st = "none"
  BY <1>1, <1>5 DEF LinkStored
<1>7. CASE GetLink(q)
  <2>1. /\ pc'[q] \in {"get_link_user", "refused"}
        /\ pc'[q] = "get_link_user" /\ job[q].kind = "reset"
             => /\ links[job[q].target].st = "live"
                /\ links[job[q].target].purpose = "password_reset"
        /\ links' = links
    BY <1>7 DEF GetLink, Goto, PurposeOf, Typed, TypeOK
  <2>2. QED  BY <1>2, <2>1 DEF UsesOwnLink, LinksGone
<1>8. CASE GetLinkUser(q)
  <2> DEFINE link == links[job[q].target]
  <2>1. /\ pc[q] = "get_link_user" /\ job[q].target \in Requests /\ link.st # "none"
    BY <1>1, <1>8 DEF GetLinkUser, JobAtStep, Target, LinkStored
  <2>2. link.user \in Ids
    BY <2>1 DEF Typed, LinkInv, LinkStored
  <2>3. /\ pc'[q] \in {"write_password", "write_verified", "refused"} /\ links' = links
        /\ pc'[q] = "write_password" => row'[q] = users[link.user] /\ users[link.user].st = "stored"
    BY <1>8 DEF GetLinkUser, Goto, Typed, TypeOK
  <2>4. pc'[q] = "write_password" => row'[q].id = link.user
    BY <2>2, <2>3 DEF Typed, UserInv, OwnId
  <2>5. QED  BY <1>1, <1>2, <2>1, <2>3, <2>4 DEF UsesOwnLink, LinksGone
<1>9. CASE WritesCopy(q)
  <2>1. PICK new \in User, l \in {"ok", "refused", "drop_links", "drop_link"} : Written(q, new, l)
    BY <1>9, CopyWritten
  <2>2. /\ links' = links /\ row' = row
        /\ pc'[q] \in {"ok", "refused", "drop_links", "drop_link", "error"}
    BY <2>1 DEF Written, Write, Goto, Typed, TypeOK
  <2>3. /\ job[q].kind = "reset" => pc[q] = "write_password" /\ pc'[q] # "ok"
        /\ job[q].kind = "activate" => pc'[q] \in {"drop_link", "error"}
        /\ job[q].kind = "activate" => pc[q] = "write_verified"
    BY <1>1, <1>9 DEF JobAtStep, WritesCopy, CountFailure, RecordLogin, WritePassword, WriteProfile,
       WriteVerified, Write, Goto, LinkUsers, LinkSenders, Creations, Profile, Typed, TypeOK
  <2>4. QED  BY <1>1, <1>2, <1>6, <2>2, <2>3 DEF UsesOwnLink, LinksGone
<1>10. CASE DropLinks(q)
  <2>1. /\ pc[q] = "drop_links" /\ row' = row /\ Drop(Dropped(Subject(q), PurposeOf(q)))
        /\ pc'[q] = IF job[q].kind \in LinkSenders THEN "store_link" ELSE "ok"
    BY <1>10 DEF DropLinks, Goto, locals, Typed, TypeOK
  <2>2. ASSUME job[q].kind # "delete", NEW l \in out[q], Subjected(q, l)'
        PROVE  links'[l].st = "gone"
    <3>1. links[l].user = row[q].id /\ links[l].purpose = PurposeOf(q)
      BY <1>2, <1>3, <1>4, <2>1, <2>2 DEF Subjected
    <3>2. l \in Dropped(Subject(q), PurposeOf(q))
      BY <1>4, <2>2, <3>1 DEF Dropped, Subject
    <3>3. links'[l].st # "live"
      BY <1>4, <2>1, <3>2 DEF Drop, Link, Typed, TypeOK
    <3>4. QED  BY <1>3, <1>4, <3>3
  <2>3. links'[q].st = "none"
    BY <1>6, <2>1 DEF Drop, Link, Typed, TypeOK
  <2>4. job[q].kind \in LinkSenders \cup {"reset", "delete"}
    BY <1>1, <2>1 DEF JobAtStep
  <2>5. job[q].kind = "reset" =>
          /\ links'[job[q].target].st # "none"
          /\ links'[job[q].target].purpose = "password_reset"
          /\ links'[job[q].target].user = row[q].id
    BY <1>1, <1>3, <2>1 DEF UsesOwnLink, Target, LinkUsers
  <2>6. QED
    BY <1>2, <2>1, <2>2, <2>3, <2>4, <2>5 DEF UsesOwnLink, LinksGone, LinkSenders
<1>11. CASE StoreLink(q)
  <2>1. /\ pc[q] = "store_link" /\ pc'[q] = "ok" /\ row' = row /\ job[q].kind \in LinkSenders
    BY <1>1, <1>11 DEF StoreLink, Goto, locals, JobAtStep, Typed, TypeOK
  <2>2. \A l \in out[q] : Subjected(q, l)' => links'[l].st = "gone"
    <3>1. \A l \in out[q] : Subjected(q, l)' => Subjected(q, l)
      BY <1>2, <1>3, <1>4, <2>1 DEF Subjected
    <3>2. \A l \in out[q] : l # q
      BY <1>4, <1>6
    <3>3. \A l \in out[q] : links'[l] = links[l]
      BY <1>4, <1>11, <3>2 DEF StoreLink, Typed, TypeOK
    <3>4. QED  BY <1>1, <2>1, <3>1, <3>3 DEF LinksGone
  <2>3. QED  BY <1>2, <2>1, <2>2 DEF UsesOwnLink, LinksGone, LinkSenders
<1>12. CASE DropLink(q)
  <2>1. /\ pc[q] = "drop_link" /\ pc'[q] = "ok" /\ job[q].kind = "activate"
        /\ job[q].target \in Requests /\ Drop({job[q].target})
    BY <1>1, <1>12 DEF DropLink, Goto, JobAtStep, Target, LinkUsers, Typed, TypeOK
  <2>2. links'[job[q].target].st # "live" /\ links'[q].st = "none"
    BY <1>6, <2>1 DEF Drop, Link, Typed, TypeOK
  <2>3. links'[job[q].target].st # "none"
    BY <1>1, <1>3, <2>1 DEF UsesOwnLink
  <2>4. QED  BY <1>2, <2>1, <2>2, <2>3 DEF UsesOwnLink, LinksGone
<1>13. CASE CheckEmail(q) \/ Insert(q) \/ Find(q) \/ GetUser(q) \/ GetCurrent(q) \/ DeleteUser(q)
            \/ FindMailbox(q) \/ DropActivation(q)
  <2>1. job[q].kind \notin LinkUsers
    BY <1>1, <1>13 DEF JobAtStep, CheckEmail, Insert, Find, GetUser, GetCurrent, DeleteUser,
       FindMailbox, DropActivation, LinkUsers, LinkSenders, Creations, Profile
  <2>2. pc'[q] # "store_link"
    BY <1>13 DEF CheckEmail, Insert, Find, LoginVerdict, GetUser, AfterGetUser, GetCurrent,
       DeleteUser, FindMailbox, DropActivation, Goto, Typed, TypeOK
  <2>3. ~StoreLink(q)
    BY <1>13 DEF CheckEmail, Insert, Find, GetUser, GetCurrent, DeleteUser, FindMailbox,
       DropActivation, StoreLink
  <2>4. links'[q].st = "none"
    BY <1>6, <2>3, LinksNew
  <2>5. QED  BY <1>2, <2>1, <2>2, <2>4 DEF UsesOwnLink, LinksGone, LinkUsers
<1>14. QED
  BY <1>7, <1>8, <1>9, <1>10, <1>11, <1>12, <1>13 DEF Advance, WritesCopy

\* Every step keeps what the links that worked at an arrival are owed.
LEMMA DieNext == Typed /\ DieInv /\ [Next]_vars => DieInv'
<1> SUFFICES ASSUME Typed, DieInv, [Next]_vars, NEW q \in Requests
             PROVE  UsesOwnLink(q)' /\ LinksGone(q)'
  BY ArrivedNext DEF DieInv
<1>1. Typed'
  BY TypingNext
<1>2. CASE Advance(q)
  BY <1>1, <1>2, DieAdvance
<1>3. CASE Arrive(q)
  <2>1. pc'[q] \in Accepting
    BY <1>3, Arrival DEF Typed, TypeOK
  <2>2. QED  BY <2>1 DEF UsesOwnLink, LinksGone, Accepting
<1>4. CASE ~Advance(q) /\ pc'[q] = pc[q] /\ job'[q] = job[q] /\ row'[q] = row[q] /\ out'[q] = out[q]
  <2>1. ArrivedLinks(q) /\ UsesOwnLink(q) /\ LinksGone(q) /\ Target(q)
    BY DEF DieInv, Typed, JobInv
  <2>2. PurposeOf(q)' = PurposeOf(q)
    BY <1>4 DEF PurposeOf
  <2>3. ASSUME NEW l \in Requests, links[l].st # "none"
        PROVE  /\ links'[l].st # "none" /\ links'[l].user = links[l].user
               /\ links'[l].purpose = links[l].purpose
               /\ links[l].st # "live" => links'[l].st # "live"
               /\ links'[l].st # "live" => links'[l].st = "gone"
    BY <1>1, <2>3, LinksFinal DEF Typed, TypeOK, Link
  <2>4. links'[q].st # "none" => links[q].st # "none"
    BY <1>4, LinksNew DEF Advance
  <2>5. \A l \in out[q] : l \in Requests /\ links[l].st # "none"
    BY <2>1 DEF ArrivedLinks, Typed, TypeOK
  <2>6. UsesOwnLink(q)'
    BY <1>4, <2>1, <2>3 DEF UsesOwnLink, Target, LinkUsers
  <2>7. ASSUME NEW l \in out[q], links'[l].user = row'[q].id, links'[l].purpose = PurposeOf(q)'
        PROVE  Subjected(q, l) /\ (links[l].st = "gone" => links'[l].st = "gone")
    BY <1>4, <2>2, <2>3, <2>5, <2>7 DEF Subjected
  <2>8. pc[q] = "ok" /\ job[q].kind = "activate" => links'[job[q].target].st # "live"
    <3> SUFFICES ASSUME pc[q] = "ok", job[q].kind = "activate"
                 PROVE  links'[job[q].target].st # "live"
      OBVIOUS
    <3>1. /\ job[q].target \in Requests /\ links[job[q].target].st # "live"
          /\ links[job[q].target].st # "none"
      BY <2>1 DEF Target, LinksGone, UsesOwnLink, LinkUsers
    <3>2. QED  BY <2>3, <3>1
  <2>9. LinksGone(q)'
    <3> SUFFICES ASSUME NEW l \in out[q], links'[l].user = row'[q].id,
                        links'[l].purpose = PurposeOf(q)',
                        \/ pc[q] = "store_link"
                        \/ pc[q] = "ok" /\ job[q].kind = "reset"
                        \/ pc[q] = "ok" /\ links'[q].st # "none"
                 PROVE  links'[l].st = "gone"
      BY <1>4, <2>8 DEF LinksGone, Subjected
    <3>1. Subjected(q, l) /\ (links[l].st = "gone" => links'[l].st = "gone")
      BY <2>7
    <3>2. links[l].st = "gone"
      BY <2>1, <2>4, <3>1 DEF LinksGone
    <3>3. QED  BY <3>1, <3>2
  <2>10. QED  BY <2>6, <2>9
<1>5. ASSUME NEW r \in Requests, r # q, Arrive(r) \/ Advance(r), ~Advance(q)
      PROVE  UsesOwnLink(q)' /\ LinksGone(q)'
  BY <1>4, <1>5, OthersKept
<1>6. QED
  BY <1>2, <1>3, <1>4, <1>5 DEF Next, Tick, SweepLinks, vars, history, locals

\* A link that worked when a request arrived is dead when that request has been answered,
\* if it has used the link, mailed a newer one or reset the password (Activate,
\* ResetPassword, sendUserToken).
THEOREM LinksDieHolds == Spec => []LinksDie
<1>1. Spec => []Typed
  BY TypingInit, TypingNext, PTL DEF Spec
<1>2. Init => DieInv
  BY DEF Init, DieInv, ArrivedLinks, UsesOwnLink, LinksGone
<1>3. Typed /\ DieInv => LinksDie
  <2> SUFFICES ASSUME Typed, DieInv, NEW r \in Requests, pc[r] = "ok",
                      job[r].kind \in LinkUsers \cup LinkSenders, NEW l \in out[r],
                      \/ job[r].kind \in LinkUsers /\ l = job[r].target
                      \/ /\ row[r].id = links[l].user /\ PurposeOf(r) = links[l].purpose
                         /\ job[r].kind = "reset" \/ links[r].st # "none"
               PROVE  links[l].st = "gone"
    BY DEF LinksDie
  <2>1. ArrivedLinks(r) /\ UsesOwnLink(r) /\ LinksGone(r) /\ Target(r)
    BY DEF DieInv, Typed, JobInv
  <2>2. l \in Requests /\ links[l].st \in {"live", "gone"}
    BY <2>1 DEF ArrivedLinks, Typed, TypeOK, Link
  <2>3. CASE job[r].kind \in LinkUsers /\ l = job[r].target
    BY <2>1, <2>2, <2>3 DEF LinkUsers, LinksGone, UsesOwnLink, Subjected, PurposeOf
  <2>4. CASE ~(job[r].kind \in LinkUsers /\ l = job[r].target)
    BY <2>1, <2>4 DEF LinksGone, Subjected
  <2>5. QED  BY <2>3, <2>4
<1>4. QED  BY <1>1, <1>2, <1>3, DieNext, PTL DEF Spec

--------------------------------------------------------------------------------
(***************************************************************************)
(* Stamps: a stamp is new when it is written.                              *)
(***************************************************************************)
Unwritten(r) ==
  pc[r] \in {"idle", "check_email", "insert", "get_user", "get_current", "write_profile",
             "get_link", "get_link_user", "write_password"}

StampUnused(r) ==
  /\ \A u \in Ids : users[u].stamp # r
  /\ \A q \in Requests : row[q].stamp # r /\ sessions[q].stamp # r

\* A session is that of a sign-in that has been answered.
SessionKnown(s) == sessions[s].user # None => sessions[s].user \in Ids /\ pc[s] = "ok"

\* UpdateUser compares with a row it has read.
Compared(r) ==
  pc[r] = "write_profile" \/ (pc[r] = "check_email" /\ job[r].kind \notin Creations)
    => cur[r].st = "stored"

\* An ended session has a stamp its user no longer has.
Outdated(s) ==
  sessions[s].user \notin lost =>
    /\ sessions[s].user \in Ids
    /\ sessions[s].stamp # users[sessions[s].user].stamp

StampInv ==
  /\ \A r \in Requests : Unwritten(r) => StampUnused(r)
  /\ \A s \in Requests : SessionKnown(s)
  /\ \A r \in Requests : Compared(r)
  /\ \A s \in ended : sessions[s].user # None /\ Outdated(s)

\* The stamp a copy is written back with.
Stamping(r, new) ==
  \/ Kept(row[r], new) /\ pc[r] # "write_password"
  \/ new.stamp = r /\ Unwritten(r)
  \/ /\ pc[r] = "write_profile" /\ new.stamp = row[r].stamp
     /\ new.email = cur[r].email /\ (cur[r].enabled => new.enabled)

\* The stamp of a copy that is written back is that of the copy, or new; it is that of the
\* copy in UpdateUser only if email and enabled are those of the row it compares with.
LEMMA CopyStamped ==
  ASSUME Typed, NEW r \in Requests, WritesCopy(r)
  PROVE  \E new \in User, l \in {"ok", "refused", "drop_links", "drop_link"} :
           Written(r, new, l) /\ Stamping(r, new)
<1>1. CASE CountFailure(r)
  <2>1. PICK new \in User : Written(r, new, "refused") /\ Kept(row[r], new)
    BY <1>1, CountFailureWrites
  <2>2. pc[r] # "write_password"
    BY <1>1 DEF CountFailure
  <2>3. QED  BY <2>1, <2>2 DEF Stamping
<1>2. CASE RecordLogin(r)
  <2>1. PICK new \in User : Written(r, new, "ok") /\ Kept(row[r], new)
    BY <1>2, RecordLoginWrites
  <2>2. pc[r] # "write_password"
    BY <1>2 DEF RecordLogin
  <2>3. QED  BY <2>1, <2>2 DEF Stamping
<1>3. CASE WriteVerified(r)
  <2>1. PICK new \in User : Written(r, new, "drop_link") /\ Kept(row[r], new)
    BY <1>3, WriteVerifiedWrites
  <2>2. pc[r] # "write_password"
    BY <1>3 DEF WriteVerified
  <2>3. QED  BY <2>1, <2>2 DEF Stamping
<1>4. CASE WritePassword(r)
  <2>1. PICK new \in User : /\ Written(r, new, IF job[r].kind = "reset" THEN "drop_links" ELSE "ok")
                            /\ new.stamp = r
    BY <1>4, WritePasswordWrites
  <2>2. Unwritten(r)
    BY <1>4 DEF WritePassword, Unwritten
  <2>3. QED  BY <2>1, <2>2 DEF Stamping
<1>5. CASE WriteProfile(r)
  <2>1. PICK new \in User :
          /\ Written(r, new, "ok")
          /\ IF (~new.enabled /\ cur[r].enabled) \/ new.email # cur[r].email
               THEN new.stamp = r ELSE new.stamp = row[r].stamp
    BY <1>5, WriteProfileWrites
  <2>2. Unwritten(r) /\ pc[r] = "write_profile"
    BY <1>5 DEF WriteProfile, Unwritten
  <2>3. Stamping(r, new)
    BY <2>1, <2>2 DEF Stamping
  <2>4. QED  BY <2>1, <2>3
<1>6. QED  BY <1>1, <1>2, <1>3, <1>4, <1>5 DEF WritesCopy

\* A sign-in that has written its copy sets its session, nothing else sets one.
LEMMA SessionsSet ==
  ASSUME Typed, NEW r \in Requests, Arrive(r) \/ Advance(r)
  PROVE  \/ sessions' = sessions
         \/ /\ pc[r] = "record_login" /\ pc'[r] = "ok"
            /\ \E e : sessions' = [sessions EXCEPT ![r] = [user |-> row[r].id, stamp |-> row[r].stamp,
                                                            exp |-> e]]
<1>1. CASE Arrive(r)
  BY <1>1, Arrival
<1>2. CASE RecordLogin(r)
  BY <1>2 DEF RecordLogin
<1>3. CASE Advance(r) /\ ~RecordLogin(r)
  BY <1>3 DEF Advance, CheckEmail, Insert, Find, CountFailure, GetUser, WritePassword, GetCurrent,
     WriteProfile, DeleteUser, FindMailbox, DropActivation, DropLinks, StoreLink, GetLink,
     GetLinkUser, WriteVerified, DropLink
<1>4. QED  BY <1>1, <1>2, <1>3

\* A copy is that of a stored user, or made by an insert.
LEMMA RowsRead ==
  ASSUME Typed, NEW r \in Requests, Arrive(r) \/ Advance(r)
  PROVE  row' = row \/ Insert(r) \/ \E u \in Stored : row' = [row EXCEPT ![r] = users[u]]
<1>1. CASE Arrive(r)
  BY <1>1, Arrival
<1>2. CASE WritesCopy(r)
  BY <1>2, CopyWritten DEF Written
<1>3. CASE Find(r) \/ FindMailbox(r)
  BY <1>3 DEF Find, FindMailbox
<1>4. CASE GetUser(r)
  <2>1. job[r].target \in Ids
    BY <1>4 DEF GetUser, Typed, JobInv, JobAtStep, Target
  <2>2. QED  BY <1>4, <2>1 DEF GetUser, Stored
<1>5. CASE GetLinkUser(r)
  <2>1. job[r].target \in Requests /\ links[job[r].target].st # "none"
    BY <1>5 DEF GetLinkUser, Typed, JobInv, JobAtStep, Target, LinkInv, LinkStored
  <2>2. links[job[r].target].user \in Ids
    BY <2>1 DEF Typed, LinkInv, LinkStored
  <2>3. QED  BY <1>5, <2>2 DEF GetLinkUser, Stored
<1>6. CASE \/ CheckEmail(r) \/ GetCurrent(r) \/ DeleteUser(r) \/ DropActivation(r) \/ DropLinks(r)
           \/ StoreLink(r) \/ GetLink(r) \/ DropLink(r)
  BY <1>6 DEF CheckEmail, GetCurrent, DeleteUser, DropActivation, DropLinks, StoreLink, GetLink,
     DropLink, locals
<1>7. QED  BY <1>1, <1>2, <1>3, <1>4, <1>5, <1>6 DEF Advance, WritesCopy

\* What a step does to the stamps of users: none is new but that of its request, which has
\* then written.
LEMMA StampsWritten ==
  ASSUME Typed, NEW r \in Requests, Arrive(r) \/ Advance(r), NEW u \in Ids
  PROVE  \/ users'[u].stamp = users[u].stamp
         \/ users'[u].stamp = row[r].stamp
         \/ users'[u].stamp = r /\ ~Unwritten(r)'
<1>1. CASE WritesCopy(r)
  <2>1. PICK new \in User, l \in {"ok", "refused", "drop_links", "drop_link"} :
          Written(r, new, l) /\ Stamping(r, new)
    BY <1>1, CopyStamped
  <2>2. users' = users \/ (users' = [users EXCEPT ![row[r].id] = new] /\ pc'[r] = l)
    BY <2>1 DEF Written, Write, Goto, Typed, TypeOK
  <2>3. new.stamp = row[r].stamp \/ new.stamp = r
    BY <2>1 DEF Stamping, Kept
  <2>4. QED  BY <2>1, <2>2, <2>3 DEF Unwritten, Typed, TypeOK
<1>2. CASE Insert(r)
  <2>1. Created(r).stamp = r /\ r \in Ids
    BY CreatedType
  <2>2. users' = users
        \/ /\ users' = [users EXCEPT ![r] = Created(r)]
           /\ pc'[r] \in {"drop_links", "ok"}
    BY <1>2 DEF Insert, Created, Goto, Typed, TypeOK
  <2>3. QED  BY <2>1, <2>2 DEF Unwritten, Typed, TypeOK
<1>3. CASE DeleteUser(r)
  <2>1. \A v \in Ids : [users[v] EXCEPT !.st = "gone"].stamp = users[v].stamp
    BY UserWithSt DEF Kept, Typed, TypeOK
  <2>2. job[r].target \in Ids
    BY <1>3 DEF DeleteUser, Typed, JobInv, JobAtStep, Target
  <2>3. QED  BY <1>3, <2>1, <2>2 DEF DeleteUser, Typed, TypeOK
<1>4. CASE UNCHANGED users
  BY <1>4
<1>5. QED  BY <1>1, <1>2, <1>3, <1>4, UsersKept DEF Advance, WritesCopy

\* A request that has written does not come to write again.
LEMMA UnwrittenBefore ==
  ASSUME Typed, NEW r \in Requests, Arrive(r) \/ Advance(r), Unwritten(r)'
  PROVE  Unwritten(r) /\ ~Insert(r) /\ ~WritesCopy(r)
<1>1. CASE Arrive(r)
  <2>1. pc[r] = "idle"
    BY <1>1, Arrival
  <2>2. QED
    BY <2>1 DEF Unwritten, Insert, WritesCopy, CountFailure, RecordLogin, WritePassword, WriteProfile,
       WriteVerified
<1>2. CASE Advance(r)
  <2>1. ~WritesCopy(r)
    <3>1. ASSUME WritesCopy(r) PROVE ~Unwritten(r)'
      BY <3>1, CopyWritten DEF Written, Write, Goto, Unwritten, Typed, TypeOK
    <3>2. QED  BY <3>1
  <2>2. ~Insert(r)
    BY DEF Insert, Goto, Unwritten, Typed, TypeOK
  <2>3. CASE CheckEmail(r) \/ GetUser(r) \/ GetCurrent(r) \/ GetLink(r) \/ GetLinkUser(r)
    BY <2>1, <2>2, <2>3 DEF CheckEmail, GetUser, GetCurrent, GetLink, GetLinkUser, Unwritten
  <2>4. CASE \/ Find(r) \/ DeleteUser(r) \/ FindMailbox(r) \/ DropActivation(r) \/ DropLinks(r)
             \/ StoreLink(r) \/ DropLink(r)
    BY <2>4 DEF Find, LoginVerdict, DeleteUser, FindMailbox, DropActivation, DropLinks, StoreLink,
       DropLink, Goto, Unwritten, Typed, TypeOK
  <2>5. QED  BY <1>2, <2>1, <2>2, <2>3, <2>4 DEF Advance, WritesCopy
<1>3. QED  BY <1>1, <1>2

\* The stamp a request will write is nowhere before it does.
LEMMA StampUnusedNext ==
  ASSUME Typed, StampInv, [Next]_vars, NEW q \in Requests, Unwritten(q)'
  PROVE  StampUnused(q)'
<1>1. ASSUME UNCHANGED <<users, row, sessions, pc>>
      PROVE  StampUnused(q)'
  BY <1>1 DEF StampInv, Unwritten, StampUnused
<1>2. ASSUME NEW r \in Requests, Arrive(r) \/ Advance(r)
      PROVE  StampUnused(q)'
  <2>1. Unwritten(q) /\ StampUnused(q)
    <3>1. CASE q = r
      BY <1>2, <3>1, UnwrittenBefore DEF StampInv
    <3>2. CASE q # r
      <4>1. pc'[q] = pc[q]
        BY <1>2, <3>2, OthersKept
      <4>2. QED  BY <4>1 DEF StampInv, Unwritten
    <3>3. QED  BY <3>1, <3>2
  <2>2. \A u \in Ids : users'[u].stamp # q
    <3>1. q = r => Unwritten(r)'
      OBVIOUS
    <3>2. QED  BY <1>2, <2>1, <3>1, StampsWritten DEF StampUnused
  <2>3. \A p \in Requests : row'[p].stamp # q
    <3>1. CASE Insert(r)
      <4>1. Created(r).stamp = r
        BY CreatedType
      <4>2. q # r
        BY <1>2, <3>1, UnwrittenBefore
      <4>3. row' = row \/ row' = [row EXCEPT ![r] = Created(r)]
        BY <3>1 DEF Insert, Created
      <4>4. QED  BY <2>1, <4>1, <4>2, <4>3 DEF StampUnused, Typed, TypeOK
    <3>2. CASE row' = row \/ \E u \in Stored : row' = [row EXCEPT ![r] = users[u]]
      BY <2>1, <3>2 DEF StampUnused, Stored, Typed, TypeOK
    <3>3. QED  BY <1>2, <3>1, <3>2, RowsRead
  <2>4. \A p \in Requests : sessions'[p].stamp # q
    BY <1>2, <2>1, SessionsSet DEF StampUnused, Typed, TypeOK
  <2>5. QED  BY <2>2, <2>3, <2>4 DEF StampUnused
<1>3. QED  BY <1>1, <1>2 DEF Next, Tick, SweepLinks, vars, locals

\* Sessions belong to answered sign-ins.
LEMMA SessionKnownNext ==
  ASSUME Typed, StampInv, [Next]_vars, NEW s \in Requests
  PROVE  SessionKnown(s)'
<1>1. SessionKnown(s)
  BY DEF StampInv
<1>2. CASE UNCHANGED <<sessions, pc>>
  BY <1>1, <1>2 DEF SessionKnown
<1>3. ASSUME NEW r \in Requests, r # s, Arrive(r) \/ Advance(r)
      PROVE  SessionKnown(s)'
  BY <1>1, <1>3, OthersKept DEF SessionKnown
<1>4. CASE Arrive(s) \/ Advance(s)
  <2>1. pc[s] # "ok"
    BY <1>4, Arrival DEF Advance, CheckEmail, Insert, Find, CountFailure, RecordLogin, GetUser,
       WritePassword, GetCurrent, WriteProfile, DeleteUser, FindMailbox, DropActivation, DropLinks,
       StoreLink, GetLink, GetLinkUser, WriteVerified, DropLink
  <2>2. CASE sessions' = sessions
    BY <1>1, <2>1, <2>2 DEF SessionKnown
  <2>3. CASE /\ pc[s] = "record_login" /\ pc'[s] = "ok"
             /\ \E e : sessions' = [sessions EXCEPT ![s] = [user |-> row[s].id, stamp |-> row[s].stamp,
                                                             exp |-> e]]
    <3>1. row[s].id \in Ids
      BY <2>3 DEF Typed, CopyInv, CopyRead, HasCopy
    <3>2. QED  BY <2>3, <3>1 DEF SessionKnown, Typed, TypeOK
  <2>4. QED  BY <1>4, <2>2, <2>3, SessionsSet
<1>5. QED  BY <1>2, <1>3, <1>4 DEF Next, Tick, SweepLinks, vars, locals

\* What UpdateUser compares with was a stored row.
LEMMA ComparedNext ==
  ASSUME Typed, StampInv, [Next]_vars, NEW q \in Requests
  PROVE  Compared(q)'
<1>1. Compared(q)
  BY DEF StampInv
<1>2. CASE UNCHANGED <<cur, pc, job>>
  BY <1>1, <1>2 DEF Compared
<1>3. ASSUME NEW r \in Requests, r # q, Arrive(r) \/ Advance(r)
      PROVE  Compared(q)'
  BY <1>1, <1>3, OthersKept DEF Compared
<1>4. CASE Arrive(q)
  <2>1. ASSUME NEW e \in Emails, NEW p \in Passwords, AcceptRegister(q, e, p)
        PROVE  job'[q].kind \in Creations
    BY <2>1 DEF AcceptRegister, Accept, NoJob, Creations, Typed, TypeOK
  <2>2. ASSUME NEW kind \in {"create", "invite"}, NEW e \in Emails, NEW new \in NewAccounts,
               AcceptCreate(q, kind, e, new[1], new[2], new[3])
        PROVE  job'[q].kind \in Creations
    BY <2>2 DEF AcceptCreate, Accept, NoJob, Creations, Typed, TypeOK
  <2>4. pc'[q] = "check_email" => job'[q].kind \in Creations
    BY <1>4, <2>1, <2>2 DEF Arrive, AcceptLogin, AcceptSetPassword, AcceptUpdate, AcceptUnlock,
       AcceptDelete, AcceptSend, AcceptSendById, AcceptActivate, AcceptReset, Accept, Goto,
       Typed, TypeOK
  <2>3. pc'[q] # "write_profile"
    BY <1>4, Arrival DEF Accepting, Typed, TypeOK
  <2>5. QED  BY <2>3, <2>4 DEF Compared
<1>5. CASE GetCurrent(q)
  BY <1>5 DEF GetCurrent, Goto, Compared, Typed, TypeOK
<1>6. CASE CheckEmail(q)
  BY <1>1, <1>6 DEF CheckEmail, Goto, Compared, Typed, TypeOK, locals
<1>7. CASE WritesCopy(q)
  BY <1>7, CopyWritten DEF Written, Write, Goto, Compared, Typed, TypeOK
<1>8. CASE \/ Insert(q) \/ Find(q) \/ GetUser(q) \/ DeleteUser(q) \/ FindMailbox(q)
           \/ DropActivation(q) \/ DropLinks(q) \/ StoreLink(q) \/ GetLink(q) \/ GetLinkUser(q)
           \/ DropLink(q)
  BY <1>8 DEF Insert, Find, LoginVerdict, GetUser, AfterGetUser, DeleteUser, FindMailbox,
     DropActivation, DropLinks, StoreLink, GetLink, GetLinkUser, DropLink, Goto, Compared, Typed, TypeOK
<1>9. QED
  BY <1>2, <1>3, <1>4, <1>5, <1>6, <1>7, <1>8
     DEF Next, Tick, SweepLinks, vars, locals, Advance, WritesCopy

\* A session that is ended, or was, has lost its stamp.
LEMMA OutdatedNext ==
  ASSUME Typed, StampInv, [Next]_vars, NEW s \in ended'
  PROVE  sessions'[s].user # None /\ Outdated(s)'
<1> SUFFICES sessions'[s].user \in Ids /\ Outdated(s)'
  BY AccountsAssumption
<1>1. s \in Requests
  BY TypingNext DEF Typed, TypeOK
<1>2. ASSUME s \in ended
      PROVE  /\ sessions[s].user \in Ids /\ pc[s] = "ok" /\ Outdated(s)
  BY <1>1, <1>2 DEF StampInv, SessionKnown
<1>3. CASE UNCHANGED <<users, sessions, lost, ended>>
  BY <1>2, <1>3 DEF Outdated
<1>4. ASSUME NEW r \in Requests, r = s, Arrive(r) \/ Advance(r)
      PROVE  s \notin ended
  BY <1>2, <1>4, Arrival DEF Advance, CheckEmail, Insert, Find, CountFailure, RecordLogin, GetUser,
       WritePassword, GetCurrent, WriteProfile, DeleteUser, FindMailbox, DropActivation, DropLinks,
       StoreLink, GetLink, GetLinkUser, WriteVerified, DropLink
<1>5. ASSUME NEW r \in Requests, Insert(r)
      PROVE  sessions'[s].user \in Ids /\ Outdated(s)'
  <2>1. s \in ended /\ UNCHANGED <<sessions, lost>>
    BY <1>5 DEF Insert, history
  <2>2. sessions[s].stamp # r
    BY <1>1, <1>5 DEF Insert, StampInv, Unwritten, StampUnused
  <2>3. users' = users
        \/ /\ users' = [users EXCEPT ![r] = Created(r)]
    BY <1>5 DEF Insert, Created
  <2>4. Created(r).stamp = r
    BY CreatedType
  <2>5. QED  BY <1>2, <2>1, <2>2, <2>3, <2>4 DEF Outdated, Typed, TypeOK
<1>6. ASSUME NEW r \in Requests, DeleteUser(r)
      PROVE  sessions'[s].user \in Ids /\ Outdated(s)'
  <2>1. s \in ended /\ UNCHANGED <<sessions, lost>>
    BY <1>6 DEF DeleteUser, history
  <2>2. \A u \in Ids : users'[u].stamp = users[u].stamp
    <3>1. \A v \in Ids : [users[v] EXCEPT !.st = "gone"].stamp = users[v].stamp
      BY UserWithSt DEF Kept, Typed, TypeOK
    <3>2. job[r].target \in Ids
      BY <1>6 DEF DeleteUser, Typed, JobInv, JobAtStep, Target
    <3>3. QED  BY <1>6, <3>1, <3>2 DEF DeleteUser, Typed, TypeOK
  <2>3. QED  BY <1>2, <2>1, <2>2 DEF Outdated
<1>7. ASSUME NEW r \in Requests, WritesCopy(r)
      PROVE  sessions'[s].user \in Ids /\ Outdated(s)'
  <2>1. PICK new \in User, l \in {"ok", "refused", "drop_links", "drop_link"} :
          Written(r, new, l) /\ Stamping(r, new)
    BY <1>7, CopyStamped
  <2> DEFINE id == row[r].id
  <2>2. s # r /\ sessions'[s] = sessions[s]
    <3>1. Advance(r)
      BY <1>7 DEF Advance, WritesCopy
    <3>2. s = r => s \notin ended /\ sessions[s].user = None
      <4>1. pc[r] # "ok"
        BY <2>1 DEF Written
      <4>2. QED  BY <1>2, <4>1 DEF StampInv, SessionKnown
    <3>3. s \in ended \/ sessions[s].user = id
      BY <2>1 DEF Written, Write
    <3>4. id # None
      BY <2>1, AccountsAssumption DEF Written
    <3>5. s # r
      BY <3>2, <3>3, <3>4
    <3>6. QED  BY <1>1, <3>1, <3>5, OthersKept
  <2>3. CASE UNCHANGED <<users, lost, ended>>
    BY <1>2, <2>2, <2>3 DEF Outdated
  <2>4. CASE /\ users' = [users EXCEPT ![id] = new]
             /\ lost' = IF users[id] # row[r] \/ (cur[r] # NoUser /\ users[id] # cur[r])
                          THEN lost \cup {id} ELSE lost
             /\ ended' = IF EndsSessions(r, users[id], new)
                           THEN ended \cup {q \in Requests : sessions[q].user = id} ELSE ended
    <3>1. sessions[s].user \in Ids
      BY <1>2, <2>1, <2>4 DEF Written
    <3> SUFFICES ASSUME sessions[s].user \notin lost'
                 PROVE  sessions[s].stamp # users'[sessions[s].user].stamp
      BY <2>2, <3>1 DEF Outdated
    <3>2. CASE sessions[s].user # id
      BY <1>2, <2>4, <3>1, <3>2 DEF Outdated, Typed, TypeOK
    <3>3. CASE sessions[s].user = id
      <4>1. users[id] = row[r] /\ (cur[r] # NoUser => users[id] = cur[r]) /\ id \notin lost
        BY <2>4, <3>3
      <4>2. users'[id] = new
        BY <2>4, <3>1, <3>3 DEF Typed, TypeOK
      <4>3. CASE new.stamp = r /\ Unwritten(r)
        BY <1>1, <3>3, <4>2, <4>3 DEF StampInv, StampUnused
      <4>4. CASE Kept(row[r], new) /\ pc[r] # "write_password"
        <5>1. s \in ended
          BY <2>4, <4>1, <4>4 DEF EndsSessions, Kept
        <5>2. QED  BY <1>2, <3>3, <4>1, <4>2, <4>4, <5>1 DEF Outdated, Kept
      <4>5. CASE /\ pc[r] = "write_profile" /\ new.stamp = row[r].stamp
                 /\ new.email = cur[r].email /\ (cur[r].enabled => new.enabled)
        <5>1. cur[r] # NoUser
          BY <4>5, NoUserType DEF StampInv, Compared
        <5>2. s \in ended
          BY <2>4, <4>1, <4>5, <5>1 DEF EndsSessions
        <5>3. QED  BY <1>2, <3>3, <4>1, <4>2, <4>5, <5>2 DEF Outdated
      <4>6. QED  BY <2>1, <4>3, <4>4, <4>5 DEF Stamping
    <3>4. QED  BY <3>2, <3>3
  <2>5. QED  BY <2>1, <2>3, <2>4 DEF Written, Write
<1>8. ASSUME NEW r \in Requests, Arrive(r) \/ Advance(r), UNCHANGED <<users, lost, ended>>,
             ~WritesCopy(r)
      PROVE  sessions'[s].user \in Ids /\ Outdated(s)'
  <2>1. s # r /\ s \in ended
    BY <1>4, <1>8
  <2>2. sessions'[s] = sessions[s]
    BY <1>1, <1>8, <2>1, OthersKept
  <2>3. QED  BY <1>2, <1>8, <2>1, <2>2 DEF Outdated
<1>9. ASSUME NEW r \in Requests, Arrive(r) \/ Advance(r)
      PROVE  sessions'[s].user \in Ids /\ Outdated(s)'
  BY <1>5, <1>6, <1>7, <1>8, <1>9, UsersKept DEF Advance, WritesCopy
<1>10. QED  BY <1>3, <1>9 DEF Next, Tick, SweepLinks, vars, history

\* No stamp of a request is in use at first.
LEMMA StampInit == Init => StampInv
<1> SUFFICES ASSUME Init PROVE StampInv
  OBVIOUS
<1>1. \A u \in Ids : users[u].stamp \notin Requests
  <2>1. ASSUME NEW u \in Existing
        PROVE  users[u].stamp = u
    <3>1. /\ u \in Ids /\ TRUE \in BOOLEAN
          /\ SeedEmail[u] \in Emails \cup {None} /\ SeedPassword[u] \in Passwords \cup {None}
      BY AccountsAssumption DEF Ids
    <3>2. users[u] = NewUser(u, SeedEmail[u], SeedPassword[u], TRUE, TRUE)
      BY <3>1 DEF Init
    <3>3. NewUser(u, SeedEmail[u], SeedPassword[u], TRUE, TRUE).stamp = u
      BY <3>1, NewUserType
    <3>4. QED  BY <3>2, <3>3
  <2>2. ASSUME NEW u \in Ids, u \notin Existing
        PROVE  users[u].stamp = None
    BY <2>2, NoUserType DEF Init
  <2>3. QED  BY <2>1, <2>2, AccountsAssumption DEF Ids
<1>2. \A r \in Requests : row[r].stamp = None /\ sessions[r].stamp = None /\ sessions[r].user = None
  BY NoUserType DEF Init, NoSession
<1>3. None \notin Requests
  BY AccountsAssumption DEF Ids
<1>4. \A r \in Requests : pc[r] = "idle"
  BY DEF Init
<1>5. ended = {}
  BY DEF Init
<1>6. QED  BY <1>1, <1>2, <1>3, <1>4, <1>5 DEF StampInv, StampUnused, SessionKnown, Compared

\* Every step keeps what the stamps say.
LEMMA StampNext == Typed /\ StampInv /\ [Next]_vars => StampInv'
BY StampUnusedNext, SessionKnownNext, ComparedNext, OutdatedNext DEF StampInv

\* A session that a new password, a new email or disabling has ended is never valid again
\* (CurrentUser compares the stamps), as long as nobody writes a stale copy of the user back.
THEOREM EndedStayEndedHolds == Spec => []EndedStayEnded
<1>1. Spec => []Typed
  BY TypingInit, TypingNext, PTL DEF Spec
<1>2. Typed /\ StampInv => EndedStayEnded
  BY DEF StampInv, Outdated, EndedStayEnded, SignedIn
<1>3. QED  BY <1>1, <1>2, StampInit, StampNext, PTL DEF Spec

--------------------------------------------------------------------------------
(***************************************************************************)
(* What a request was asked, and what Authenticate has seen.               *)
(***************************************************************************)
Asked(r) ==
  /\ job[r].kind \in {"login", "set_password", "reset"} => job[r].password \in Passwords
  /\ job[r].kind \in Creations \cup {"update"} => job[r].email \in Emails

\* The verdict of a login was right at the instant it read the row.
Judged(r) ==
  pc[r] \in {"count_failure", "record_login"} =>
    /\ row[r].locked <= at[r] /\ at[r] <= now
    /\ pc[r] = "count_failure" => row[r].password # job[r].password /\ MaxFailedAttempts > 0
    /\ pc[r] = "record_login" => row[r].password = job[r].password /\ CanSignIn(row[r])

Copied(r) == row[r].id # None => row[r].st = "stored" /\ row[r].stamp # None

LostKnown == \A u \in lost : users[u].st # "none"

RequestInv ==
  /\ LostKnown
  /\ \A r \in Requests : Asked(r) /\ Judged(r) /\ Copied(r)
  /\ \A u \in Ids : users[u].st = "stored" => users[u].stamp # None

\* The clock stands still while a request takes a step, and only a login reads it.
LEMMA ClockRead ==
  ASSUME NEW r \in Requests, Arrive(r) \/ Advance(r)
  PROVE  now' = now /\ (at' = at \/ at' = [at EXCEPT ![r] = now])
<1>1. CASE Arrive(r)
  BY <1>1 DEF Arrive, AcceptRegister, AcceptLogin, AcceptSetPassword, AcceptUpdate, AcceptUnlock,
     AcceptDelete, AcceptSend, AcceptCreate, AcceptSendById, AcceptActivate, AcceptReset, Accept, locals
<1>2. CASE Advance(r)
  BY <1>2 DEF Advance, CheckEmail, Insert, Find, CountFailure, RecordLogin, GetUser, WritePassword,
     GetCurrent, WriteProfile, DeleteUser, FindMailbox, DropActivation, DropLinks, StoreLink,
     GetLink, GetLinkUser, WriteVerified, DropLink, locals
<1>3. QED  BY <1>1, <1>2

\* A request is asked for a password or an address that there is.
LEMMA AskedArrive ==
  ASSUME Typed, NEW r \in Requests, Arrive(r)
  PROVE  Asked(r)'
<1>1. ASSUME NEW j, job' = [job EXCEPT ![r] = j],
             \/ j.kind \in {"activate", "unlock", "delete", "resend", "forgot",
                            "send_activation", "send_reset"}
             \/ j.kind \in {"register", "create", "invite", "update"} /\ j.email \in Emails
             \/ j.kind \in {"login", "set_password", "reset"} /\ j.password \in Passwords
      PROVE  Asked(r)'
  <2>1. job'[r] = j
    BY <1>1 DEF Typed, TypeOK
  <2>2. QED  BY <1>1, <2>1 DEF Asked, Creations
<1>2. ASSUME NEW e \in Emails, NEW p \in Passwords, AcceptRegister(r, e, p)
      PROVE  Asked(r)'
  <2> DEFINE j == [NoJob EXCEPT !.kind = "register", !.email = e, !.password = p,
                                !.verified = ~RequireActivation, !.enabled = TRUE]
  <2>1. j.kind = "register" /\ j.email = e
    BY DEF NoJob
  <2>2. job' = [job EXCEPT ![r] = j]
    BY <1>2 DEF AcceptRegister, Accept
  <2> HIDE DEF j
  <2>3. QED  BY <1>1, <2>1, <2>2
<1>3. ASSUME NEW e \in Emails, NEW p \in Passwords, AcceptLogin(r, e, p)
      PROVE  Asked(r)'
  BY <1>1, <1>3 DEF AcceptLogin, Accept, NoJob
<1>4. ASSUME NEW kind \in {"create", "invite"}, NEW e \in Emails, NEW new \in NewAccounts,
             AcceptCreate(r, kind, e, new[1], new[2], new[3])
      PROVE  Asked(r)'
  BY <1>1, <1>4 DEF AcceptCreate, Accept, NoJob
<1>5. ASSUME NEW u \in Ids, NEW p \in Passwords, AcceptSetPassword(r, u, p)
      PROVE  Asked(r)'
  BY <1>1, <1>5 DEF AcceptSetPassword, Accept, NoJob
<1>6. ASSUME NEW u \in Ids, NEW e \in Emails, NEW verified \in BOOLEAN, NEW enabled \in BOOLEAN,
             AcceptUpdate(r, u, e, verified, enabled)
      PROVE  Asked(r)'
  BY <1>1, <1>6 DEF AcceptUpdate, Accept, NoJob
<1>7. ASSUME NEW u \in Ids, AcceptUnlock(r, u) \/ AcceptDelete(r, u)
      PROVE  Asked(r)'
  BY <1>1, <1>7 DEF AcceptUnlock, AcceptDelete, Accept, NoJob
<1>8. ASSUME NEW kind \in {"resend", "forgot"}, NEW e \in Emails, AcceptSend(r, kind, e)
      PROVE  Asked(r)'
  BY <1>1, <1>8 DEF AcceptSend, Accept, NoJob
<1>9. ASSUME NEW kind \in {"send_activation", "send_reset"}, NEW u \in Ids, AcceptSendById(r, kind, u)
      PROVE  Asked(r)'
  BY <1>1, <1>9 DEF AcceptSendById, Accept, NoJob
<1>10. ASSUME NEW l \in Requests, AcceptActivate(r, l)
       PROVE  Asked(r)'
  BY <1>1, <1>10 DEF AcceptActivate, Accept, NoJob
<1>11. ASSUME NEW l \in Requests, NEW p \in Passwords, AcceptReset(r, l, p)
       PROVE  Asked(r)'
  BY <1>1, <1>11 DEF AcceptReset, Accept, NoJob
<1>12. QED
  BY <1>2, <1>3, <1>4, <1>5, <1>6, <1>7, <1>8, <1>9, <1>10, <1>11 DEF Arrive

\* Every request keeps what it was asked for.
LEMMA AskedNext ==
  ASSUME Typed, RequestInv, [Next]_vars, NEW q \in Requests
  PROVE  Asked(q)'
<1>1. Asked(q)
  BY DEF RequestInv
<1>2. CASE job' = job
  BY <1>1, <1>2 DEF Asked
<1>3. ASSUME NEW r \in Requests, Arrive(r)
      PROVE  Asked(q)'
  <2>1. CASE q = r
    BY <1>3, <2>1, AskedArrive
  <2>2. CASE q # r
    BY <1>1, <1>3, <2>2, OthersKept DEF Asked
  <2>3. QED  BY <2>1, <2>2
<1>4. QED  BY <1>2, <1>3, AdvanceKeeps DEF Next, Tick, SweepLinks, vars

\* A login that goes on has found the row as its verdict says.
LEMMA JudgedNext ==
  ASSUME Typed, RequestInv, [Next]_vars, NEW q \in Requests
  PROVE  Judged(q)'
<1>1. Judged(q)
  BY DEF RequestInv
<1>2. ASSUME UNCHANGED <<pc, job, row, at>>, now' = now \/ now' = now + 1
      PROVE  Judged(q)'
  BY <1>1, <1>2 DEF Judged, CanSignIn, Typed, TypeOK
<1>3. ASSUME NEW r \in Requests, r # q, Arrive(r) \/ Advance(r)
      PROVE  Judged(q)'
  <2>1. at'[q] = at[q] /\ now' = now
    BY <1>3, ClockRead DEF Typed, TypeOK
  <2>2. pc'[q] = pc[q] /\ job'[q] = job[q] /\ row'[q] = row[q]
    BY <1>3, OthersKept
  <2>3. QED  BY <1>1, <2>1, <2>2 DEF Judged, CanSignIn
<1>4. CASE Find(q)
  <2>1. CASE pc'[q] = "refused"
    BY <2>1 DEF Judged
  <2>2. CASE pc'[q] # "refused"
    <3>1. PICK u \in Stored : /\ row' = [row EXCEPT ![q] = users[u]]
                              /\ at' = [at EXCEPT ![q] = now]
                              /\ Goto(q, LoginVerdict(users[u], job[q].password, now))
      BY <1>4, <2>2 DEF Find, Goto, Typed, TypeOK
    <3>2. /\ row'[q] = users[u] /\ at'[q] = now /\ now' = now /\ job' = job
          /\ pc'[q] = LoginVerdict(users[u], job[q].password, now)
      BY <1>4, <3>1 DEF Find, Goto, Typed, TypeOK
    <3>3. users[u].locked \in Nat /\ now \in Nat
      BY DEF Typed, TypeOK, Stored, User
    <3>4. QED  BY <3>2, <3>3 DEF LoginVerdict, Judged, CanSignIn
  <2>3. QED  BY <2>1, <2>2
<1>5. CASE Arrive(q)
  BY <1>5, Arrival DEF Accepting, Judged, Typed, TypeOK
<1>6. CASE WritesCopy(q)
  BY <1>6, CopyWritten DEF Written, Write, Goto, Judged, Typed, TypeOK
<1>7. CASE \/ Insert(q) \/ CheckEmail(q) \/ GetUser(q) \/ DeleteUser(q) \/ FindMailbox(q)
           \/ DropActivation(q) \/ DropLinks(q) \/ StoreLink(q) \/ GetLink(q) \/ GetLinkUser(q)
           \/ DropLink(q) \/ GetCurrent(q)
  BY <1>7 DEF Insert, CheckEmail, GetUser, AfterGetUser, DeleteUser, FindMailbox,
     DropActivation, DropLinks, StoreLink, GetLink, GetLinkUser, DropLink, GetCurrent, Goto, Judged,
     Typed, TypeOK
<1>8. QED
  BY <1>2, <1>3, <1>4, <1>5, <1>6, <1>7
     DEF Next, Tick, SweepLinks, vars, locals, Advance, WritesCopy

\* A copy is that of a stored user, with a stamp.
LEMMA CopiedNext ==
  ASSUME Typed, RequestInv, [Next]_vars, NEW q \in Requests
  PROVE  Copied(q)'
<1>1. Copied(q)
  BY DEF RequestInv
<1>2. CASE row' = row
  BY <1>1, <1>2 DEF Copied
<1>3. ASSUME NEW r \in Requests, Insert(r)
      PROVE  Copied(q)'
  <2>1. row' = row \/ row' = [row EXCEPT ![r] = Created(r)]
    BY <1>3 DEF Insert, Created
  <2>2. Created(r).st = "stored" /\ Created(r).stamp = r /\ r # None
    BY CreatedType, AccountsAssumption
  <2>3. QED  BY <1>1, <2>1, <2>2 DEF Copied, Typed, TypeOK
<1>4. ASSUME NEW r \in Requests, NEW u \in Stored, row' = [row EXCEPT ![r] = users[u]]
      PROVE  Copied(q)'
  BY <1>1, <1>4 DEF Copied, Stored, RequestInv, Typed, TypeOK
<1>5. QED  BY <1>2, <1>3, <1>4, RowsRead DEF Next, Tick, SweepLinks, vars, locals

\* A stored user has a stamp.
LEMMA StampedNext ==
  ASSUME Typed, RequestInv, [Next]_vars, NEW u \in Ids, users'[u].st = "stored"
  PROVE  users'[u].stamp # None
<1>1. CASE users' = users
  BY <1>1 DEF RequestInv
<1>2. ASSUME NEW r \in Requests, WritesCopy(r)
      PROVE  users'[u].stamp # None
  <2>1. PICK new \in User, l \in {"ok", "refused", "drop_links", "drop_link"} :
          Written(r, new, l) /\ Stamping(r, new)
    BY <1>2, CopyStamped
  <2>2. users' = users \/ users' = [users EXCEPT ![row[r].id] = new]
    BY <2>1 DEF Written, Write
  <2>3. new.stamp \in {row[r].stamp, r} /\ row[r].id # None
    BY <2>1, AccountsAssumption DEF Stamping, Kept, Written
  <2>4. new.stamp # None
    BY <2>3, AccountsAssumption DEF RequestInv, Copied, Ids
  <2>5. QED  BY <2>2, <2>4 DEF RequestInv, Typed, TypeOK
<1>3. ASSUME NEW r \in Requests, Insert(r)
      PROVE  users'[u].stamp # None
  <2>1. users' = users \/ users' = [users EXCEPT ![r] = Created(r)]
    BY <1>3 DEF Insert, Created
  <2>2. Created(r).stamp = r /\ r # None
    BY CreatedType, AccountsAssumption
  <2>3. QED  BY <2>1, <2>2 DEF RequestInv, Typed, TypeOK
<1>4. ASSUME NEW r \in Requests, DeleteUser(r)
      PROVE  users'[u].stamp # None
  <2>1. \A v \in Ids : [users[v] EXCEPT !.st = "gone"].st = "gone"
    BY DEF Typed, TypeOK, User
  <2>2. job[r].target \in Ids
    BY <1>4 DEF DeleteUser, Typed, JobInv, JobAtStep, Target
  <2>3. users'[u] = users[u]
    BY <1>4, <2>1, <2>2 DEF DeleteUser, Typed, TypeOK
  <2>4. QED  BY <2>3 DEF RequestInv
<1>5. ASSUME NEW r \in Requests, Arrive(r) \/ Advance(r)
      PROVE  users'[u].stamp # None
  BY <1>1, <1>2, <1>3, <1>4, <1>5, UsersKept DEF Advance, WritesCopy
<1>6. QED  BY <1>1, <1>5 DEF Next, Tick, SweepLinks, vars

\* A copy of a stored user is written back as one.
LEMMA CopyWrittenStored ==
  ASSUME Typed, RequestInv, NEW r \in Requests, WritesCopy(r)
  PROVE  \E new \in User, l \in {"ok", "refused", "drop_links", "drop_link"} :
           Written(r, new, l) /\ new.st = "stored"
<1>1. row[r] \in User /\ row[r].st = "stored"
  BY AccountsAssumption, CopyWritten DEF Written, RequestInv, Copied, Typed, TypeOK
<1>2. Counted(r).st = "stored" /\ Recorded(r).st = "stored" /\ Verified(r).st = "stored"
  BY <1>1 DEF Counted, Recorded, Verified, User
<1>3. Repassworded(r).st = "stored"
  BY <1>1 DEF Repassworded, User
<1>4. Profiled(r).st = "stored"
  BY <1>1 DEF Profiled, Edited, User
<1>5. CASE CountFailure(r)
  BY <1>2, <1>5, CountFailureWrites
<1>6. CASE RecordLogin(r)
  BY <1>2, <1>6, RecordLoginWrites
<1>7. CASE WriteVerified(r)
  BY <1>2, <1>7, WriteVerifiedWrites
<1>8. CASE WritePassword(r)
  BY <1>3, <1>8, WritePasswordWrites
<1>9. CASE WriteProfile(r)
  BY <1>4, <1>9, WriteProfileWrites
<1>10. QED  BY <1>5, <1>6, <1>7, <1>8, <1>9 DEF WritesCopy

\* Only a user that was registered is overwritten.
LEMMA LostNext ==
  ASSUME Typed, RequestInv, [Next]_vars
  PROVE  LostKnown'
<1>1. CASE UNCHANGED <<users, lost>>
  BY <1>1 DEF RequestInv, LostKnown
<1>2. ASSUME NEW r \in Requests, WritesCopy(r)
      PROVE  LostKnown'
  <2>1. PICK new \in User, l \in {"ok", "refused", "drop_links", "drop_link"} :
          Written(r, new, l) /\ new.st = "stored"
    BY <1>2, CopyWrittenStored
  <2>2. \/ UNCHANGED <<users, lost>>
        \/ /\ users' = [users EXCEPT ![row[r].id] = new]
           /\ lost' \subseteq lost \cup {row[r].id}
    BY <2>1 DEF Written, Write
  <2>3. QED  BY <2>1, <2>2 DEF Written, RequestInv, LostKnown, Typed, TypeOK
<1>3. ASSUME NEW r \in Requests, Insert(r)
      PROVE  LostKnown'
  <2>1. users' = users \/ users' = [users EXCEPT ![r] = Created(r)]
    BY <1>3 DEF Insert, Created
  <2>2. Created(r).st = "stored" /\ lost' = lost
    BY <1>3, CreatedType DEF Insert, history
  <2>3. QED  BY <2>1, <2>2 DEF RequestInv, LostKnown, Typed, TypeOK
<1>4. ASSUME NEW r \in Requests, DeleteUser(r)
      PROVE  LostKnown'
  <2>1. \A v \in Ids : [users[v] EXCEPT !.st = "gone"].st = "gone"
    BY DEF Typed, TypeOK, User
  <2>2. job[r].target \in Ids /\ lost' = lost
    BY <1>4 DEF DeleteUser, Typed, JobInv, JobAtStep, Target, history
  <2>3. \A v \in Ids : users'[v] = users[v] \/ users'[v].st = "gone"
    BY <1>4, <2>1, <2>2 DEF DeleteUser, Typed, TypeOK
  <2>4. QED  BY <2>2, <2>3 DEF RequestInv, LostKnown, Typed, TypeOK
<1>5. ASSUME NEW r \in Requests, Arrive(r) \/ Advance(r)
      PROVE  LostKnown'
  BY <1>1, <1>2, <1>3, <1>4, <1>5, UsersKept DEF Advance, WritesCopy
<1>6. QED  BY <1>1, <1>5 DEF Next, Tick, SweepLinks, vars, history

\* The existing users at first: each is a new user with its seed.
LEMMA ExistingInit ==
  ASSUME Init, NEW u \in Existing
  PROVE  /\ users[u] = NewUser(u, SeedEmail[u], SeedPassword[u], TRUE, TRUE)
         /\ users[u].st = "stored" /\ users[u].stamp = u
<1>1. /\ u \in Ids /\ TRUE \in BOOLEAN
      /\ SeedEmail[u] \in Emails \cup {None} /\ SeedPassword[u] \in Passwords \cup {None}
  BY AccountsAssumption DEF Ids
<1>2. users[u] = NewUser(u, SeedEmail[u], SeedPassword[u], TRUE, TRUE)
  BY <1>1 DEF Init
<1>3. ASSUME NEW v \in BOOLEAN, NEW n \in BOOLEAN
      PROVE  /\ NewUser(u, SeedEmail[u], SeedPassword[u], v, n).st = "stored"
             /\ NewUser(u, SeedEmail[u], SeedPassword[u], v, n).stamp = u
  BY <1>1, NewUserType
<1>4. QED  BY <1>1, <1>2, <1>3, Zenon

\* No request has been asked anything at first.
LEMMA RequestInit == Init => RequestInv
<1> SUFFICES ASSUME Init PROVE RequestInv
  OBVIOUS
<1>1. \A r \in Requests : Asked(r) /\ Judged(r) /\ Copied(r)
  BY NoUserType DEF Init, Asked, Judged, Copied, NoJob, Creations
<1>2. ASSUME NEW u \in Ids, users[u].st = "stored"
      PROVE  users[u].stamp # None
  <2>1. u \in Existing
    BY <1>2, NoUserType DEF Init
  <2>2. users[u].stamp = u
    BY <2>1, ExistingInit
  <2>3. QED  BY <2>2, AccountsAssumption
<1>3. LostKnown
  BY DEF Init, LostKnown
<1>4. QED  BY <1>1, <1>2, <1>3 DEF RequestInv

\* Every step keeps what requests were asked and have seen.
LEMMA RequestNext == Typed /\ RequestInv /\ [Next]_vars => RequestInv'
BY AskedNext, JudgedNext, CopiedNext, StampedNext, LostNext DEF RequestInv

--------------------------------------------------------------------------------
(***************************************************************************)
(* Accounts implements Account.                                            *)
(***************************************************************************)
\* The variable of the abstract account.
account == [u \in Ids |-> AccountOf(u)]

\* Whatever an operation of the abstract account does, it is a step or changes nothing.
LEMMA WholeStep ==
  ASSUME NEW u \in Ids,
         \/ Whole!Overwrite(u) \/ Whole!Delete(u) \/ Whole!Verify(u) \/ Whole!Unlock(u)
         \/ Whole!WrongPassword(u) \/ Whole!SignIn(u) \/ Whole!SetPassword(u) \/ Whole!Edit(u)
         \/ Whole!Register(u)
  PROVE  [Whole!Next]_<<now, account, sessions>>
<1>1. now' = now /\ \E x : account' = [account EXCEPT ![u] = x]
  <2>1. ASSUME NEW x, Whole!Becomes(u, x)
        PROVE  now' = now /\ account' = [account EXCEPT ![u] = x]
    BY <2>1 DEF Whole!Becomes, account
  <2>2. CASE Whole!Overwrite(u)
    BY <2>2 DEF Whole!Overwrite, account
  <2>3. CASE Whole!SignIn(u)
    BY <2>3 DEF Whole!SignIn, account
  <2>4. QED
    BY <2>1, <2>2, <2>3 DEF Whole!Delete, Whole!Verify, Whole!Unlock, Whole!WrongPassword, Whole!SetPassword,
       Whole!Edit, Whole!Register
<1>2. CASE Whole!Changes(u)
  BY <1>2 DEF Whole!Next
<1>3. CASE ~Whole!Changes(u)
  <2>1. account'[u] = account[u] /\ sessions' = sessions
    BY <1>3 DEF Whole!Changes, account
  <2>2. account' = account
    BY <1>1, <2>1 DEF account
  <2>3. QED  BY <1>1, <2>1, <2>2
<1>4. QED  BY <1>2, <1>3

\* What the abstract account of a user is.
LEMMA AccountIs ==
  Typed => \A u \in Ids :
    /\ users[u].st = "none" => AccountOf(u) = Whole!Unregistered
    /\ users[u].st = "gone" => AccountOf(u) = Whole!Deleted
    /\ users[u].st = "stored" /\ u \in lost => AccountOf(u) = Whole!Overwritten
    /\ users[u].st = "stored" /\ u \notin lost => AccountOf(u) = users[u]
    /\ Whole!Known(u) <=> users[u].st = "stored" /\ u \notin lost
<1> SUFFICES ASSUME Typed, NEW u \in Ids
             PROVE  /\ users[u].st = "none" => AccountOf(u) = Whole!Unregistered
                    /\ users[u].st = "gone" => AccountOf(u) = Whole!Deleted
                    /\ users[u].st = "stored" /\ u \in lost => AccountOf(u) = Whole!Overwritten
                    /\ users[u].st = "stored" /\ u \notin lost => AccountOf(u) = users[u]
                    /\ Whole!Known(u) <=> users[u].st = "stored" /\ u \notin lost
  OBVIOUS
<1>1. users[u].st \in {"none", "stored", "gone"}
  BY DEF Typed, TypeOK, User
<1>2. CASE users[u].st = "none"
  BY <1>2 DEF AccountOf, Whole!Unregistered, Whole!Known
<1>3. CASE users[u].st = "gone"
  BY <1>3 DEF AccountOf, Whole!Deleted, Whole!Known
<1>4. CASE users[u].st = "stored" /\ u \in lost
  BY <1>4 DEF AccountOf, Whole!Overwritten, Whole!Known
<1>5. CASE users[u].st = "stored" /\ u \notin lost
  BY <1>5 DEF AccountOf, Whole!Known
<1>6. QED  BY <1>1, <1>2, <1>3, <1>4, <1>5

\* What it is after a step that leaves the user stored.
LEMMA AccountStored ==
  Typed => \A u \in Ids : users[u].st = "stored" =>
    AccountOf(u) = IF u \in lost THEN Whole!Overwritten ELSE users[u]
BY AccountIs

\* An address that no other user has is free.
LEMMA AccountFree ==
  ASSUME Typed, NEW u \in Ids, NEW email, ~Taken(email, u)
  PROVE  Whole!Free(email, u)
<1> SUFFICES ASSUME NEW v \in Ids \ {u}, Whole!Known(v)
             PROVE  account[v].email # email
  BY DEF Whole!Free, account
<1>1. users[v].st = "stored" /\ AccountOf(v) = users[v]
  BY AccountIs
<1>2. QED  BY <1>1 DEF Taken, Stored, account

\* The stamp of a request that has not written is fresh.
LEMMA AccountFresh ==
  ASSUME Typed, NEW r \in Requests, StampUnused(r)
  PROVE  r \in Whole!Fresh
<1>1. ASSUME NEW u \in Ids, Whole!Known(u)
      PROVE  account[u].stamp # r
  <2>1. AccountOf(u) = users[u]
    BY <1>1, AccountIs
  <2>2. QED  BY <2>1 DEF StampUnused, account
<1>2. \A s \in Requests : sessions[s].stamp # r
  BY DEF StampUnused
<1>3. r \in Ids
  BY DEF Ids
<1>4. QED  BY <1>1, <1>2, <1>3 DEF Whole!Fresh, account

\* One row has changed.
LEMMA AccountChanged ==
  ASSUME Typed, NEW u \in Ids, NEW x, users' = [users EXCEPT ![u] = x], lost' \ {u} = lost \ {u}
  PROVE  account' = [account EXCEPT ![u] = AccountOf(u)']
<1>1. ASSUME NEW v \in Ids, v # u
      PROVE  AccountOf(v)' = AccountOf(v)
  <2>1. users'[v] = users[v] /\ (v \in lost' <=> v \in lost)
    BY <1>1 DEF Typed, TypeOK
  <2>2. QED  BY <2>1 DEF AccountOf
<1>2. QED  BY <1>1 DEF account

\* Nothing has.
LEMMA AccountSame ==
  ASSUME UNCHANGED <<users, lost>>
  PROVE  account' = account
BY DEF account, AccountOf

\* A copy that is written back is that of the row, in which case the account becomes what
\* is written, or it is not, in which case the account is overwritten; or the store refuses it.
LEMMA AccountWritten ==
  ASSUME Typed, Typed', NEW r \in Requests, NEW new \in User,
         NEW l \in {"ok", "refused", "drop_links", "drop_link"},
         Written(r, new, l), new.st = "stored"
  PROVE  \/ UNCHANGED <<users, lost>> /\ pc'[r] = "error"
         \/ /\ account[row[r].id] \in {Whole!Overwritten, users[row[r].id]}
            /\ users[row[r].id].st = "stored"
            /\ account' = [account EXCEPT ![row[r].id] = Whole!Overwritten]
            /\ pc'[r] = l
         \/ /\ Whole!Known(row[r].id) /\ account[row[r].id] = row[r]
            /\ cur[r] \in {NoUser, row[r]}
            /\ Whole!Free(new.email, row[r].id)
            /\ account' = [account EXCEPT ![row[r].id] = new]
            /\ pc'[r] = l
<1>1. PICK id \in Ids : id = row[r].id
  BY DEF Written
<1>2. CASE ~Updatable(id, new.email)
  BY <1>1, <1>2 DEF Written, Write, Goto, Typed, TypeOK
<1>3. CASE Updatable(id, new.email)
  <2>1. /\ users' = [users EXCEPT ![id] = new]
        /\ lost' = IF users[id] # row[r] \/ (cur[r] # NoUser /\ users[id] # cur[r])
                     THEN lost \cup {id} ELSE lost
        /\ pc'[r] = l
    BY <1>1, <1>3 DEF Written, Write, Goto, Typed, TypeOK
  <2>2. users[id].st = "stored" /\ ~Taken(new.email, id)
    BY <1>3 DEF Updatable
  <2>3. account' = [account EXCEPT ![id] = AccountOf(id)']
    <3>1. lost' \ {id} = lost \ {id}
      BY <2>1
    <3>2. QED  BY <2>1, <3>1, AccountChanged
  <2>4. users'[id] = new
    BY <2>1 DEF Typed, TypeOK
  <2>5. AccountOf(id)' = IF id \in lost' THEN Whole!Overwritten ELSE new
    <3>1. (Typed => \A u \in Ids : users[u].st = "stored" =>
             AccountOf(u) = IF u \in lost THEN Whole!Overwritten ELSE users[u])'
      BY AccountStored, PTL
    <3>2. Whole!Overwritten' = Whole!Overwritten
      BY DEF Whole!Overwritten
    <3>3. QED  BY <2>4, <3>1, <3>2
  <2>6. account[id] = AccountOf(id)
    BY DEF account
  <2>7. CASE id \in lost'
    <3>1. AccountOf(id) \in {Whole!Overwritten, users[id]}
      BY <2>2, AccountIs
    <3>2. QED  BY <1>1, <2>1, <2>2, <2>3, <2>5, <2>6, <2>7, <3>1
  <2>8. CASE id \notin lost'
    <3>1. id \notin lost /\ users[id] = row[r] /\ cur[r] \in {NoUser, row[r]}
      BY <2>1, <2>8
    <3>2. Whole!Known(id) /\ AccountOf(id) = row[r]
      BY <2>2, <3>1, AccountIs
    <3>3. Whole!Free(new.email, id)
      BY <2>2, AccountFree
    <3>4. QED  BY <1>1, <2>1, <2>3, <2>5, <2>6, <2>8, <3>1, <3>2, <3>3
  <2>9. QED  BY <2>7, <2>8
<1>4. QED  BY <1>2, <1>3

\* A copy that is no longer current takes the account away.
LEMMA WholeOverwrites ==
  ASSUME Typed, NEW u \in Ids, users[u].st = "stored", account[u] \in {Whole!Overwritten, users[u]},
         account' = [account EXCEPT ![u] = Whole!Overwritten], now' = now,
         \/ sessions' = sessions
         \/ \E s \in Requests, x \in Ids :
              /\ sessions[s].user = None
              /\ sessions' = [sessions EXCEPT ![s] = [user |-> u, stamp |-> x,
                                                      exp |-> now + SessionLifetime]]
  PROVE  [Whole!Next]_<<now, account, sessions>>
<1>1. account[u].st \in {"stored", "overwritten"}
  BY DEF Whole!Overwritten
<1>2. Whole!Overwrite(u)
  BY <1>1 DEF Whole!Overwrite, account
<1>3. QED  BY <1>2, WholeStep

\* A copy written back without a session is a step of the account unless it is current, and
\* then the account becomes what is written.
LEMMA WholeWritten ==
  ASSUME Typed, Typed', NEW r \in Requests, NEW new \in User,
         NEW l \in {"ok", "refused", "drop_links", "drop_link"},
         Written(r, new, l), new.st = "stored", sessions' = sessions
  PROVE  \/ [Whole!Next]_<<now, account, sessions>>
         \/ \E u \in Ids : /\ Whole!Known(u) /\ account[u] = row[r] /\ cur[r] \in {NoUser, row[r]}
                           /\ Whole!Free(new.email, u) /\ Whole!Becomes(u, new)
<1>1. PICK u \in Ids : u = row[r].id
  BY DEF Written
<1>2. now' = now
  BY DEF Written
<1>3. CASE UNCHANGED <<users, lost>>
  BY <1>2, <1>3, AccountSame
<1>4. CASE /\ account[u] \in {Whole!Overwritten, users[u]} /\ users[u].st = "stored"
           /\ account' = [account EXCEPT ![u] = Whole!Overwritten]
  BY <1>2, <1>4, WholeOverwrites
<1>5. CASE /\ Whole!Known(u) /\ account[u] = row[r] /\ cur[r] \in {NoUser, row[r]}
           /\ Whole!Free(new.email, u) /\ account' = [account EXCEPT ![u] = new]
  <2>1. Whole!Becomes(u, new)
    BY <1>2, <1>5 DEF Whole!Becomes, account
  <2>2. QED  BY <1>5, <2>1
<1>6. QED  BY <1>1, <1>3, <1>4, <1>5, AccountWritten

\* The copy of a request whose next steps use it.
LEMMA CopyStored ==
  ASSUME Typed, RequestInv, NEW r \in Requests, HasCopy(r)
  PROVE  row[r] \in User /\ row[r].st = "stored" /\ row[r].stamp \in Ids
BY AccountsAssumption DEF Typed, TypeOK, CopyInv, CopyRead, RequestInv, Copied, User

\* A wrong password is counted.
LEMMA WholeCountFailure ==
  ASSUME Typed, Typed', RequestInv, NEW r \in Requests, CountFailure(r)
  PROVE  [Whole!Next]_<<now, account, sessions>>
<1>1. PICK new \in User : Written(r, new, "refused") /\ new = Counted(r) /\ UNCHANGED sessions
  BY CountFailureWrites
<1>2. pc[r] = "count_failure" /\ row[r] \in User /\ row[r].st = "stored"
  BY CopyStored DEF CountFailure, HasCopy
<1>3. new.st = "stored"
  BY <1>1, <1>2 DEF Counted, User
<1>4. /\ row[r].locked <= at[r] /\ at[r] <= now /\ MaxFailedAttempts > 0
      /\ job[r].password \in Passwords /\ job[r].password # row[r].password
  BY <1>2 DEF RequestInv, Judged, Asked, Typed, JobInv, JobAtStep
<1>5. ASSUME NEW u \in Ids, Whole!Known(u), account[u] = row[r], Whole!Becomes(u, new)
      PROVE  Whole!WrongPassword(u)
  <2>1. at[r] \in row[r].locked..now
    BY <1>2, <1>4 DEF Typed, TypeOK, User
  <2>2. AccountOf(u) = row[r]
    BY <1>5 DEF account
  <2>3. Whole!Becomes(u, IF AccountOf(u).failed + 1 >= MaxFailedAttempts
                           THEN [AccountOf(u) EXCEPT !.failed = 0, !.locked = at[r] + LockoutDuration]
                           ELSE [AccountOf(u) EXCEPT !.failed = @ + 1])
    BY <1>1, <1>5, <2>2 DEF Counted
  <2>4. QED  BY <1>4, <1>5, <2>1, <2>2, <2>3 DEF Whole!WrongPassword
<1>6. QED  BY <1>1, <1>3, <1>5, WholeWritten, WholeStep

\* Activate verifies the address.
LEMMA WholeWriteVerified ==
  ASSUME Typed, Typed', RequestInv, NEW r \in Requests, WriteVerified(r)
  PROVE  [Whole!Next]_<<now, account, sessions>>
<1>1. PICK new \in User : Written(r, new, "drop_link") /\ new = Verified(r) /\ UNCHANGED sessions
  BY WriteVerifiedWrites
<1>2. row[r] \in User /\ row[r].st = "stored"
  BY CopyStored DEF WriteVerified, HasCopy
<1>3. new.st = "stored"
  BY <1>1, <1>2 DEF Verified, User
<1>4. ASSUME NEW u \in Ids, Whole!Known(u), account[u] = row[r], Whole!Becomes(u, new)
      PROVE  Whole!Verify(u)
  BY <1>1, <1>4 DEF Whole!Verify, Verified, account
<1>5. QED  BY <1>1, <1>3, <1>4, WholeWritten, WholeStep

\* SetPassword and ResetPassword set the password.
LEMMA WholeWritePassword ==
  ASSUME Typed, Typed', StampInv, RequestInv, NEW r \in Requests, WritePassword(r)
  PROVE  [Whole!Next]_<<now, account, sessions>>
<1> DEFINE l == IF job[r].kind = "reset" THEN "drop_links" ELSE "ok"
<1>1. PICK new \in User : Written(r, new, l) /\ new = Repassworded(r) /\ UNCHANGED sessions
  BY WritePasswordWrites
<1>2. row[r] \in User /\ row[r].st = "stored" /\ pc[r] = "write_password"
  BY CopyStored DEF WritePassword, HasCopy
<1> DEFINE v == row[r].verified \/ job[r].kind = "reset"
<1>3. new = [row[r] EXCEPT !.password = job[r].password, !.stamp = r, !.verified = v,
                           !.failed = 0, !.locked = 0]
  <2>1. new = [row[r] EXCEPT !.password = job[r].password, !.stamp = r, !.failed = 0, !.locked = 0,
                             !.verified = v]
    BY <1>1 DEF Repassworded, NewStamp
  <2> HIDE DEF v
  <2>2. QED  BY <1>2, <2>1 DEF User
<1>4. v \in {row[r].verified, TRUE}
  BY <1>2 DEF User
<1> HIDE DEF v
<1>5. new.st = "stored"
  BY <1>2, <1>3 DEF User
<1>6. job[r].password \in Passwords
  BY <1>2 DEF RequestInv, Asked, Typed, JobInv, JobAtStep
<1>7. r \in Whole!Fresh
  BY <1>2, AccountFresh DEF StampInv, Unwritten
<1>8. ASSUME NEW u \in Ids, Whole!Known(u), account[u] = row[r], Whole!Becomes(u, new)
      PROVE  Whole!SetPassword(u)
  <2>1. AccountOf(u) = row[r]
    BY <1>8 DEF account
  <2>2. Whole!Becomes(u, [AccountOf(u) EXCEPT !.password = job[r].password, !.stamp = r, !.verified = v,
                                              !.failed = 0, !.locked = 0])
    BY <1>3, <1>8, <2>1
  <2>3. v \in {AccountOf(u).verified, TRUE}
    BY <1>4, <2>1
  <2>4. QED  BY <1>6, <1>7, <1>8, <2>2, <2>3 DEF Whole!SetPassword
<1>9. l \in {"ok", "refused", "drop_links", "drop_link"}
  OBVIOUS
<1> HIDE DEF l
<1>10. QED  BY <1>1, <1>5, <1>8, <1>9, WholeWritten, WholeStep

\* UpdateUser edits or unlocks.
LEMMA WholeWriteProfile ==
  ASSUME Typed, Typed', StampInv, RequestInv, NEW r \in Requests, WriteProfile(r)
  PROVE  [Whole!Next]_<<now, account, sessions>>
<1>1. PICK new \in User : Written(r, new, "ok") /\ new = Profiled(r) /\ UNCHANGED sessions
  BY WriteProfileWrites
<1>2. /\ row[r] \in User /\ row[r].st = "stored" /\ pc[r] = "write_profile"
      /\ job[r].kind \in {"update", "unlock"} /\ cur[r] # NoUser
  BY CopyStored, NoUserType DEF WriteProfile, HasCopy, Typed, JobInv, JobAtStep, Profile, StampInv, Compared
<1>3. /\ cur[r] \in User /\ job[r].verified \in BOOLEAN /\ job[r].enabled \in BOOLEAN
  BY DEF Typed, TypeOK, Job
<1> DEFINE e == job[r].email
           v == job[r].verified
           n == job[r].enabled
           renew == (~n /\ cur[r].enabled) \/ e # cur[r].email
<1>4. CASE job[r].kind = "update"
  <2>1. new = [[row[r] EXCEPT !.email = e, !.verified = v, !.enabled = n]
                  EXCEPT !.password = cur[r].password, !.stamp = IF renew THEN r ELSE row[r].stamp]
    <3>1. Edited(r) = [row[r] EXCEPT !.email = e, !.verified = v, !.enabled = n]
      BY <1>4 DEF Edited
    <3>2. Edited(r).email = e /\ Edited(r).enabled = n /\ Edited(r).stamp = row[r].stamp
      BY <1>2, <3>1 DEF User
    <3>3. new = [Edited(r) EXCEPT !.password = cur[r].password, !.stamp = IF renew THEN r ELSE row[r].stamp]
      BY <1>1, <3>2 DEF Profiled
    <3>4. QED  BY <3>1, <3>3
  <2> DEFINE x == IF renew THEN r ELSE row[r].stamp
  <2>2. e \in Emails
    BY <1>4 DEF RequestInv, Asked
  <2>3. r \in Whole!Fresh
    BY <1>2, AccountFresh DEF StampInv, Unwritten
  <2>4. new.st = "stored" /\ new.email = e
    <3> HIDE DEF x, e, v, n
    <3>1. QED  BY <1>2, <2>1 DEF User
  <2>5. ASSUME NEW u \in Ids, Whole!Known(u), account[u] = row[r], cur[r] = row[r],
               Whole!Free(new.email, u), Whole!Becomes(u, new)
        PROVE  Whole!Edit(u)
    <3>1. AccountOf(u) = row[r]
      BY <2>5 DEF account
    <3>2. new = [row[r] EXCEPT !.email = e, !.verified = v, !.enabled = n, !.stamp = x]
      <4>1. new = [[row[r] EXCEPT !.email = e, !.verified = v, !.enabled = n]
                     EXCEPT !.password = row[r].password, !.stamp = x]
        BY <2>1, <2>5
      <4> HIDE DEF x, e, v, n
      <4>2. QED  BY <1>2, <4>1 DEF User
    <3>3. x \in IF e # AccountOf(u).email \/ (AccountOf(u).enabled /\ ~n)
                  THEN Whole!Fresh ELSE {AccountOf(u).stamp}
      BY <2>3, <2>5, <3>1
    <3>4. Whole!Becomes(u, [AccountOf(u) EXCEPT !.email = e, !.verified = v, !.enabled = n, !.stamp = x])
      BY <2>5, <3>1, <3>2
    <3>5. Whole!Free(e, u)
      BY <2>4, <2>5
    <3> HIDE DEF x, e, v, n
    <3>6. v \in BOOLEAN /\ n \in BOOLEAN
      BY <1>3 DEF v, n
    <3>7. QED  BY <2>2, <2>5, <3>3, <3>4, <3>5, <3>6 DEF Whole!Edit
  <2>6. QED  BY <1>1, <1>2, <2>4, <2>5, WholeWritten, WholeStep
<1>5. CASE job[r].kind = "unlock"
  <2>1. Edited(r) = [row[r] EXCEPT !.failed = 0, !.locked = 0]
    BY <1>5 DEF Edited
  <2>2. /\ Edited(r).email = row[r].email /\ Edited(r).enabled = row[r].enabled
        /\ Edited(r).stamp = row[r].stamp /\ Edited(r).st = "stored"
    BY <1>2, <2>1 DEF User
  <2>3. new.st = "stored"
    BY <1>1, <1>2, <2>1 DEF Profiled, User
  <2>4. ASSUME NEW u \in Ids, Whole!Known(u), account[u] = row[r], cur[r] = row[r], Whole!Becomes(u, new)
        PROVE  Whole!Unlock(u)
    <3>1. new = [Edited(r) EXCEPT !.password = row[r].password, !.stamp = row[r].stamp]
      BY <1>1, <1>2, <2>2, <2>4 DEF Profiled
    <3>2. new = [row[r] EXCEPT !.failed = 0, !.locked = 0]
      BY <1>2, <2>1, <3>1 DEF User
    <3>3. AccountOf(u) = row[r]
      BY <2>4 DEF account
    <3>4. Whole!Becomes(u, [AccountOf(u) EXCEPT !.failed = 0, !.locked = 0])
      BY <2>4, <3>2, <3>3
    <3>5. QED  BY <2>4, <3>4 DEF Whole!Unlock
  <2>5. QED  BY <1>1, <1>2, <2>3, <2>4, WholeWritten, WholeStep
<1>6. QED  BY <1>2, <1>4, <1>5

\* Authenticate opens a session with the password, the status and the lock of the row.
LEMMA WholeRecordLogin ==
  ASSUME Typed, Typed', StampInv, RequestInv, NEW r \in Requests, RecordLogin(r)
  PROVE  [Whole!Next]_<<now, account, sessions>>
<1>1. PICK new \in User : Written(r, new, "ok") /\ new = Recorded(r)
  BY RecordLoginWrites
<1>2. pc[r] = "record_login" /\ row[r] \in User /\ row[r].st = "stored" /\ row[r].stamp \in Ids
  BY CopyStored DEF RecordLogin, HasCopy
<1>3. new.st = "stored"
  BY <1>1, <1>2 DEF Recorded, User
<1>4. PICK u \in Ids : u = row[r].id
  BY <1>1 DEF Written
<1>5. now' = now
  BY <1>1 DEF Written
<1>6. sessions[r].user = None
  BY <1>2 DEF StampInv, SessionKnown
<1>7. IF pc'[r] = "ok"
        THEN sessions' = [sessions EXCEPT ![r] = [user |-> u, stamp |-> row[r].stamp,
                                                  exp |-> now + SessionLifetime]]
        ELSE sessions' = sessions
  BY <1>4 DEF RecordLogin
<1>8. CASE UNCHANGED <<users, lost>> /\ pc'[r] = "error"
  <2>1. sessions' = sessions
    BY <1>7, <1>8
  <2>2. QED  BY <1>5, <1>8, <2>1, AccountSame
<1>9. CASE /\ account[u] \in {Whole!Overwritten, users[u]} /\ users[u].st = "stored"
           /\ account' = [account EXCEPT ![u] = Whole!Overwritten]
           /\ pc'[r] = "ok"
  <2>1. \E s \in Requests, x \in Ids :
          /\ sessions[s].user = None
          /\ sessions' = [sessions EXCEPT ![s] = [user |-> u, stamp |-> x,
                                                  exp |-> now + SessionLifetime]]
    BY <1>2, <1>6, <1>7, <1>9
  <2>2. QED  BY <1>5, <1>9, <2>1, WholeOverwrites
<1>10. CASE /\ Whole!Known(u) /\ account[u] = row[r] /\ account' = [account EXCEPT ![u] = new]
            /\ pc'[r] = "ok"
  <2>1. AccountOf(u) = row[r]
    BY <1>10 DEF account
  <2>2. /\ row[r].password = job[r].password /\ job[r].password \in Passwords /\ CanSignIn(row[r])
        /\ row[r].locked <= at[r] /\ at[r] <= now
    BY <1>2 DEF RequestInv, Judged, Asked, Typed, JobInv, JobAtStep
  <2>3. row[r].locked <= now
    BY <1>2, <2>2 DEF Typed, TypeOK, User
  <2>4. Whole!CanSignIn(row[r])
    BY <2>2 DEF CanSignIn, Whole!CanSignIn
  <2>5. account' = [account EXCEPT ![u].failed = 0, ![u].locked = 0]
    <3>1. account' = [account EXCEPT ![u] = [account[u] EXCEPT !.failed = 0, !.locked = 0]]
      BY <1>1, <1>10 DEF Recorded
    <3>2. account = [v \in Ids |-> AccountOf(v)]
      BY DEF account
    <3> HIDE DEF account
    <3>3. QED  BY <3>1, <3>2, Zenon
  <2>6. \E s \in Requests :
          /\ sessions[s].user = None
          /\ sessions' = [sessions EXCEPT ![s] = [user |-> u, stamp |-> AccountOf(u).stamp,
                                                  exp |-> now + SessionLifetime]]
    BY <1>6, <1>7, <1>10, <2>1
  <2>7. Whole!SignIn(u)
    BY <1>5, <1>10, <2>1, <2>2, <2>3, <2>4, <2>5, <2>6 DEF Whole!SignIn, account
  <2>8. QED  BY <2>7, WholeStep
<1>11. QED  BY <1>1, <1>3, <1>4, <1>8, <1>9, <1>10, AccountWritten

\* A new user is one that the abstract account registers.
LEMMA NewUserRegistered ==
  ASSUME NEW u \in Ids, NEW e \in Emails \cup {None}, NEW p \in Passwords \cup {None},
         NEW v \in BOOLEAN, NEW n \in BOOLEAN
  PROVE  NewUser(u, e, p, v, n) = Whole!Registered(u, e, p, v, n, u)
<1> DEFINE x == NewUser(u, e, p, v, n)
           y == Whole!Registered(u, e, p, v, n, u)
<1>1. x = [NoUser EXCEPT !.st = "stored", !.id = u, !.email = e, !.password = p,
                         !.verified = v, !.enabled = n, !.stamp = u]
  BY DEF NewUser
<1>2. y = [st |-> "stored", id |-> u, email |-> e, password |-> p, verified |-> v,
           enabled |-> n, stamp |-> u, failed |-> 0, locked |-> 0]
  BY DEF Whole!Registered
<1> HIDE DEF x, y
<1>3. NoUser \in User /\ NoUser.failed = 0 /\ NoUser.locked = 0
  BY NoUserType DEF NoUser
<1>4. x \in User /\ y \in User
  BY <1>1, <1>2, <1>3 DEF User
<1>5. /\ x.st = y.st /\ x.id = y.id /\ x.email = y.email /\ x.password = y.password
      /\ x.verified = y.verified /\ x.enabled = y.enabled /\ x.stamp = y.stamp
      /\ x.failed = y.failed /\ x.locked = y.locked
  BY <1>1, <1>2, <1>3 DEF User
<1>6. x = y
  BY <1>4, <1>5 DEF User
<1>7. QED  BY <1>6 DEF x, y

\* A creation registers the user of its request.
LEMMA WholeInsert ==
  ASSUME Typed, Typed', StampInv, RequestInv, NEW r \in Requests, Insert(r)
  PROVE  [Whole!Next]_<<now, account, sessions>>
<1>1. now' = now /\ sessions' = sessions /\ lost' = lost
  BY DEF Insert, history
<1>2. CASE UNCHANGED users
  BY <1>1, <1>2, AccountSame
<1>3. CASE ~Taken(Created(r).email, r) /\ users' = [users EXCEPT ![r] = Created(r)]
  <2>1. /\ r \in Ids /\ Created(r) \in User /\ Created(r).st = "stored"
    BY CreatedType
  <2>2. /\ pc[r] = "insert" /\ job[r].kind \in Creations /\ users[r].st = "none"
    BY DEF Insert, Typed, JobInv, JobAtStep, UserInv, Inserted
  <2>3. account[r] = Whole!Unregistered
    BY <2>1, <2>2, AccountIs DEF account
  <2>4. /\ job[r].email \in Emails /\ job[r].password \in Passwords \cup {None}
        /\ job[r].verified \in BOOLEAN /\ job[r].enabled \in BOOLEAN
    BY <2>2 DEF RequestInv, Asked, Typed, TypeOK, Job
  <2>5. Created(r) = Whole!Registered(r, job[r].email, job[r].password, job[r].verified, job[r].enabled, r)
    BY <2>1, <2>4, NewUserRegistered DEF Created
  <2>6. Created(r).email = job[r].email
    BY <2>5 DEF Whole!Registered
  <2>7. Whole!Free(job[r].email, r)
    BY <1>3, <2>1, <2>6, AccountFree
  <2>8. r \in Whole!Fresh
    BY <2>2, AccountFresh DEF StampInv, Unwritten
  <2>9. account' = [account EXCEPT ![r] = Created(r)]
    <3>1. r \notin lost'
      BY <1>1, <2>2 DEF LostKnown, RequestInv
    <3>2. users'[r] = Created(r)
      BY <1>3, <2>1 DEF Typed, TypeOK
    <3>3. AccountOf(r)' = Created(r)
      <4>1. (Typed => \A u \in Ids : users[u].st = "stored" =>
               AccountOf(u) = IF u \in lost THEN Whole!Overwritten ELSE users[u])'
        BY AccountStored, PTL
      <4>2. QED  BY <2>1, <3>1, <3>2, <4>1
    <3>4. account' = [account EXCEPT ![r] = AccountOf(r)']
      BY <1>1, <1>3, <2>1, AccountChanged
    <3>5. QED  BY <3>3, <3>4
  <2>10. Whole!Becomes(r, Whole!Registered(r, job[r].email, job[r].password, job[r].verified,
                                           job[r].enabled, r))
    BY <1>1, <2>5, <2>9 DEF Whole!Becomes, account
  <2>11. Whole!Register(r)
    BY <2>3, <2>4, <2>7, <2>8, <2>10 DEF Whole!Register, account
  <2>12. QED  BY <2>1, <2>11, WholeStep
<1>4. QED  BY <1>2, <1>3 DEF Insert, Created

\* DeleteUser deletes.
LEMMA WholeDeleteUser ==
  ASSUME Typed, Typed', NEW r \in Requests, DeleteUser(r)
  PROVE  [Whole!Next]_<<now, account, sessions>>
<1>1. now' = now /\ sessions' = sessions /\ lost' = lost
  BY DEF DeleteUser, history
<1>2. CASE UNCHANGED users
  BY <1>1, <1>2, AccountSame
<1>3. CASE users[job[r].target].st = "stored" /\ users' = [users EXCEPT ![job[r].target].st = "gone"]
  <2>1. job[r].target \in Ids
    BY DEF DeleteUser, Typed, JobInv, JobAtStep, Target
  <2>2. PICK u \in Ids : u = job[r].target
    BY <2>1
  <2>3. users' = [users EXCEPT ![u] = [users[u] EXCEPT !.st = "gone"]]
    BY <1>3, <2>2
  <2>4. users'[u].st = "gone"
    BY <2>3 DEF Typed, TypeOK, User
  <2>5. AccountOf(u)' = Whole!Deleted
    BY <2>4 DEF AccountOf, Whole!Deleted
  <2>6. account' = [account EXCEPT ![u] = Whole!Deleted]
    BY <1>1, <2>3, <2>5, AccountChanged
  <2>7. account[u].st \in {"stored", "overwritten"}
    <3>1. AccountOf(u) \in {users[u], Whole!Overwritten} /\ users[u].st = "stored"
      BY <1>3, <2>2, AccountIs
    <3>2. QED  BY <3>1 DEF Whole!Overwritten, account
  <2>8. Whole!Delete(u)
    BY <1>1, <2>6, <2>7 DEF Whole!Delete, Whole!Becomes, account
  <2>9. QED  BY <2>8, WholeStep
<1>4. QED  BY <1>2, <1>3 DEF DeleteUser

\* The steps that write no user leave the account alone.
LEMMA WholeNext ==
  ASSUME Typed, Typed', StampInv, RequestInv, [Next]_vars
  PROVE  [Whole!Next]_<<now, account, sessions>>
<1>1. CASE UNCHANGED <<users, lost, sessions, now>>
  BY <1>1, AccountSame
<1>2. CASE Tick
  <2>1. account' = account /\ sessions' = sessions /\ now' = now + 1
    BY <1>2, AccountSame DEF Tick, history
  <2>2. Whole!Tick
    BY <2>1 DEF Whole!Tick, account
  <2>3. QED  BY <2>2 DEF Whole!Next
<1>3. ASSUME NEW r \in Requests, Arrive(r) \/ Advance(r)
      PROVE  [Whole!Next]_<<now, account, sessions>>
  <2>1. now' = now
    BY <1>3, ClockRead
  <2>2. CASE WritesCopy(r)
    BY <2>2, WholeCountFailure, WholeRecordLogin, WholeWritePassword, WholeWriteProfile,
       WholeWriteVerified DEF WritesCopy
  <2>3. CASE Insert(r) \/ DeleteUser(r)
    BY <2>3, WholeInsert, WholeDeleteUser
  <2>4. CASE \/ Arrive(r) \/ CheckEmail(r) \/ Find(r) \/ GetUser(r) \/ GetCurrent(r) \/ FindMailbox(r)
             \/ DropActivation(r) \/ DropLinks(r) \/ DropLink(r)
             \/ StoreLink(r) \/ GetLink(r) \/ GetLinkUser(r)
    <3>1. UNCHANGED <<users, lost>>
      BY <2>4, UsersKept
    <3>2. sessions' = sessions
      BY <2>4, Arrival DEF CheckEmail, Find, GetUser, GetCurrent, FindMailbox, DropActivation, DropLinks,
         DropLink, StoreLink, GetLink, GetLinkUser
    <3>3. QED  BY <1>1, <2>1, <3>1, <3>2
  <2>5. QED  BY <1>3, <2>2, <2>3, <2>4 DEF Advance, WritesCopy
<1>4. CASE SweepLinks
  BY <1>1, <1>4 DEF SweepLinks, history
<1>5. CASE UNCHANGED vars
  BY <1>1, <1>5 DEF vars, history
<1>6. QED  BY <1>2, <1>3, <1>4, <1>5 DEF Next

\* At first every existing user is registered with a password.
LEMMA WholeInit == Init => Whole!Init
<1> SUFFICES ASSUME Init PROVE Whole!Init
  OBVIOUS
<1>1. Typed /\ UniqueEmails /\ lost = {}
  BY TypingInit, UniqueInit DEF Init
<1>2. ASSUME NEW u \in Ids
      PROVE  \/ account[u] = Whole!Unregistered
             \/ \E email \in Emails, password \in Passwords, x \in Ids :
                  account[u] = Whole!Registered(u, email, password, TRUE, TRUE, x)
  <2>1. CASE u \in Existing
    <3>1. users[u] = NewUser(u, SeedEmail[u], SeedPassword[u], TRUE, TRUE) /\ users[u].st = "stored"
      BY <2>1, ExistingInit
    <3>2. SeedEmail[u] \in Emails /\ SeedPassword[u] \in Passwords /\ TRUE \in BOOLEAN
      BY <2>1, AccountsAssumption
    <3>3. NewUser(u, SeedEmail[u], SeedPassword[u], TRUE, TRUE)
            = Whole!Registered(u, SeedEmail[u], SeedPassword[u], TRUE, TRUE, u)
      BY <3>2, NewUserRegistered
    <3>4. account[u] = users[u]
      BY <1>1, <3>1, AccountIs DEF account
    <3>5. QED  BY <3>1, <3>2, <3>3, <3>4
  <2>2. CASE u \notin Existing
    <3>1. users[u].st = "none"
      BY <2>2, NoUserType DEF Init
    <3>2. QED  BY <1>1, <3>1, AccountIs DEF account
  <2>3. QED  BY <2>1, <2>2
<1>3. ASSUME NEW u \in Ids, Whole!Known(u)
      PROVE  Whole!Free(account[u].email, u)
  <2>1. u \in Stored /\ account[u] = users[u]
    BY <1>1, <1>3, AccountIs DEF Stored, account
  <2>2. ~Taken(users[u].email, u)
    BY <1>1, <2>1 DEF Taken, UniqueEmails
  <2>3. QED  BY <1>1, <2>1, <2>2, AccountFree
<1>4. \A s \in Requests : sessions[s].user = None
  BY DEF Init, NoSession
<1>5. now = 0
  BY DEF Init
<1>6. QED  BY <1>2, <1>3, <1>4, <1>5 DEF Whole!Init, account

\* Requests that read a row, work on the copy and write it back do together what operations
\* that take place at once would do, on every user of which no copy was written back that was
\* no longer current.
THEOREM AccountImplemented == Spec => ImplementsAccount
<1>1. Spec => [](Typed /\ StampInv /\ RequestInv)
  BY TypingInit, TypingNext, StampInit, StampNext, RequestInit, RequestNext, PTL DEF Spec
<1>2. Typed /\ Typed' /\ StampInv /\ RequestInv /\ [Next]_vars => [Whole!Next]_<<now, account, sessions>>
  BY WholeNext
<1>3. QED  BY <1>1, <1>2, WholeInit, PTL DEF Spec, ImplementsAccount, Whole!Spec, account

================================================================================
