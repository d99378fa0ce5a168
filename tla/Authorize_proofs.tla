---------------------------- MODULE Authorize_proofs ---------------------------
(***************************************************************************)
(* Theorems about Authorize and Clients, for every set of requests,        *)
(* clients, users, scopes and redirection URIs.                            *)
(***************************************************************************)
EXTENDS Authorize, TLAPS

Steps == {"idle"} \cup ClientCalls \cup AuthorizeCalls \cup Responses

\* The types of what requests read and write, and of the browser.
TablesOK == ClientsTypeOK /\ pc \in [Requests -> Steps]
BrowserOK == users \in [Users -> User] /\ session \in Session /\ csrf \in 0..Restarts
AskOK == /\ ask \in [Requests -> Ask]
         /\ pages \in [Requests -> Page]
         /\ grants \in [Requests -> Grant]
SinceOK == since \in [Requests -> [clients : SUBSET Client, users : SUBSET User]]

Typed == TablesOK /\ BrowserOK /\ AskOK

--------------------------------------------------------------------------------
(***************************************************************************)
(* The type invariant                                                      *)
(***************************************************************************)

\* A registration that is completed has a type.
LEMMA DefaultsType ==
  ASSUME NEW reg \in Registration
  PROVE  EnsureDefaults(reg) \in Registration /\ EnsureDefaults(reg).type # ""
BY DEF EnsureDefaults, Registration

\* The empty registration and the empty row.
LEMMA NoClientType == NoReg \in Registration /\ NoReg.type # "" /\ NoClient \in Client
BY DEF NoReg, NoClient, Registration, Client

\* A row with another secret.
LEMMA SecretType ==
  ASSUME NEW client \in Client, NEW s \in Secrets \cup {None}
  PROVE  LET x == [client EXCEPT !.secret = s] IN
         x \in Client /\ x.secret = s /\ x.st = client.st /\ x.reg = client.reg
BY DEF Client

\* What an administrator chooses is written into a row, and its secret stays.
LEMMA ApplyType ==
  ASSUME NEW client \in Client, NEW j \in ClientJob
  PROVE  /\ Apply(client, j) \in Client
         /\ Apply(client, j).secret = client.secret
         /\ Apply(client, j).st = client.st
         /\ Apply(client, j).reg = EnsureDefaults(j.reg)
<1> DEFINE reg == EnsureDefaults(j.reg)
           enabled == IF j.enabled = None THEN client.enabled ELSE j.enabled
<1>1. reg \in Registration /\ reg.type # ""
  BY DefaultsType DEF ClientJob
<1>2. enabled \in BOOLEAN
  BY DEF ClientJob, Client
<1>3. j.name \in Names \cup {None}
  BY DEF ClientJob
<1>4. Apply(client, j) = [client EXCEPT !.name = j.name, !.reg = reg, !.enabled = enabled]
  BY DEF Apply
<1> HIDE DEF reg, enabled
<1>5. [client EXCEPT !.name = j.name, !.reg = reg, !.enabled = enabled] \in Client
  BY <1>1, <1>2, <1>3 DEF Client
<1>6. /\ Apply(client, j).secret = client.secret
      /\ Apply(client, j).st = client.st
      /\ Apply(client, j).reg = reg
  BY <1>4 DEF Client
<1>7. QED  BY <1>4, <1>5, <1>6 DEF reg

(***************************************************************************)
(* What an action of request r does to the tables of requests              *)
(***************************************************************************)

\* Only the entries of r change, and they are well typed.
Own(r) ==
  /\ pc' \in [Requests -> Steps]
  /\ job' \in [Requests -> ClientJob]
  /\ row' \in [Requests -> Client]
  /\ \A q \in Requests \ {r} : pc'[q] = pc[q] /\ job'[q] = job[q] /\ row'[q] = row[q]

\* The registrations and their history stay.
Kept == UNCHANGED <<clients, replaced, missed, restored>>

\* The browser, what it asked for and what was granted stay.
Aside == UNCHANGED <<browserVars, ask, pages, grants>>

\* The tables of the requests, one by one.
LEMMA Tables ==
  ASSUME TablesOK
  PROVE  /\ clients \in [Ids -> Client]
         /\ pc \in [Requests -> Steps]
         /\ job \in [Requests -> ClientJob]
         /\ row \in [Requests -> Client]
         /\ replaced \in [Ids -> SUBSET Secrets]
         /\ restored \in [Ids -> SUBSET Secrets]
         /\ missed \in [Requests -> SUBSET Secrets]
BY DEF TablesOK, ClientsTypeOK

\* A request moves on and changes nothing but its step.
LEMMA OwnStep ==
  ASSUME TablesOK, NEW r \in Requests, NEW l \in Steps, Goto(r, l), UNCHANGED <<job, row>>
  PROVE  Own(r) /\ pc'[r] = l /\ job'[r] = job[r] /\ row'[r] = row[r]
BY Tables DEF Own, Goto

\* A request moves on with another copy.
LEMMA OwnRead ==
  ASSUME TablesOK, NEW r \in Requests, NEW l \in Steps, NEW x \in Client,
         Goto(r, l), Read(r, x), UNCHANGED job
  PROVE  Own(r) /\ pc'[r] = l /\ job'[r] = job[r] /\ row'[r] = x
BY Tables DEF Own, Goto, Read

\* A request moves on with another copy and the client it has found.
LEMMA OwnFound ==
  ASSUME TablesOK, NEW r \in Requests, NEW l \in Steps, NEW x \in Client, NEW i \in Ids,
         Goto(r, l), Read(r, x), job' = [job EXCEPT ![r].id = i]
  PROVE  Own(r) /\ pc'[r] = l /\ job'[r] = [job[r] EXCEPT !.id = i] /\ row'[r] = x
<1>1. [job[r] EXCEPT !.id = i] \in ClientJob
  BY Tables DEF ClientJob
<1>2. job' = [job EXCEPT ![r] = [job[r] EXCEPT !.id = i]]
  OBVIOUS
<1> DEFINE j == [job[r] EXCEPT !.id = i]
<1> HIDE DEF j
<1>3. job' = [job EXCEPT ![r] = j] /\ j \in ClientJob
  BY <1>1, <1>2 DEF j
<1>4. Own(r) /\ pc'[r] = l /\ job'[r] = j /\ row'[r] = x
  BY <1>3, Tables DEF Own, Goto, Read
<1>5. QED  BY <1>4 DEF j

\* A request arrives.
LEMMA OwnAccept ==
  ASSUME TablesOK, NEW r \in Requests, NEW l \in Steps, NEW j \in ClientJob,
         Accept(r, j, l), UNCHANGED row
  PROVE  Own(r) /\ Kept /\ pc[r] = "idle" /\ pc'[r] = l /\ job'[r] = j /\ row'[r] = row[r]
BY Tables DEF Own, Goto, Accept, Kept

(***************************************************************************)
(* The actions of Clients, one by one                                      *)
(***************************************************************************)

\* A new client has the id of its request, and a secret of that name or none.
LEMMA AcceptCreateEffect ==
  ASSUME TablesOK, NEW r \in Requests, NEW name \in Names, NEW reg \in Registrations,
         NEW enabled \in Toggles, AcceptCreate(r, name, reg, enabled)
  PROVE  /\ Own(r) /\ Kept /\ pc[r] = "idle"
         /\ pc'[r] \in {"insert", "invalid"}
         /\ job'[r].id = r
         /\ row'[r].st = "stored" /\ row'[r].secret \in {None, r}
         /\ pc'[r] = "insert" => Validate(row'[r].reg)
<1> DEFINE j == [NoJob EXCEPT !.kind = "create_client", !.id = r, !.name = name, !.reg = reg,
                              !.enabled = enabled]
           blank == [NoClient EXCEPT !.st = "stored", !.enabled = TRUE]
           client == Apply(blank, j)
           s == IF IsPublic(client) THEN None ELSE r
           x == [client EXCEPT !.secret = s]
           l == IF Validate(client.reg) THEN "insert" ELSE "invalid"
<1>1. r \in Ids /\ reg \in Registration /\ enabled \in {TRUE, FALSE, None}
  BY ClientsAssumption DEF Ids
<1>2. j \in ClientJob /\ j.id = r /\ j.reg = reg
  <2>1. [NoJob EXCEPT !.kind = "create_client", !.id = r, !.name = name, !.reg = reg,
                      !.enabled = enabled] \in ClientJob
    BY <1>1 DEF NoJob, ClientJob, ClientKinds
  <2>2. j.id = r /\ j.reg = reg
    BY DEF NoJob
  <2>3. QED  BY <2>1, <2>2
<1>3. blank \in Client /\ blank.st = "stored"
  BY NoClientType DEF Client
<1>4. Accept(r, j, l) /\ Read(r, x)
  BY DEF AcceptCreate
<1> HIDE DEF j, blank
<1>5. client \in Client /\ client.st = "stored"
  BY <1>2, <1>3, ApplyType
<1>6. s \in Secrets \cup {None} /\ s \in {None, r}
  BY <1>1 DEF Secrets
<1> HIDE DEF client, s
<1>7. x \in Client /\ x.secret = s /\ x.st = "stored" /\ x.reg = client.reg
  BY <1>5, <1>6, SecretType
<1> HIDE DEF x
<1>8. l \in Steps /\ l \in {"insert", "invalid"} /\ (l = "insert" => Validate(client.reg))
  BY DEF Steps, ClientCalls, Responses, ClientResponses
<1> HIDE DEF l
<1>9. /\ Own(r) /\ Kept /\ pc[r] = "idle"
      /\ pc'[r] = l /\ job'[r] = j /\ row'[r] = x
  BY <1>2, <1>4, <1>7, <1>8, Tables DEF Own, Accept, Goto, Read, Kept
<1>10. QED  BY <1>2, <1>6, <1>7, <1>8, <1>9

\* A request to update a client names it.
LEMMA AcceptUpdateEffect ==
  ASSUME TablesOK, NEW r \in Requests, NEW i \in Ids, NEW name \in Names,
         NEW reg \in Registrations, NEW enabled \in Toggles,
         AcceptUpdate(r, i, name, reg, enabled)
  PROVE  /\ Own(r) /\ Kept /\ pc[r] = "idle" /\ pc'[r] = "get_client"
         /\ job'[r].kind = "update_client" /\ job'[r].id = i /\ row'[r] = row[r]
<1> DEFINE j == [NoJob EXCEPT !.kind = "update_client", !.id = i, !.name = name, !.reg = reg,
                              !.enabled = enabled]
<1>1. j \in ClientJob
  <2>1. reg \in Registration /\ enabled \in {TRUE, FALSE, None}
    BY ClientsAssumption
  <2>2. QED  BY <2>1 DEF NoJob, ClientJob, ClientKinds
<1>2. j.kind = "update_client" /\ j.id = i
  BY DEF NoJob
<1>3. Accept(r, j, "get_client") /\ UNCHANGED row
  BY DEF AcceptUpdate
<1> HIDE DEF j
<1>4. "get_client" \in Steps
  BY DEF Steps, ClientCalls
<1>5. QED  BY <1>1, <1>2, <1>3, <1>4, OwnAccept

\* A request for a new secret names the client.
LEMMA AcceptRegenerateEffect ==
  ASSUME TablesOK, NEW r \in Requests, NEW i \in Ids, AcceptRegenerate(r, i)
  PROVE  /\ Own(r) /\ Kept /\ pc[r] = "idle" /\ pc'[r] = "get_client"
         /\ job'[r].kind = "regenerate" /\ job'[r].id = i /\ row'[r] = row[r]
<1> DEFINE j == [NoJob EXCEPT !.kind = "regenerate", !.id = i]
<1>1. j \in ClientJob
  BY NoClientType DEF NoJob, ClientJob, ClientKinds
<1>2. j.kind = "regenerate" /\ j.id = i
  BY DEF NoJob
<1>3. Accept(r, j, "get_client") /\ UNCHANGED row
  BY DEF AcceptRegenerate
<1> HIDE DEF j
<1>4. "get_client" \in Steps
  BY DEF Steps, ClientCalls
<1>5. QED  BY <1>1, <1>2, <1>3, <1>4, OwnAccept

\* A request to delete a client names it.
LEMMA AcceptDeleteEffect ==
  ASSUME TablesOK, NEW r \in Requests, NEW i \in Ids, AcceptDelete(r, i)
  PROVE  /\ Own(r) /\ Kept /\ pc[r] = "idle" /\ pc'[r] = "delete"
         /\ job'[r].id = i /\ row'[r] = row[r]
<1> DEFINE j == [NoJob EXCEPT !.kind = "delete_client", !.id = i]
<1>1. j \in ClientJob
  BY NoClientType DEF NoJob, ClientJob, ClientKinds
<1>2. j.id = i
  BY DEF NoJob
<1>3. Accept(r, j, "delete") /\ UNCHANGED row
  BY DEF AcceptDelete
<1> HIDE DEF j
<1>4. "delete" \in Steps
  BY DEF Steps, ClientCalls
<1>5. QED  BY <1>1, <1>2, <1>3, <1>4, OwnAccept

\* Provisioning has an id and a secret of its own, or none.
LEMMA AcceptEnsureEffect ==
  ASSUME TablesOK, NEW r \in Requests, NEW name \in Names, NEW reg \in Registrations,
         NEW secret \in {None, r}, AcceptEnsure(r, name, reg, secret)
  PROVE  /\ Own(r) /\ Kept /\ pc[r] = "idle" /\ pc'[r] = "get_by_client_id"
         /\ job'[r].kind = "ensure" /\ job'[r].id = r /\ job'[r].secret \in {None, r}
         /\ row'[r] = row[r]
<1> DEFINE j == [NoJob EXCEPT !.kind = "ensure", !.id = r, !.name = name, !.reg = reg,
                              !.enabled = TRUE, !.secret = secret]
<1>1. j \in ClientJob
  <2>1. reg \in Registration /\ r \in Ids /\ secret \in Secrets \cup {None}
    BY ClientsAssumption DEF Ids, Secrets
  <2>2. QED  BY <2>1 DEF NoJob, ClientJob, ClientKinds
<1>2. j.kind = "ensure" /\ j.id = r /\ j.secret = secret
  BY DEF NoJob
<1>3. Accept(r, j, "get_by_client_id") /\ UNCHANGED row
  BY DEF AcceptEnsure
<1> HIDE DEF j
<1>4. "get_by_client_id" \in Steps
  BY DEF Steps, ClientCalls
<1>5. QED  BY <1>1, <1>2, <1>3, <1>4, OwnAccept

\* A client is inserted where there was none, or nothing happens.
LEMMA InsertEffect ==
  ASSUME TablesOK, NEW r \in Requests, job[r].id \in Ids, Insert(r)
  PROVE  /\ Own(r) /\ pc[r] = "insert" /\ job' = job /\ row' = row
         /\ pc'[r] \in {"duplicate", "ok"}
         /\ UNCHANGED <<replaced, missed, restored>>
         /\ \/ UNCHANGED clients
            \/ /\ ~Stored(job[r].id)
               /\ clients' = [clients EXCEPT ![job[r].id] = row[r]]
<1>1. "duplicate" \in Steps /\ "ok" \in Steps
  BY DEF Steps, Responses, ClientResponses
<1>2. PICK l \in {"duplicate", "ok"} : Goto(r, l)
  BY DEF Insert
<1>3. Own(r) /\ pc'[r] = l
  <2>1. UNCHANGED <<job, row>>
    BY DEF Insert
  <2>2. QED  BY <1>1, <1>2, <2>1, OwnStep
<1>4. QED  BY <1>2, <1>3 DEF Insert

\* The copy of a client has its secret, the new one, or none as a public client.
LEMMA GetClientEffect ==
  ASSUME TablesOK, NEW r \in Requests, job[r].id \in Ids, GetClient(r)
  PROVE  LET i == job[r].id IN
         /\ Own(r) /\ Kept /\ pc[r] = "get_client" /\ job' = job
         /\ \/ pc'[r] \in {"not_found", "invalid"}
            \/ /\ Stored(i) /\ job[r].kind = "update_client"
               /\ pc'[r] \in {"update", "update_and_revoke"}
               /\ row'[r].st = "stored" /\ Validate(row'[r].reg)
               /\ IF IsPublic(row'[r]) THEN row'[r].secret = None
                                       ELSE row'[r].secret = clients[i].secret
            \/ /\ Stored(i) /\ job[r].kind = "regenerate"
               /\ pc'[r] = "update"
               /\ row'[r].st = "stored" /\ row'[r].secret = r /\ row'[r].reg = clients[i].reg
         /\ row'[r].secret \in {row[r].secret, None, r, clients[i].secret}
<1> DEFINE i == job[r].id
           edited == Apply(clients[i], job[r])
           x == SecretCleared(edited)
           y == [clients[i] EXCEPT !.secret = r]
<1>0. clients[i] \in Client /\ job[r] \in ClientJob /\ r \in Secrets
  BY Tables DEF Secrets, Ids
<1>1. edited \in Client /\ edited.secret = clients[i].secret /\ edited.st = clients[i].st
  BY <1>0, ApplyType
<1> HIDE DEF edited
<1>2. /\ x \in Client /\ x.st = edited.st /\ x.reg = edited.reg
      /\ IF IsPublic(x) THEN x.secret = None ELSE x.secret = clients[i].secret
  <2>1. CASE IsPublic(edited)
    <3> DEFINE z == [edited EXCEPT !.secret = None]
    <3>1. x = z
      BY <2>1 DEF SecretCleared
    <3>2. z \in Client /\ z.secret = None /\ z.st = edited.st /\ z.reg = edited.reg
      BY <1>1, SecretType
    <3> HIDE DEF z
    <3>3. QED  BY <2>1, <3>1, <3>2 DEF IsPublic
  <2>2. CASE ~IsPublic(edited)
    BY <1>1, <2>2 DEF SecretCleared, IsPublic
  <2>3. QED  BY <2>1, <2>2
<1>3. y \in Client /\ y.st = clients[i].st /\ y.reg = clients[i].reg /\ y.secret = r
  BY <1>0, SecretType
<1> HIDE DEF x, y
<1>4. /\ "not_found" \in Steps /\ "invalid" \in Steps /\ "update" \in Steps
      /\ "update_and_revoke" \in Steps
  BY DEF Steps, Responses, ClientResponses, ClientCalls
<1>5. pc[r] = "get_client" /\ Kept /\ UNCHANGED job
  BY DEF GetClient, Kept
<1>6. CASE Goto(r, "not_found") /\ UNCHANGED row
  <2>1. Own(r) /\ pc'[r] = "not_found" /\ row'[r] = row[r]
    BY <1>4, <1>5, <1>6, OwnStep
  <2>2. QED  BY <1>5, <2>1
<1>7. CASE /\ Stored(i) /\ job[r].kind = "update_client"
           /\ Read(r, x)
           /\ Goto(r, IF ~Validate(edited.reg) THEN "invalid"
                      ELSE IF clients[i].enabled /\ ~edited.enabled THEN "update_and_revoke"
                      ELSE "update")
  <2> DEFINE l == IF ~Validate(edited.reg) THEN "invalid"
                  ELSE IF clients[i].enabled /\ ~edited.enabled THEN "update_and_revoke"
                  ELSE "update"
  <2>1. /\ l \in {"invalid", "update", "update_and_revoke"}
        /\ l # "invalid" => Validate(edited.reg)
    OBVIOUS
  <2>2. Goto(r, l)
    BY <1>7
  <2> HIDE DEF l
  <2>3. Own(r) /\ pc'[r] = l /\ row'[r] = x
    BY <1>2, <1>4, <1>5, <1>7, <2>1, <2>2, OwnRead
  <2>4. clients[i].st = "stored"
    BY <1>7 DEF Stored
  <2>5. QED  BY <1>1, <1>2, <1>5, <1>7, <2>1, <2>3, <2>4
<1>8. CASE /\ Stored(i) /\ job[r].kind = "regenerate"
           /\ Read(r, y)
           /\ Goto(r, IF IsPublic(clients[i]) THEN "invalid" ELSE "update")
  <2> DEFINE l == IF IsPublic(clients[i]) THEN "invalid" ELSE "update"
  <2>1. l \in {"invalid", "update"} /\ Goto(r, l)
    BY <1>8
  <2> HIDE DEF l
  <2>2. Own(r) /\ pc'[r] = l /\ row'[r] = y
    BY <1>3, <1>4, <1>5, <1>8, <2>1, OwnRead
  <2>3. clients[i].st = "stored"
    BY <1>8 DEF Stored
  <2>4. QED  BY <1>3, <1>5, <1>8, <2>1, <2>2, <2>3
<1>9. QED  BY <1>6, <1>7, <1>8 DEF GetClient, x, y, edited

\* The copy is written, and the history with it, or nothing happens.
LEMMA UpdateEffect ==
  ASSUME TablesOK, NEW r \in Requests, job[r].id \in Ids, Update(r)
  PROVE  LET i == job[r].id
             old == {clients[i].secret} \ {None} IN
         /\ Own(r) /\ pc[r] \in {"update", "update_and_revoke"} /\ job' = job /\ row' = row
         /\ pc'[r] \in {"not_found", "duplicate", "ok", "revoke_refresh"}
         /\ \/ Kept
            \/ /\ Stored(i) /\ clients' = [clients EXCEPT ![i] = row[r]]
               /\ Replaces(r)
               /\ replaced' = [replaced EXCEPT ![i] = @ \cup old]
               /\ missed' = [q \in Requests |-> IF Holds(q, i) THEN missed[q] \cup old
                                                             ELSE missed[q]]
               /\ restored' = restored
            \/ /\ Stored(i) /\ clients' = [clients EXCEPT ![i] = row[r]]
               /\ ~Replaces(r)
               /\ restored' = [restored EXCEPT ![i] = @ \cup (missed[r] \cap {row[r].secret})]
               /\ replaced' = replaced /\ missed' = missed
<1>1. /\ "not_found" \in Steps /\ "duplicate" \in Steps /\ "ok" \in Steps
      /\ "revoke_refresh" \in Steps
  BY DEF Steps, Responses, ClientResponses, ClientCalls
<1>2. PICK l \in {"not_found", "duplicate", "ok", "revoke_refresh"} : Goto(r, l)
  BY DEF Update
<1>3. Own(r) /\ pc'[r] = l
  <2>1. UNCHANGED <<job, row>>
    BY DEF Update
  <2>2. QED  BY <1>1, <1>2, <2>1, OwnStep
<1>4. QED  BY <1>2, <1>3 DEF Update, Updatable, Kept

\* A client is marked as deleted, or nothing happens.
LEMMA DeleteClientEffect ==
  ASSUME TablesOK, NEW r \in Requests, job[r].id \in Ids, DeleteClient(r)
  PROVE  /\ Own(r) /\ pc[r] = "delete" /\ job' = job /\ row' = row
         /\ pc'[r] \in {"revoke_refresh", "not_found"}
         /\ UNCHANGED <<replaced, missed, restored>>
         /\ \/ UNCHANGED clients
            \/ /\ Stored(job[r].id)
               /\ clients' = [clients EXCEPT ![job[r].id].st = "gone"]
<1>1. "not_found" \in Steps /\ "revoke_refresh" \in Steps
  BY DEF Steps, Responses, ClientResponses, ClientCalls
<1>2. PICK l \in {"not_found", "revoke_refresh"} : Goto(r, l)
  BY DEF DeleteClient
<1>3. Own(r) /\ pc'[r] = l
  <2>1. UNCHANGED <<job, row>>
    BY DEF DeleteClient
  <2>2. QED  BY <1>1, <1>2, <2>1, OwnStep
<1>4. QED  BY <1>2, <1>3 DEF DeleteClient

\* The tokens of a client are revoked.
LEMMA RevokeTokensEffect ==
  ASSUME TablesOK, NEW r \in Requests, RevokeTokens(r)
  PROVE  /\ Own(r) /\ Kept /\ pc[r] \in {"revoke_refresh", "revoke_access"}
         /\ pc'[r] \in {"revoke_access", "ok"} /\ job' = job /\ row' = row
<1>1. "revoke_access" \in Steps /\ "ok" \in Steps
  BY DEF Steps, Responses, ClientResponses, ClientCalls
<1>2. PICK l \in {"revoke_access", "ok"} : Goto(r, l)
  BY DEF RevokeTokens
<1>3. Own(r) /\ pc'[r] = l
  <2>1. UNCHANGED <<job, row>>
    BY DEF RevokeTokens
  <2>2. QED  BY <1>1, <1>2, <2>1, OwnStep
<1>4. QED  BY <1>2, <1>3 DEF RevokeTokens, Kept

\* Provisioning takes over the id of the client it finds, and its secret if it names none.
LEMMA GetByClientIdEffect ==
  ASSUME TablesOK, NEW r \in Requests, GetByClientId(r)
  PROVE  /\ Own(r) /\ Kept /\ pc[r] = "get_by_client_id"
         /\ job'[r].kind = job[r].kind /\ job'[r].secret = job[r].secret
         /\ row'[r].st = "stored"
         /\ \/ /\ pc'[r] \in {"insert", "invalid"} /\ job'[r].id = job[r].id
               /\ row'[r].secret = job[r].secret
               /\ pc'[r] = "insert" => Validate(row'[r].reg)
            \/ \E i \in Ids :
                 /\ Stored(i)
                 /\ pc'[r] \in {"update", "invalid"} /\ job'[r].id = i
                 /\ row'[r].secret = IF job[r].secret # None THEN job[r].secret
                                                             ELSE clients[i].secret
                 /\ pc'[r] = "update" => Validate(row'[r].reg)
<1> DEFINE reg == EnsureDefaults(job[r].reg)
           given == [st |-> "stored", name |-> job[r].name, secret |-> job[r].secret,
                     enabled |-> TRUE, reg |-> reg]
<1>1. job[r] \in ClientJob
  BY Tables
<1>2. reg \in Registration /\ reg.type # ""
  BY <1>1, DefaultsType DEF ClientJob
<1> HIDE DEF reg
<1>3. given \in Client /\ given.st = "stored" /\ given.secret = job[r].secret /\ given.reg = reg
  BY <1>1, <1>2 DEF ClientJob, Client
<1>4. "insert" \in Steps /\ "invalid" \in Steps /\ "update" \in Steps
  BY DEF Steps, Responses, ClientResponses, ClientCalls
<1>5. pc[r] = "get_by_client_id" /\ Kept
  BY DEF GetByClientId, Kept
<1>6. CASE /\ Read(r, given)
           /\ Goto(r, IF Validate(given.reg) THEN "insert" ELSE "invalid")
           /\ UNCHANGED job
  <2> DEFINE l == IF Validate(given.reg) THEN "insert" ELSE "invalid"
  <2>1. l \in {"insert", "invalid"} /\ (l = "insert" => Validate(given.reg)) /\ Goto(r, l)
    BY <1>6
  <2> HIDE DEF l, given
  <2>2. Own(r) /\ pc'[r] = l /\ row'[r] = given /\ job'[r] = job[r]
    BY <1>3, <1>4, <1>6, <2>1, OwnRead
  <2>3. QED  BY <1>3, <1>5, <2>1, <2>2
<1>7. ASSUME NEW i \in Ids, Stored(i),
             Read(r, IF job[r].secret # None THEN given
                     ELSE [given EXCEPT !.secret = clients[i].secret]),
             job' = [job EXCEPT ![r].id = i],
             Goto(r, IF Validate(given.reg) THEN "update" ELSE "invalid")
      PROVE  /\ Own(r)
             /\ job'[r].kind = job[r].kind /\ job'[r].secret = job[r].secret /\ job'[r].id = i
             /\ row'[r].st = "stored" /\ pc'[r] \in {"update", "invalid"}
             /\ row'[r].secret = IF job[r].secret # None THEN job[r].secret ELSE clients[i].secret
             /\ pc'[r] = "update" => Validate(row'[r].reg)
  <2> DEFINE l == IF Validate(given.reg) THEN "update" ELSE "invalid"
             x == IF job[r].secret # None THEN given
                  ELSE [given EXCEPT !.secret = clients[i].secret]
  <2>1. l \in {"update", "invalid"} /\ (l = "update" => Validate(given.reg)) /\ Goto(r, l)
    BY <1>7
  <2>2. Read(r, x)
    BY <1>7
  <2> HIDE DEF l, given
  <2>3. clients[i].secret \in Secrets \cup {None}
    BY Tables DEF Client
  <2>4. /\ x \in Client /\ x.st = "stored" /\ x.reg = given.reg
        /\ x.secret = IF job[r].secret # None THEN job[r].secret ELSE clients[i].secret
    BY <1>3, <2>3, SecretType
  <2> HIDE DEF x
  <2>5. Own(r) /\ pc'[r] = l /\ job'[r] = [job[r] EXCEPT !.id = i] /\ row'[r] = x
    <3>1. job' = [job EXCEPT ![r].id = i]
      BY <1>7
    <3>2. l \in Steps
      BY <1>4, <2>1
    <3>3. QED  BY <2>1, <2>2, <2>4, <3>1, <3>2, OwnFound
  <2>6. job'[r].kind = job[r].kind /\ job'[r].secret = job[r].secret /\ job'[r].id = i
    BY <1>1, <2>5 DEF ClientJob
  <2>7. QED  BY <2>1, <2>4, <2>5, <2>6
<1>8. \/ /\ Read(r, given)
         /\ Goto(r, IF Validate(given.reg) THEN "insert" ELSE "invalid")
         /\ UNCHANGED job
      \/ \E i \in Ids :
           /\ Stored(i)
           /\ Read(r, IF job[r].secret # None THEN given
                      ELSE [given EXCEPT !.secret = clients[i].secret])
           /\ job' = [job EXCEPT ![r].id = i]
           /\ Goto(r, IF Validate(given.reg) THEN "update" ELSE "invalid")
  BY DEF GetByClientId, ByClientId, reg
<1> HIDE DEF given
<1>9. QED  BY <1>5, <1>6, <1>7, <1>8

\* A client is authenticated, or refused.
LEMMA AuthenticateEffect ==
  ASSUME TablesOK, NEW r \in Requests, AuthenticateClient(r)
  PROVE  /\ Own(r) /\ Kept /\ pc[r] = "authenticate" /\ pc'[r] \in {"get_code", "denied"}
         /\ \/ row'[r] = row[r]
            \/ \E i \in Ids : row'[r] = clients[i]
         /\ pc'[r] = "get_code" =>
              job'[r].id \in Ids /\ row'[r] = clients[job'[r].id]
<1>1. "get_code" \in Steps /\ "denied" \in Steps
  BY DEF Steps, Responses, ClientResponses, AuthorizeCalls
<1>2. pc[r] = "authenticate" /\ Kept
  BY DEF AuthenticateClient, Kept
<1>3. CASE Goto(r, "denied") /\ UNCHANGED <<job, row>>
  BY <1>1, <1>2, <1>3, OwnStep
<1>4. ASSUME NEW i \in Ids, Read(r, clients[i]), job' = [job EXCEPT ![r].id = i],
             Goto(r, "get_code")
      PROVE  Own(r) /\ pc'[r] = "get_code" /\ job'[r].id = i /\ row'[r] = clients[i]
  <2>1. clients[i] \in Client /\ job[r] \in ClientJob
    BY Tables
  <2>2. /\ Own(r) /\ pc'[r] = "get_code" /\ job'[r] = [job[r] EXCEPT !.id = i]
        /\ row'[r] = clients[i]
    BY <1>1, <1>4, <2>1, OwnFound
  <2>3. QED  BY <2>1, <2>2 DEF ClientJob
<1>5. QED  BY <1>2, <1>3, <1>4 DEF AuthenticateClient, ByClientId

(***************************************************************************)
(* The actions of Authorize, one by one                                    *)
(***************************************************************************)

\* Of the browser's requests, pages and grants an action changes those of r.
OwnAsk(r) ==
  /\ ask' \in [Requests -> Ask]
  /\ pages' \in [Requests -> Page]
  /\ \A q \in Requests \ {r} : ask'[q] = ask[q] /\ pages'[q] = pages[q]

\* The consent page that answers a request is well typed.
LEMMA ConsentPageType ==
  ASSUME TablesOK, AskOK, BrowserOK, NEW r \in Requests
  PROVE  /\ ConsentPage(r) \in Page
         /\ ConsentPage(r).shown /\ ConsentPage(r).params = ask[r].params
         /\ ConsentPage(r).scopes = ResolveScopes(row[r], ask[r].params)
<1>1. row[r] \in Client /\ ask[r] \in Ask
  BY Tables DEF AskOK
<1>2. ask[r].params \in Param \cup {NoParam} /\ ask[r].session.user \in Users \cup {None}
  BY <1>1 DEF Ask, Session
<1>3. row[r].reg.defaults \in SUBSET Scopes
  BY <1>1 DEF Client, Registration
<1>4. ResolveScopes(row[r], ask[r].params) \in SUBSET Scopes
  BY <1>2, <1>3 DEF ResolveScopes, Param, NoParam
<1> DEFINE S == ResolveScopes(row[r], ask[r].params)
<1> HIDE DEF S
<1>5. ConsentPage(r) = [shown |-> TRUE, params |-> ask[r].params, scopes |-> S,
                        user |-> ask[r].session.user, csrf |-> csrf]
  BY DEF ConsentPage, S
<1>6. S \in SUBSET Scopes /\ csrf \in 0..Restarts
  BY <1>4 DEF S, BrowserOK
<1>7. /\ ConsentPage(r) \in Page /\ ConsentPage(r).shown
      /\ ConsentPage(r).params = ask[r].params /\ ConsentPage(r).scopes = S
  BY <1>2, <1>5, <1>6 DEF Page
<1>8. QED  BY <1>7 DEF S

\* A request of the browser carries the cookies it has now.
LEMMA AcceptRequestEffect ==
  ASSUME Typed, NEW r \in Requests, NEW kind \in AuthorizeKinds, NEW a \in Ask,
         AcceptRequest(r, kind, a, "find_client")
  PROVE  /\ Own(r) /\ Kept /\ OwnAsk(r) /\ UNCHANGED <<browserVars, pages, grants>>
         /\ pc[r] = "idle" /\ pc'[r] = "find_client" /\ row'[r] = row[r]
         /\ ask'[r].params = a.params /\ ask'[r].page = a.page /\ ask'[r].allow = a.allow
         /\ ask'[r].session = session
<1> DEFINE j == [NoJob EXCEPT !.kind = kind]
           b == [a EXCEPT !.session = session, !.csrf = csrf]
<1>1. j \in ClientJob
  BY NoClientType DEF NoJob, ClientJob
<1>2. /\ b \in Ask /\ b.params = a.params /\ b.page = a.page /\ b.allow = a.allow
      /\ b.session = session
  BY DEF Ask, Typed, BrowserOK
<1>3. /\ Accept(r, j, "find_client") /\ ask' = [ask EXCEPT ![r] = b]
      /\ UNCHANGED <<row, browserVars, pages, grants>>
  BY DEF AcceptRequest
<1>4. "find_client" \in Steps /\ TablesOK
  BY DEF Steps, AuthorizeCalls, Typed
<1> HIDE DEF j, b
<1>5. /\ Own(r) /\ Kept
      /\ pc[r] = "idle" /\ pc'[r] = "find_client" /\ row'[r] = row[r]
  BY <1>1, <1>3, <1>4, OwnAccept
<1>6. OwnAsk(r) /\ ask'[r] = b
  BY <1>2, <1>3 DEF OwnAsk, Typed, AskOK
<1>7. QED  BY <1>2, <1>3, <1>5, <1>6

\* An empty request.
LEMMA NoAskType == NoAsk \in Ask /\ NoAsk.page = None
<1>1. NoSession \in Session
  BY DEF NoSession, Session
<1>2. 0 \in 0..Restarts
  BY AuthorizeAssumption
<1>3. NoAsk.page = None
  BY DEF NoAsk
<1>4. QED  BY <1>1, <1>2, <1>3 DEF NoAsk, Ask

\* The browser opens the endpoint.
LEMMA AcceptAuthorizeEffect ==
  ASSUME Typed, NEW r \in Requests, NEW p \in Params, AcceptAuthorize(r, p)
  PROVE  /\ Own(r) /\ Kept /\ OwnAsk(r) /\ UNCHANGED <<browserVars, pages, grants>>
         /\ pc[r] = "idle" /\ pc'[r] = "find_client" /\ row'[r] = row[r]
         /\ ask'[r].page = None /\ ask'[r].session = session
<1> DEFINE a == [NoAsk EXCEPT !.params = p]
<1>1. a \in Ask /\ a.page = None
  BY AuthorizeAssumption, NoAskType DEF Ask
<1>2. AcceptRequest(r, "authorize", a, "find_client")
  BY DEF AcceptAuthorize
<1> HIDE DEF a
<1>3. QED  BY <1>1, <1>2, AcceptRequestEffect DEF AuthorizeKinds

\* The browser posts the form of a page.
LEMMA AcceptApproveEffect ==
  ASSUME Typed, NEW r \in Requests, NEW page \in Requests, NEW allow \in BOOLEAN,
         AcceptApprove(r, page, allow)
  PROVE  /\ Own(r) /\ Kept /\ OwnAsk(r) /\ UNCHANGED <<browserVars, pages, grants>>
         /\ pc[r] = "idle" /\ pc'[r] = "find_client" /\ row'[r] = row[r]
         /\ pages[page].shown /\ ask'[r].page = page /\ ask'[r].session = session
         /\ ask'[r].params = pages[page].params
<1> DEFINE p == pages[page].params
           a == [NoAsk EXCEPT !.params = p, !.page = page, !.allow = allow]
<1>1. p \in Param \cup {NoParam}
  BY DEF Typed, AskOK, Page
<1> HIDE DEF p
<1>2. a \in Ask /\ a.page = page /\ a.params = p /\ a.allow = allow
  <2>1. page \in Requests \cup {None}
    OBVIOUS
  <2>2. QED  BY <1>1, <2>1, NoAskType DEF Ask
<1>3. AcceptRequest(r, "approve", a, "find_client") /\ pages[page].shown
  BY DEF AcceptApprove, p
<1> HIDE DEF a
<1>4. QED  BY <1>2, <1>3, AcceptRequestEffect DEF AuthorizeKinds, p

\* The client of a request is found and its request is valid, or the request has failed.
LEMMA FindClientEffect ==
  ASSUME Typed, NEW r \in Requests, FindClient(r)
  PROVE  /\ Own(r) /\ Kept /\ Aside /\ pc[r] = "find_client"
         /\ pc'[r] \in {"page_error", "redirect_error", "current_user"}
         /\ row'[r] = row[r] \/ \E i \in Ids : row'[r] = clients[i]
         /\ pc'[r] = "current_user" =>
              \E i \in Ids : /\ Stored(i) /\ clients[i].name = ask[r].params.name
                             /\ clients[i].enabled
                             /\ row'[r] = clients[i] /\ job'[r].id = i
                             /\ ValidateRequest(clients[i], ask[r])
<1>1. /\ "page_error" \in Steps /\ "redirect_error" \in Steps /\ "current_user" \in Steps
      /\ TablesOK
  BY DEF Steps, Responses, Answers, AuthorizeCalls, Typed
<1>2. pc[r] = "find_client" /\ Kept /\ Aside
  BY DEF FindClient, Kept, Aside
<1>3. CASE Goto(r, "page_error") /\ UNCHANGED <<job, row>>
  BY <1>1, <1>2, <1>3, OwnStep
<1>4. ASSUME NEW i \in Ids, Stored(i), clients[i].name = ask[r].params.name, clients[i].enabled,
             Read(r, clients[i]), job' = [job EXCEPT ![r].id = i],
             Goto(r, IF RedirectUris(clients[i], ask[r].params) = {} THEN "page_error"
                     ELSE IF ~ValidateRequest(clients[i], ask[r]) THEN "redirect_error"
                     ELSE "current_user")
      PROVE  /\ Own(r) /\ row'[r] = clients[i] /\ job'[r].id = i
             /\ pc'[r] \in {"page_error", "redirect_error", "current_user"}
             /\ pc'[r] = "current_user" => ValidateRequest(clients[i], ask[r])
  <2> DEFINE l == IF RedirectUris(clients[i], ask[r].params) = {} THEN "page_error"
                  ELSE IF ~ValidateRequest(clients[i], ask[r]) THEN "redirect_error"
                  ELSE "current_user"
  <2>1. /\ l \in {"page_error", "redirect_error", "current_user"} /\ Goto(r, l)
        /\ l = "current_user" => ValidateRequest(clients[i], ask[r])
    BY <1>4
  <2> HIDE DEF l
  <2>2. clients[i] \in Client /\ job[r] \in ClientJob
    BY <1>1, Tables
  <2>3. Read(r, clients[i]) /\ job' = [job EXCEPT ![r].id = i] /\ l \in Steps
    BY <1>1, <1>4, <2>1
  <2>4. Own(r) /\ pc'[r] = l /\ job'[r] = [job[r] EXCEPT !.id = i] /\ row'[r] = clients[i]
    BY <1>1, <2>1, <2>2, <2>3, OwnFound
  <2>5. job'[r].id = i
    BY <2>2, <2>4 DEF ClientJob
  <2>6. QED  BY <2>1, <2>4, <2>5
<1>5. \/ Goto(r, "page_error") /\ UNCHANGED <<job, row>>
      \/ \E i \in Ids :
           /\ Stored(i) /\ clients[i].name = ask[r].params.name /\ clients[i].enabled
           /\ Read(r, clients[i]) /\ job' = [job EXCEPT ![r].id = i]
           /\ Goto(r, IF RedirectUris(clients[i], ask[r].params) = {} THEN "page_error"
                      ELSE IF ~ValidateRequest(clients[i], ask[r]) THEN "redirect_error"
                      ELSE "current_user")
  BY DEF FindClient, ByClientId
<1>6. QED  BY <1>2, <1>3, <1>4, <1>5

\* Whoever is to be asked is asked, and a code or token is issued to a valid session only, for
\* the form of a page if the client requires consent.
LEMMA CurrentUserEffect ==
  ASSUME Typed, NEW r \in Requests, CurrentUser(r)
  PROVE  /\ Own(r) /\ Kept /\ OwnAsk(r) /\ UNCHANGED <<users, csrf, ask, grants>>
         /\ session' \in Session
         /\ pc[r] = "current_user" /\ job' = job /\ row' = row
         /\ pc'[r] \in {"login", "consent", "page_error", "issue", "redirect_error"}
         /\ \/ pages' = pages
            \/ pc'[r] = "consent" /\ pages'[r] = ConsentPage(r)
         /\ pc'[r] = "issue" =>
              /\ SessionValid(ask[r])
              /\ row[r].reg.consent =>
                   ask[r].page # None /\ ask[r].allow /\ VerifyConsent(ask[r])
<1>1. /\ {"login", "consent", "page_error", "issue", "redirect_error"} \subseteq Steps
      /\ TablesOK /\ AskOK /\ BrowserOK
  BY DEF Steps, Responses, Answers, AuthorizeCalls, Typed
<1>2. /\ pc[r] = "current_user" /\ Kept /\ UNCHANGED <<job, row, users, csrf, ask, grants>>
  BY DEF CurrentUser, Kept
<1>3. session' \in Session
  <2>1. NoSession \in Session
    BY DEF NoSession, Session
  <2>2. session' \in {session, NoSession}
    BY DEF CurrentUser
  <2>3. QED  BY <1>1, <2>1, <2>2 DEF BrowserOK
<1>4. ASSUME NEW l \in {"login", "consent", "page_error", "issue", "redirect_error"}, Goto(r, l),
             pages' = pages \/ (l = "consent" /\ pages' = [pages EXCEPT ![r] = ConsentPage(r)])
      PROVE  /\ Own(r) /\ OwnAsk(r) /\ pc'[r] = l
             /\ pages' = pages \/ (l = "consent" /\ pages'[r] = ConsentPage(r))
  <2>1. Own(r) /\ pc'[r] = l
    BY <1>1, <1>2, <1>4, OwnStep
  <2>2. CASE pages' = pages
    BY <1>1, <1>2, <2>1, <2>2 DEF OwnAsk, AskOK
  <2>3. CASE l = "consent" /\ pages' = [pages EXCEPT ![r] = ConsentPage(r)]
    <3> DEFINE page == ConsentPage(r)
    <3>1. page \in Page /\ pages' = [pages EXCEPT ![r] = page]
      BY <1>1, <2>3, ConsentPageType
    <3> HIDE DEF page
    <3>2. OwnAsk(r) /\ pages'[r] = page
      BY <1>1, <1>2, <3>1 DEF OwnAsk, AskOK
    <3>3. QED  BY <2>1, <2>3, <3>2 DEF page
  <2>4. QED  BY <1>4, <2>2, <2>3
<1>5. CASE ~SessionValid(ask[r]) /\ Goto(r, "login") /\ UNCHANGED pages
  BY <1>2, <1>3, <1>4, <1>5
<1>6. CASE /\ SessionValid(ask[r]) /\ row[r].reg.consent /\ ask[r].page = None
           /\ pages' = [pages EXCEPT ![r] = ConsentPage(r)]
           /\ Goto(r, "consent")
  BY <1>2, <1>3, <1>4, <1>6
<1>7. CASE /\ SessionValid(ask[r]) /\ row[r].reg.consent /\ ask[r].page # None
           /\ Goto(r, IF ~VerifyConsent(ask[r]) THEN "page_error"
                      ELSE IF ask[r].allow THEN "issue" ELSE "redirect_error")
           /\ UNCHANGED pages
  <2> DEFINE l == IF ~VerifyConsent(ask[r]) THEN "page_error"
                  ELSE IF ask[r].allow THEN "issue" ELSE "redirect_error"
  <2>1. /\ l \in {"page_error", "issue", "redirect_error"} /\ Goto(r, l)
        /\ l = "issue" => VerifyConsent(ask[r]) /\ ask[r].allow
    BY <1>7
  <2> HIDE DEF l
  <2>2. Own(r) /\ OwnAsk(r) /\ pc'[r] = l
    BY <1>4, <1>7, <2>1
  <2>3. QED  BY <1>2, <1>3, <1>7, <2>1, <2>2
<1>8. CASE SessionValid(ask[r]) /\ ~row[r].reg.consent /\ Goto(r, "issue") /\ UNCHANGED pages
  BY <1>2, <1>3, <1>4, <1>8
<1>9. QED  BY <1>5, <1>6, <1>7, <1>8 DEF CurrentUser

\* The code or token that request r is to be given.
Granting(r, g) ==
  /\ g \in Grant
  /\ g.st = IF ask[r].params.type = "code" THEN "code" ELSE "token"
  /\ g.client = job[r].id
  /\ g.scopes = ResolveScopes(row[r], ask[r].params)
  /\ g.to \in RedirectUris(row[r], ask[r].params)

\* A code or token is issued for the scopes and the URI of the request.
LEMMA IssueEffect ==
  ASSUME Typed, NEW r \in Requests, job[r].id \in Ids, Issue(r)
  PROVE  /\ Own(r) /\ Kept /\ OwnAsk(r) /\ UNCHANGED <<browserVars, ask, pages>>
         /\ pc[r] = "issue" /\ pc'[r] = "redirected" /\ job' = job /\ row' = row
         /\ \E g : Granting(r, g) /\ grants' = [grants EXCEPT ![r] = g]
<1> DEFINE S == ResolveScopes(row[r], ask[r].params)
           st == IF ask[r].params.type = "code" THEN "code" ELSE "token"
           g(uri) == [st |-> st, client |-> job[r].id, user |-> ask[r].session.user,
                      scopes |-> S, to |-> uri, by |-> None]
<1>1. "redirected" \in Steps /\ TablesOK /\ AskOK /\ BrowserOK
  BY DEF Steps, Responses, Answers, Typed
<1>2. pc[r] = "issue" /\ Kept /\ UNCHANGED <<job, row, browserVars, ask, pages>>
  BY DEF Issue, Kept
<1>3. Own(r) /\ pc'[r] = "redirected"
  <2>1. Goto(r, "redirected")
    BY DEF Issue
  <2>2. QED  BY <1>1, <1>2, <2>1, OwnStep
<1>4. OwnAsk(r)
  BY <1>1, <1>2 DEF OwnAsk, AskOK
<1>5. S \in SUBSET Scopes
  BY <1>1, ConsentPageType DEF Page
<1>6. ask[r].session.user \in Users \cup {None}
  BY <1>1 DEF AskOK, Ask, Session
<1>7. PICK uri \in RedirectUris(row[r], ask[r].params) : grants' = [grants EXCEPT ![r] = g(uri)]
  BY DEF Issue
<1>8. uri \in Uris
  <2>1. row[r].reg.uris \subseteq Uris
    BY <1>1, Tables DEF Client, Registration
  <2>2. QED  BY <2>1, <1>7 DEF RedirectUris
<1>9. st \in {"code", "token"}
  OBVIOUS
<1> DEFINE x == g(uri)
<1>10. x = [st |-> st, client |-> job[r].id, user |-> ask[r].session.user,
            scopes |-> S, to |-> uri, by |-> None]
  OBVIOUS
<1>11. grants' = [grants EXCEPT ![r] = x]
  BY <1>7
<1> HIDE DEF S, st, x
<1>12. /\ x \in Grant /\ x.st = st /\ x.client = job[r].id /\ x.scopes = S /\ x.to = uri
  BY <1>5, <1>6, <1>8, <1>9, <1>10 DEF Grant
<1>13. Granting(r, x)
  BY <1>7, <1>12 DEF Granting, S, st
<1>14. QED  BY <1>2, <1>3, <1>4, <1>11, <1>13

\* The client sends a code that was issued.
LEMMA AcceptExchangeEffect ==
  ASSUME Typed, NEW r \in Requests, NEW c \in Requests, NEW name \in Names,
         NEW uri \in Uris \cup {None}, NEW verifier \in Verifiers \cup {None},
         NEW secret \in {None} \cup {clients[i].secret : i \in ByClientId(name)},
         AcceptExchange(r, c, name, secret, uri, verifier)
  PROVE  /\ Own(r) /\ Kept /\ OwnAsk(r) /\ UNCHANGED <<browserVars, pages, grants>>
         /\ pc[r] = "idle" /\ pc'[r] = "authenticate" /\ row'[r] = row[r]
         /\ ask'[r].code = c /\ ask'[r].page = None /\ ask'[r].session = NoSession
<1> DEFINE j == [NoJob EXCEPT !.kind = "exchange", !.name = name, !.secret = secret]
           a == [NoAsk EXCEPT !.code = c, !.uri = uri, !.verifier = verifier]
<1>1. "authenticate" \in Steps /\ TablesOK /\ AskOK
  BY DEF Steps, ClientCalls, Typed
<1>2. secret \in Secrets \cup {None}
  BY <1>1, Tables DEF ByClientId, Client
<1>3. j \in ClientJob
  BY <1>2, NoClientType DEF NoJob, ClientJob, AuthorizeKinds
<1>4. a \in Ask /\ a.code = c /\ a.page = None
  BY NoAskType DEF Ask
<1>5. a.session = NoSession
  BY DEF NoAsk
<1>6. Accept(r, j, "authenticate") /\ UNCHANGED <<row, browserVars, pages, grants>>
  BY DEF AcceptExchange
<1>7. ask' = [ask EXCEPT ![r] = a]
  BY DEF AcceptExchange
<1> HIDE DEF j, a
<1>8. /\ Own(r) /\ Kept /\ pc[r] = "idle" /\ pc'[r] = "authenticate" /\ row'[r] = row[r]
  BY <1>1, <1>3, <1>6, OwnAccept
<1>9. OwnAsk(r) /\ ask'[r] = a
  BY <1>1, <1>4, <1>6, <1>7 DEF OwnAsk, AskOK
<1>10. QED  BY <1>4, <1>5, <1>6, <1>8, <1>9

\* What the token endpoint has found out before it consumes code c.
Matching(r, c) ==
  /\ grants[c].client = job[r].id
  /\ SameRedirect(r, c) /\ VerifyChallenge(r, c)

\* A code is only consumed for the client and the proof that it was issued for.
LEMMA GetCodeEffect ==
  ASSUME Typed, NEW r \in Requests, GetCode(r)
  PROVE  /\ Own(r) /\ Kept /\ Aside /\ pc[r] = "get_code" /\ job' = job /\ row' = row
         /\ pc'[r] \in {"consume", "refused"}
         /\ pc'[r] = "consume" =>
              grants[ask[r].code].st = "code" /\ Matching(r, ask[r].code)
<1> DEFINE c == ask[r].code
           ok == /\ "authorization_code" \in row[r].reg.grants
                 /\ grants[c].client = job[r].id /\ grants[c].st = "code"
                 /\ SameRedirect(r, c) /\ VerifyChallenge(r, c)
           l == IF ok THEN "consume" ELSE "refused"
<1>1. "consume" \in Steps /\ "refused" \in Steps /\ TablesOK
  BY DEF Steps, AuthorizeCalls, Responses, Answers, Typed
<1>2. Goto(r, l)
  BY DEF GetCode
<1>3. l \in {"consume", "refused"} /\ (l = "consume" => grants[c].st = "code" /\ Matching(r, c))
  BY DEF Matching
<1> HIDE DEF l
<1>4. UNCHANGED <<job, row>> /\ pc[r] = "get_code" /\ Kept /\ Aside
  BY DEF GetCode, Kept, Aside
<1>5. Own(r) /\ pc'[r] = l
  BY <1>1, <1>2, <1>3, <1>4, OwnStep
<1>6. QED  BY <1>3, <1>4, <1>5

\* A code is consumed once.
LEMMA ConsumeEffect ==
  ASSUME Typed, NEW r \in Requests, ask[r].code \in Requests, Consume(r)
  PROVE  LET c == ask[r].code IN
         /\ Own(r) /\ Kept /\ UNCHANGED <<browserVars, ask, pages>> /\ OwnAsk(r)
         /\ pc[r] = "consume" /\ job' = job /\ row' = row
         /\ pc'[r] \in {"exchanged", "refused"}
         /\ grants' \in [Requests -> Grant]
         /\ \/ grants' = grants
            \/ /\ grants[c].st = "code" /\ grants'[c].st = "consumed" /\ grants'[c].by = r
               /\ grants'[c].client = grants[c].client /\ grants'[c].user = grants[c].user
               /\ grants'[c].scopes = grants[c].scopes /\ grants'[c].to = grants[c].to
               /\ \A d \in Requests \ {c} : grants'[d] = grants[d]
<1> DEFINE c == ask[r].code
<1>1. "exchanged" \in Steps /\ "refused" \in Steps /\ TablesOK /\ AskOK
  BY DEF Steps, Responses, Answers, Typed
<1>2. PICK l \in {"exchanged", "refused"} : Goto(r, l)
  BY DEF Consume
<1>3. UNCHANGED <<job, row, browserVars, ask, pages>> /\ pc[r] = "consume" /\ Kept
  BY DEF Consume, Kept
<1>4. Own(r) /\ pc'[r] = l
  BY <1>1, <1>2, <1>3, OwnStep
<1>5. OwnAsk(r)
  BY <1>1, <1>3 DEF OwnAsk, AskOK
<1>6. CASE UNCHANGED grants
  BY <1>1, <1>2, <1>3, <1>4, <1>5, <1>6 DEF AskOK
<1>7. CASE grants[c].st = "code" /\ grants' = [grants EXCEPT ![c].st = "consumed", ![c].by = r]
  <2> DEFINE g == [grants[c] EXCEPT !.st = "consumed", !.by = r]
  <2>1. grants[c] \in Grant
    BY <1>1 DEF AskOK
  <2>2. /\ g \in Grant /\ g.st = "consumed" /\ g.by = r /\ g.client = grants[c].client
        /\ g.user = grants[c].user /\ g.scopes = grants[c].scopes /\ g.to = grants[c].to
    BY <2>1 DEF Grant
  <2>3. grants' = [grants EXCEPT ![c] = g]
    BY <1>1, <1>7 DEF AskOK
  <2> HIDE DEF g
  <2>4. grants' \in [Requests -> Grant] /\ grants'[c] = g
        /\ \A d \in Requests \ {c} : grants'[d] = grants[d]
    BY <1>1, <2>2, <2>3 DEF AskOK
  <2>5. QED  BY <1>2, <1>3, <1>4, <1>5, <1>7, <2>2, <2>4
<1>8. QED  BY <1>6, <1>7 DEF Consume

\* The browser and its users.
LEMMA BrowseEffect ==
  ASSUME BrowserOK, Browse
  PROVE  /\ BrowserOK'
         /\ UNCHANGED <<clients, pc, job, row, replaced, missed, restored, ask, pages, grants>>
<1>1. CASE \E u \in Users : SignIn(u)
  <2>1. PICK u \in Users : SignIn(u)
    BY <1>1
  <2>2. session' \in Session
    BY <2>1 DEF SignIn, Session, BrowserOK, User
  <2>3. QED  BY <2>1, <2>2 DEF SignIn, Browse, BrowserOK
<1>2. CASE SignOut
  <2>1. NoSession \in Session
    BY DEF NoSession, Session
  <2>2. QED  BY <1>2, <2>1 DEF SignOut, Browse, BrowserOK
<1>3. CASE Restart
  BY <1>3, AuthorizeAssumption DEF Restart, Browse, BrowserOK
<1>4. CASE \E u \in Users, active \in BOOLEAN : ChangeUser(u, active)
  <2>1. PICK u \in Users, active \in BOOLEAN : ChangeUser(u, active)
    BY <1>4
  <2>2. [active |-> active, stamp |-> 1] \in User
    BY DEF User
  <2>3. users' \in [Users -> User]
    BY <2>1, <2>2 DEF ChangeUser, BrowserOK
  <2>4. QED  BY <2>1, <2>3 DEF ChangeUser, Browse, BrowserOK
<1>5. QED  BY <1>1, <1>2, <1>3, <1>4 DEF Browse

(***************************************************************************)
(* The two kinds of steps                                                  *)
(***************************************************************************)

\* What a request names when it needs it.
Targeted(r) ==
  /\ pc[r] \in {"insert", "get_client", "get_by_client_id", "update", "update_and_revoke",
                "delete", "current_user", "issue"} => job[r].id \in Ids
  /\ pc[r] \in {"authenticate", "get_code", "consume"} => ask[r].code \in Requests

TargetInv == \A r \in Requests : Targeted(r)

\* Steps at which a request may still write the secret that it generates.
Unwritten == {"idle", "insert", "get_client", "get_by_client_id", "update", "update_and_revoke"}

\* Steps of the administration of clients.
ClientSide == (ClientCalls \ {"authenticate"}) \cup (ClientResponses \ {"denied"})

\* The administration of clients.
Administer(r) ==
  /\ \/ ArriveAtClients(r)
     \/ Insert(r) \/ GetClient(r) \/ Update(r) \/ DeleteClient(r) \/ RevokeTokens(r)
     \/ GetByClientId(r)
  /\ Aside

\* The endpoints of the browser and of the client.
Serve(r) ==
  \/ \E p \in Params : AcceptAuthorize(r, p)
  \/ \E page \in Requests, allow \in BOOLEAN : AcceptApprove(r, page, allow)
  \/ \E c \in Requests, name \in Names, uri \in Uris \cup {None},
        verifier \in Verifiers \cup {None} :
       \E secret \in {None} \cup {clients[i].secret : i \in ByClientId(name)} :
         AcceptExchange(r, c, name, secret, uri, verifier)
  \/ FindClient(r) \/ CurrentUser(r) \/ Issue(r)
  \/ AuthenticateClient(r) /\ Aside
  \/ GetCode(r) \/ Consume(r)

\* Every step is one of the browser, of the administration or of an endpoint.
LEMMA StepKinds ==
  ASSUME Next
  PROVE  Browse \/ \E r \in Requests : Administer(r) \/ Serve(r)
<1>1. CASE Browse
  BY <1>1
<1>2. ASSUME NEW r \in Requests, Arrive(r)
      PROVE  Administer(r) \/ Serve(r)
  BY <1>2 DEF Arrive, Administer, Serve, Aside
<1>3. ASSUME NEW r \in Requests, Advance(r)
      PROVE  Administer(r) \/ Serve(r)
  BY <1>3 DEF Advance, AdvanceClients, Administer, Serve, Aside
<1>4. QED  BY <1>1, <1>2, <1>3 DEF Next

\* An update of the registrations keeps their types.
LEMMA WriteTypes ==
  ASSUME TablesOK, NEW i \in Ids, NEW x \in Client, clients' = [clients EXCEPT ![i] = x]
  PROVE  clients' \in [Ids -> Client]
BY Tables

\* The administration leaves the browser, its requests and the grants alone.
LEMMA AdministerEffect ==
  ASSUME Typed, NEW r \in Requests, Targeted(r), Administer(r)
  PROVE  /\ Own(r) /\ Aside /\ ClientsTypeOK'
         /\ pc[r] \in ClientSide \cup {"idle"} /\ pc'[r] \in ClientSide
         /\ pc'[r] \in {"insert", "get_client", "get_by_client_id", "update",
                         "update_and_revoke", "delete"} => job'[r].id \in Ids
<1> DEFINE Goal == /\ Own(r) /\ ClientsTypeOK'
                   /\ pc[r] \in ClientSide \cup {"idle"} /\ pc'[r] \in ClientSide
                   /\ pc'[r] \in {"insert", "get_client", "get_by_client_id", "update",
                                   "update_and_revoke", "delete"} => job'[r].id \in Ids
<1> SUFFICES Goal
  BY DEF Administer
<1>1. TablesOK /\ r \in Ids
  BY DEF Typed, Ids
<1>2. ASSUME Own(r), Kept
      PROVE  ClientsTypeOK'
  BY <1>1, <1>2, Tables DEF Own, Kept, ClientsTypeOK
<1>3. ASSUME NEW name \in Names, NEW reg \in Registrations, NEW enabled \in Toggles,
             AcceptCreate(r, name, reg, enabled)
      PROVE  Goal
  BY <1>1, <1>2, <1>3, AcceptCreateEffect DEF ClientSide, ClientCalls, ClientResponses
<1>4. ASSUME NEW i \in Ids, NEW name \in Names, NEW reg \in Registrations,
             NEW enabled \in Toggles, AcceptUpdate(r, i, name, reg, enabled)
      PROVE  Goal
  BY <1>1, <1>2, <1>4, AcceptUpdateEffect DEF ClientSide, ClientCalls, ClientResponses
<1>5. ASSUME NEW i \in Ids, AcceptRegenerate(r, i)
      PROVE  Goal
  BY <1>1, <1>2, <1>5, AcceptRegenerateEffect DEF ClientSide, ClientCalls, ClientResponses
<1>6. ASSUME NEW i \in Ids, AcceptDelete(r, i)
      PROVE  Goal
  BY <1>1, <1>2, <1>6, AcceptDeleteEffect DEF ClientSide, ClientCalls, ClientResponses
<1>7. ASSUME NEW name \in Names, NEW reg \in Registrations, NEW secret \in {None, r},
             AcceptEnsure(r, name, reg, secret)
      PROVE  Goal
  BY <1>1, <1>2, <1>7, AcceptEnsureEffect DEF ClientSide, ClientCalls, ClientResponses
<1>8. CASE Insert(r)
  <2>1. job[r].id \in Ids /\ row[r] \in Client
    BY <1>1, <1>8, Tables DEF Targeted, Insert
  <2>2. /\ Own(r) /\ pc[r] = "insert" /\ pc'[r] \in {"duplicate", "ok"}
        /\ UNCHANGED <<replaced, missed, restored>>
    BY <1>1, <1>8, <2>1, InsertEffect
  <2>3. clients' \in [Ids -> Client]
    BY <1>1, <1>8, <2>1, InsertEffect, WriteTypes, Tables
  <2>4. ClientsTypeOK'
    BY <1>1, <2>2, <2>3, Tables DEF Own, ClientsTypeOK
  <2>5. QED  BY <2>2, <2>4 DEF ClientSide, ClientCalls, ClientResponses
<1>9. CASE GetClient(r)
  <2>1. job[r].id \in Ids
    BY <1>9 DEF Targeted, GetClient
  <2>2. /\ Own(r) /\ Kept /\ pc[r] = "get_client" /\ job' = job
        /\ pc'[r] \in {"not_found", "invalid", "update", "update_and_revoke"}
    BY <1>1, <1>9, <2>1, GetClientEffect
  <2>3. QED  BY <1>2, <2>1, <2>2 DEF ClientSide, ClientCalls, ClientResponses
<1>10. CASE Update(r)
  <2> DEFINE i == job[r].id
             old == {clients[i].secret} \ {None}
  <2>1. i \in Ids /\ row[r] \in Client
    BY <1>1, <1>10, Tables DEF Targeted, Update
  <2>2. /\ Own(r) /\ pc[r] \in {"update", "update_and_revoke"}
        /\ pc'[r] \in {"not_found", "duplicate", "ok", "revoke_refresh"}
    BY <1>1, <1>10, <2>1, UpdateEffect
  <2>3. old \subseteq Secrets
    <3>1. clients[i] \in Client
      BY <1>1, <2>1, Tables
    <3>2. clients[i].secret \in Secrets \cup {None}
      BY <3>1 DEF Client
    <3>3. QED  BY <3>2
  <2>4. clients' \in [Ids -> Client]
    BY <1>1, <1>10, <2>1, UpdateEffect, WriteTypes, Tables DEF Kept
  <2> HIDE DEF old
  <2>5. \/ Kept
        \/ /\ replaced' = [replaced EXCEPT ![i] = @ \cup old]
           /\ missed' = [q \in Requests |-> IF Holds(q, i) THEN missed[q] \cup old ELSE missed[q]]
           /\ restored' = restored
        \/ /\ restored' = [restored EXCEPT ![i] = @ \cup (missed[r] \cap {row[r].secret})]
           /\ replaced' = replaced /\ missed' = missed
    BY <1>1, <1>10, <2>1, UpdateEffect DEF old
  <2>6. /\ replaced' \in [Ids -> SUBSET Secrets] /\ restored' \in [Ids -> SUBSET Secrets]
        /\ missed' \in [Requests -> SUBSET Secrets]
    BY <1>1, <2>1, <2>3, <2>5, Tables DEF Kept
  <2>7. ClientsTypeOK'
    BY <2>2, <2>4, <2>6 DEF Own, ClientsTypeOK
  <2>8. QED  BY <2>2, <2>7 DEF ClientSide, ClientCalls, ClientResponses
<1>11. CASE DeleteClient(r)
  <2>1. job[r].id \in Ids /\ clients[job[r].id] \in Client
    BY <1>1, <1>11, Tables DEF Targeted, DeleteClient
  <2>2. /\ Own(r) /\ pc[r] = "delete" /\ pc'[r] \in {"revoke_refresh", "not_found"}
        /\ UNCHANGED <<replaced, missed, restored>>
    BY <1>1, <1>11, <2>1, DeleteClientEffect
  <2> DEFINE x == [clients[job[r].id] EXCEPT !.st = "gone"]
  <2>3. x \in Client
    BY <2>1 DEF Client
  <2>4. clients' = clients \/ clients' = [clients EXCEPT ![job[r].id] = x]
    BY <1>1, <1>11, <2>1, DeleteClientEffect, Tables
  <2> HIDE DEF x
  <2>5. clients' \in [Ids -> Client]
    BY <1>1, <2>1, <2>3, <2>4, WriteTypes, Tables
  <2>6. ClientsTypeOK'
    BY <1>1, <2>2, <2>5, Tables DEF Own, ClientsTypeOK
  <2>7. QED  BY <2>2, <2>6 DEF ClientSide, ClientCalls, ClientResponses
<1>12. CASE RevokeTokens(r)
  BY <1>1, <1>2, <1>12, RevokeTokensEffect DEF ClientSide, ClientCalls, ClientResponses
<1>13. CASE GetByClientId(r)
  <2>1. /\ Own(r) /\ Kept /\ pc[r] = "get_by_client_id"
        /\ pc'[r] \in {"insert", "invalid", "update"}
        /\ pc'[r] = "update" => job'[r].id \in Ids
        /\ pc'[r] = "insert" => job'[r].id = job[r].id
    BY <1>1, <1>13, GetByClientIdEffect
  <2>2. job[r].id \in Ids
    BY <2>1 DEF Targeted
  <2>3. QED  BY <1>2, <2>1, <2>2 DEF ClientSide, ClientCalls, ClientResponses
<1>14. QED
  BY <1>3, <1>4, <1>5, <1>6, <1>7, <1>8, <1>9, <1>10, <1>11, <1>12, <1>13
     DEF Administer, ArriveAtClients

\* The endpoints leave the registrations alone, and copy them at most.
LEMMA ServeEffect ==
  ASSUME Typed, NEW r \in Requests, Targeted(r), Serve(r)
  PROVE  /\ Own(r) /\ OwnAsk(r) /\ Kept /\ UNCHANGED <<users, csrf>> /\ session' \in Session
         /\ grants' \in [Requests -> Grant]
         /\ pc[r] \notin Unwritten \ {"idle"} /\ pc'[r] \notin Unwritten
         /\ pc'[r] \notin {"idle", "delete"}
         /\ row'[r] = row[r] \/ \E i \in Ids : row'[r] = clients[i]
         /\ Targeted(r)'
<1> DEFINE Goal == /\ Own(r) /\ OwnAsk(r) /\ Kept /\ UNCHANGED <<users, csrf>>
                   /\ session' \in Session /\ grants' \in [Requests -> Grant]
                   /\ pc[r] \notin Unwritten \ {"idle"} /\ pc'[r] \notin Unwritten
                   /\ pc'[r] \notin {"idle", "delete"}
                   /\ row'[r] = row[r] \/ \E i \in Ids : row'[r] = clients[i]
                   /\ Targeted(r)'
<1> SUFFICES Goal
  OBVIOUS
<1>1. TablesOK /\ BrowserOK /\ AskOK
  BY DEF Typed
<1>2. ASSUME Aside
      PROVE  /\ OwnAsk(r) /\ UNCHANGED <<users, csrf>> /\ session' \in Session
             /\ grants' \in [Requests -> Grant]
  BY <1>1, <1>2 DEF Aside, OwnAsk, AskOK, BrowserOK, browserVars
<1>3. ASSUME UNCHANGED <<browserVars, grants>>
      PROVE  /\ UNCHANGED <<users, csrf>> /\ session' \in Session /\ grants' \in [Requests -> Grant]
  BY <1>1, <1>3 DEF AskOK, BrowserOK, browserVars
<1>4. ASSUME NEW p \in Params, AcceptAuthorize(r, p)
      PROVE  Goal
  <2>1. Own(r) /\ OwnAsk(r) /\ Kept /\ UNCHANGED <<browserVars, grants>> /\ pc[r] = "idle"
        /\ pc'[r] = "find_client" /\ row'[r] = row[r]
    BY <1>4, AcceptAuthorizeEffect
  <2>2. QED  BY <1>3, <2>1 DEF Unwritten, Targeted
<1>5. ASSUME NEW page \in Requests, NEW allow \in BOOLEAN, AcceptApprove(r, page, allow)
      PROVE  Goal
  <2>1. Own(r) /\ OwnAsk(r) /\ Kept /\ UNCHANGED <<browserVars, grants>> /\ pc[r] = "idle"
        /\ pc'[r] = "find_client" /\ row'[r] = row[r]
    BY <1>5, AcceptApproveEffect
  <2>2. QED  BY <1>3, <2>1 DEF Unwritten, Targeted
<1>6. ASSUME NEW c \in Requests, NEW name \in Names, NEW uri \in Uris \cup {None},
             NEW verifier \in Verifiers \cup {None},
             NEW secret \in {None} \cup {clients[i].secret : i \in ByClientId(name)},
             AcceptExchange(r, c, name, secret, uri, verifier)
      PROVE  Goal
  <2>1. Own(r) /\ OwnAsk(r) /\ Kept /\ UNCHANGED <<browserVars, grants>> /\ pc[r] = "idle"
        /\ pc'[r] = "authenticate" /\ row'[r] = row[r] /\ ask'[r].code = c
    BY <1>6, AcceptExchangeEffect
  <2>2. QED  BY <1>3, <2>1 DEF Unwritten, Targeted
<1>7. CASE FindClient(r)
  <2>1. /\ Own(r) /\ Kept /\ Aside /\ pc[r] = "find_client"
        /\ pc'[r] \in {"page_error", "redirect_error", "current_user"}
        /\ row'[r] = row[r] \/ \E i \in Ids : row'[r] = clients[i]
        /\ pc'[r] = "current_user" => job'[r].id \in Ids
    BY <1>7, FindClientEffect
  <2>2. QED  BY <1>2, <2>1 DEF Unwritten, Targeted
<1>8. CASE CurrentUser(r)
  <2>1. /\ Own(r) /\ OwnAsk(r) /\ Kept /\ UNCHANGED <<users, csrf, grants>>
        /\ session' \in Session /\ pc[r] = "current_user" /\ job' = job /\ row' = row
        /\ pc'[r] \in {"login", "consent", "page_error", "issue", "redirect_error"}
    BY <1>8, CurrentUserEffect
  <2>2. grants' \in [Requests -> Grant] /\ job[r].id \in Ids
    BY <1>1, <2>1 DEF AskOK, Targeted
  <2>3. QED  BY <2>1, <2>2 DEF Unwritten, Targeted
<1>9. CASE Issue(r)
  <2>1. job[r].id \in Ids
    BY <1>9 DEF Issue, Targeted
  <2>2. /\ Own(r) /\ OwnAsk(r) /\ Kept /\ UNCHANGED browserVars
        /\ pc[r] = "issue" /\ pc'[r] = "redirected" /\ row' = row
    BY <1>9, <2>1, IssueEffect
  <2>3. PICK g : Granting(r, g) /\ grants' = [grants EXCEPT ![r] = g]
    BY <1>9, <2>1, IssueEffect
  <2>4. grants' \in [Requests -> Grant]
    BY <1>1, <2>3 DEF AskOK, Granting
  <2>5. QED  BY <1>1, <2>2, <2>4 DEF Unwritten, Targeted, BrowserOK, browserVars
<1>10. CASE AuthenticateClient(r) /\ Aside
  <2>1. /\ Own(r) /\ Kept /\ pc[r] = "authenticate" /\ pc'[r] \in {"get_code", "denied"}
        /\ row'[r] = row[r] \/ \E i \in Ids : row'[r] = clients[i]
    BY <1>1, <1>10, AuthenticateEffect
  <2>2. ask'[r].code \in Requests
    BY <1>10, <2>1 DEF Targeted, Aside
  <2>3. QED  BY <1>2, <1>10, <2>1, <2>2 DEF Unwritten, Targeted
<1>11. CASE GetCode(r)
  <2>1. /\ Own(r) /\ Kept /\ Aside /\ pc[r] = "get_code" /\ row' = row
        /\ pc'[r] \in {"consume", "refused"}
    BY <1>11, GetCodeEffect
  <2>2. ask'[r].code \in Requests
    BY <2>1 DEF Targeted, Aside
  <2>3. QED  BY <1>2, <2>1, <2>2 DEF Unwritten, Targeted
<1>12. CASE Consume(r)
  <2>1. ask[r].code \in Requests
    BY <1>12 DEF Consume, Targeted
  <2>2. /\ Own(r) /\ Kept /\ UNCHANGED browserVars /\ OwnAsk(r) /\ pc[r] = "consume"
        /\ row' = row /\ pc'[r] \in {"exchanged", "refused"}
        /\ grants' \in [Requests -> Grant]
    BY <1>12, <2>1, ConsumeEffect
  <2>3. QED  BY <1>1, <2>2 DEF Unwritten, Targeted, BrowserOK, browserVars
<1>13. QED
  BY <1>4, <1>5, <1>6, <1>7, <1>8, <1>9, <1>10, <1>11, <1>12 DEF Serve

\* A step leaves the rows of the other requests alone, and what they name.
LEMMA TargetStep ==
  ASSUME Typed, NEW r \in Requests, TargetInv, Administer(r) \/ Serve(r)
  PROVE  Typed' /\ TargetInv' /\ Own(r)
<1>1. Targeted(r) /\ TablesOK /\ BrowserOK /\ AskOK
  BY DEF TargetInv, Typed
<1>2. CASE Administer(r)
  <2>1. /\ Own(r) /\ Aside /\ ClientsTypeOK' /\ pc'[r] \in ClientSide
        /\ pc'[r] \in {"insert", "get_client", "get_by_client_id", "update",
                        "update_and_revoke", "delete"} => job'[r].id \in Ids
    BY <1>1, <1>2, AdministerEffect
  <2>2. Typed'
    BY <1>1, <2>1 DEF Own, Aside, Typed, TablesOK, BrowserOK, AskOK, browserVars
  <2>3. Targeted(r)'
    BY <2>1 DEF Targeted, ClientSide, ClientCalls, ClientResponses
  <2>4. \A q \in Requests \ {r} : Targeted(q)'
    BY <2>1 DEF Targeted, TargetInv, Own, Aside
  <2>5. QED  BY <2>1, <2>2, <2>3, <2>4 DEF TargetInv
<1>3. CASE Serve(r)
  <2>1. /\ Own(r) /\ OwnAsk(r) /\ Kept /\ UNCHANGED <<users, csrf>> /\ session' \in Session
        /\ grants' \in [Requests -> Grant] /\ Targeted(r)'
    BY <1>1, <1>3, ServeEffect
  <2>2. TablesOK'
    BY <1>1, <2>1, Tables DEF Own, Kept, TablesOK, ClientsTypeOK
  <2>3. BrowserOK' /\ AskOK'
    BY <1>1, <2>1 DEF OwnAsk, BrowserOK, AskOK
  <2>4. \A q \in Requests \ {r} : Targeted(q)'
    BY <2>1 DEF Targeted, TargetInv, Own, OwnAsk
  <2>5. QED  BY <2>1, <2>2, <2>3, <2>4 DEF Typed, TargetInv
<1>4. QED  BY <1>2, <1>3

\* A step of the browser changes no request.
LEMMA TargetBrowse ==
  ASSUME Typed, TargetInv, Browse
  PROVE  Typed' /\ TargetInv'
<1>1. /\ BrowserOK'
      /\ UNCHANGED <<clients, pc, job, row, replaced, missed, restored, ask, pages, grants>>
  BY BrowseEffect DEF Typed
<1>2. TablesOK' /\ AskOK'
  BY <1>1 DEF Typed, TablesOK, ClientsTypeOK, AskOK
<1>3. QED  BY <1>1, <1>2 DEF Typed, TargetInv, Targeted

\* What a request has had the chance to read are rows of the tables.
LEMMA WitnessType ==
  ASSUME SinceOK, Witness, Typed'
  PROVE  SinceOK'
<1> DEFINE seen(r) ==
      IF pc'[r] \in {"find_client", "current_user", "issue"}
      THEN [clients |-> since[r].clients \cup Named(clients', ask'[r].params.name),
            users |-> since[r].users \cup {users'[u] : u \in Users \cap {ask'[r].session.user}}]
      ELSE Nothing
<1>1. since' = [r \in Requests |-> seen(r)]
  BY DEF Witness
<1>2. ASSUME NEW r \in Requests
      PROVE  seen(r) \in [clients : SUBSET Client, users : SUBSET User]
  <2> DEFINE C == Named(clients', ask'[r].params.name)
             U == {users'[u] : u \in Users \cap {ask'[r].session.user}}
  <2>1. clients' \in [Ids -> Client] /\ users' \in [Users -> User]
    BY DEF Typed, TablesOK, ClientsTypeOK, BrowserOK
  <2>2. C \subseteq Client
    BY <2>1 DEF Named
  <2>3. U \subseteq User
    BY <2>1
  <2>4. since[r].clients \subseteq Client /\ since[r].users \subseteq User
    BY DEF SinceOK
  <2> HIDE DEF C, U
  <2>5. since[r].clients \cup C \in SUBSET Client /\ since[r].users \cup U \in SUBSET User
    BY <2>2, <2>3, <2>4
  <2>6. Nothing \in [clients : SUBSET Client, users : SUBSET User]
    BY DEF Nothing
  <2>7. seen(r) = IF pc'[r] \in {"find_client", "current_user", "issue"}
                  THEN [clients |-> since[r].clients \cup C, users |-> since[r].users \cup U]
                  ELSE Nothing
    BY DEF C, U
  <2> HIDE DEF seen
  <2>8. QED  BY <2>5, <2>6, <2>7
<1> HIDE DEF seen
<1>3. QED  BY <1>1, <1>2 DEF SinceOK

\* The initial states.
LEMMA TypedInit == Init => Typed /\ SinceOK /\ TargetInv
<1> SUFFICES ASSUME Init
             PROVE  Typed /\ SinceOK /\ TargetInv
  OBVIOUS
<1>1. NoClient \in Client
  BY NoClientType
<1>2. ClientsTypeOK
  <2>1. ASSUME NEW i \in Existing
        PROVE  [st |-> "stored", name |-> ExistingName[i], secret |-> i, enabled |-> TRUE,
                reg |-> ExistingReg[i]] \in Client
    BY ClientsAssumption DEF Client, Secrets, Ids
  <2>2. clients \in [Ids -> Client]
    BY <1>1, <2>1 DEF Init, ClientsInit
  <2>3. NoJob \in ClientJob
    BY NoClientType DEF NoJob, ClientJob
  <2>4. QED  BY <1>1, <2>2, <2>3 DEF Init, ClientsInit, ClientsTypeOK
<1>3. pc \in [Requests -> Steps] /\ \A r \in Requests : pc[r] = "idle"
  BY DEF Init, ClientsInit, Steps
<1>4. BrowserOK
  <2>1. [active |-> TRUE, stamp |-> 0] \in User /\ NoSession \in Session
    BY DEF User, NoSession, Session
  <2>2. QED  BY <2>1, AuthorizeAssumption DEF Init, BrowserOK
<1>5. AskOK
  <2>1. NoPage \in Page
    BY AuthorizeAssumption DEF NoPage, Page
  <2>2. NoGrant \in Grant
    BY DEF NoGrant, Grant
  <2>3. QED  BY <2>1, <2>2, NoAskType DEF Init, AskOK
<1>6. SinceOK
  BY DEF Init, SinceOK, Nothing
<1>7. TargetInv
  BY <1>3 DEF TargetInv, Targeted
<1>8. QED  BY <1>2, <1>3, <1>4, <1>5, <1>6, <1>7 DEF Typed, TablesOK

\* A step that changes nothing keeps the types.
LEMMA TypedStutter ==
  ASSUME Typed, SinceOK, TargetInv, UNCHANGED vars
  PROVE  Typed' /\ SinceOK' /\ TargetInv'
<1>1. Typed'
  BY DEF vars, Typed, TablesOK, ClientsTypeOK, BrowserOK, AskOK, browserVars
<1>2. SinceOK' /\ TargetInv'
  BY DEF vars, SinceOK, TargetInv, Targeted
<1>3. QED  BY <1>1, <1>2

\* Every step keeps the types.
LEMMA TypedNext ==
  ASSUME Typed, SinceOK, TargetInv, [Next]_vars
  PROVE  Typed' /\ SinceOK' /\ TargetInv'
<1>1. CASE Next
  <2>1. Typed' /\ TargetInv'
    BY <1>1, StepKinds, TargetStep, TargetBrowse
  <2>2. Witness
    BY <1>1 DEF Next
  <2>3. QED  BY <2>1, <2>2, WitnessType
<1>2. CASE UNCHANGED vars
  BY <1>2, TypedStutter
<1>3. QED  BY <1>1, <1>2

\* The types are kept forever.
LEMMA AlwaysTyped == Spec => [](Typed /\ SinceOK /\ TargetInv)
<1>1. Typed /\ SinceOK /\ TargetInv /\ [Next]_vars => (Typed /\ SinceOK /\ TargetInv)'
  BY TypedNext
<1>2. QED  BY <1>1, TypedInit, PTL DEF Spec

\* The tables, the browser and the requests always have their types.
THEOREM TypeCorrect == Spec => []TypeOK
<1>1. Typed /\ SinceOK => TypeOK
  BY DEF Typed, TablesOK, BrowserOK, AskOK, SinceOK, Steps, TypeOK
<1>2. QED  BY <1>1, AlwaysTyped, PTL

(***************************************************************************)
(* The secrets of clients.  A secret is named by the request that          *)
(* generates it, which writes it at most once: until then it is nobody's.  *)
(***************************************************************************)

\* The id of a request names no client before it inserts one.
NewId(r) ==
  /\ pc[r] \in {"idle", "get_by_client_id", "insert"} => clients[r].st = "none"
  /\ pc[r] \in {"get_by_client_id", "insert"} => job[r].id = r

\* What the steps before a write know of their request.
Reading(r) ==
  /\ pc[r] = "get_by_client_id" => job[r].kind = "ensure" /\ job[r].secret \in {None, r}
  /\ pc[r] = "get_client" => job[r].kind \in {"update_client", "regenerate"}

\* The secret of a copy: the own one or none when it replaces that of the client, otherwise
\* one that has not been replaced, or was while the request had its copy.
Copy(r) ==
  /\ pc[r] = "insert" => row[r].secret \in {None, r}
  /\ pc[r] \in {"update", "update_and_revoke"} =>
       IF Replaces(r) THEN row[r].secret \in {None, r}
       ELSE row[r].secret \in replaced[job[r].id] =>
              row[r].secret \in missed[r] \cup restored[job[r].id]

\* What is to be written was validated.
Validated(r) ==
  pc[r] \in {"insert", "update", "update_and_revoke"} =>
    row[r].st = "stored" /\ Validate(row[r].reg)

Local(r) == NewId(r) /\ Reading(r) /\ Copy(r) /\ Validated(r)

\* Nobody has a secret that is not written.
Fresh(q) ==
  pc[q] \in Unwritten =>
    /\ \A i \in Ids : clients[i].secret # q /\ q \notin replaced[i]
    /\ \A p \in Requests \ {q} : row[p].secret # q

ValidStored == \A i \in Ids : Stored(i) => Validate(clients[i].reg)

SecretInv ==
  /\ \A r \in Requests : Local(r) /\ Fresh(r)
  /\ RetiredStayRetired
  /\ ValidStored

\* Where the registrations stay, another request has nothing to redo.
LEMMA LocalKept ==
  ASSUME NEW r \in Requests, NEW q \in Requests \ {r}, Own(r), Kept, Local(q)
  PROVE  Local(q)'
<1>1. pc'[q] = pc[q] /\ job'[q] = job[q] /\ row'[q] = row[q]
  BY DEF Own
<1>2. NewId(q)' /\ Reading(q)' /\ Validated(q)'
  BY <1>1 DEF Local, NewId, Reading, Validated, Kept
<1>3. Copy(q)'
  BY <1>1 DEF Local, Copy, Kept, Replaces, IsPublic
<1>4. QED  BY <1>2, <1>3 DEF Local

\* No secret gets about that is not written.
LEMMA FreshStep ==
  ASSUME Typed, NEW r \in Requests, Own(r), \A q \in Requests : Fresh(q),
         pc'[r] \in Unwritten => pc[r] \in Unwritten /\ Kept,
         row'[r].secret \in {row[r].secret, None, r} \cup {clients[i].secret : i \in Ids},
         \/ UNCHANGED <<clients, replaced>>
         \/ \E j \in Ids :
              /\ \/ clients' = [clients EXCEPT ![j] = row[r]]
                 \/ clients' = [clients EXCEPT ![j].st = "gone"]
              /\ \/ replaced' = replaced
                 \/ replaced' = [replaced EXCEPT ![j] = @ \cup ({clients[j].secret} \ {None})]
  PROVE  \A q \in Requests : Fresh(q)'
<1> SUFFICES ASSUME NEW q \in Requests, pc'[q] \in Unwritten
             PROVE  /\ \A i \in Ids : clients'[i].secret # q /\ q \notin replaced'[i]
                    /\ \A p \in Requests \ {q} : row'[p].secret # q
  BY DEF Fresh
<1>1. TablesOK /\ q # None /\ r # None
  BY ClientsAssumption DEF Typed, Ids
<1>2. CASE q = r
  BY <1>2 DEF Fresh, Own, Kept
<1>3. CASE q # r
  <2>1. pc[q] \in Unwritten
    BY <1>3 DEF Own
  <2>2. /\ \A i \in Ids : clients[i].secret # q /\ q \notin replaced[i]
        /\ \A p \in Requests \ {q} : row[p].secret # q
    BY <2>1 DEF Fresh
  <2>3. row'[r].secret # q /\ row[r].secret # q
    BY <1>1, <1>3, <2>2
  <2>4. \A p \in Requests \ {q} : row'[p].secret # q
    BY <2>2, <2>3 DEF Own
  <2>5. ASSUME NEW j \in Ids, clients' = [clients EXCEPT ![j] = row[r]], NEW i \in Ids
        PROVE  clients'[i].secret # q
    BY <1>1, <2>2, <2>3, <2>5, Tables
  <2>6. ASSUME NEW j \in Ids, clients' = [clients EXCEPT ![j].st = "gone"], NEW i \in Ids
        PROVE  clients'[i].secret # q
    <3>1. clients[j] \in Client
      BY <1>1, Tables
    <3> DEFINE x == [clients[j] EXCEPT !.st = "gone"]
    <3>2. x.secret = clients[j].secret /\ clients' = [clients EXCEPT ![j] = x]
      BY <2>6, <3>1 DEF Client
    <3> HIDE DEF x
    <3>3. QED  BY <1>1, <2>2, <3>2, Tables
  <2>7. ASSUME NEW j \in Ids, NEW i \in Ids,
               replaced' = [replaced EXCEPT ![j] = @ \cup ({clients[j].secret} \ {None})]
        PROVE  q \notin replaced'[i]
    BY <1>1, <2>2, <2>7, Tables
  <2>8. QED  BY <2>2, <2>4, <2>5, <2>6, <2>7
<1>4. QED  BY <1>2, <1>3

\* A step that writes no client.
Prepare(r) == ArriveAtClients(r) \/ GetClient(r) \/ RevokeTokens(r) \/ GetByClientId(r)

\* A request has a secret of its own, or that of a client that was not replaced.
LEMMA PrepareSecrets ==
  ASSUME Typed, NEW r \in Requests, Targeted(r), Local(r), RetiredStayRetired, ValidStored,
         Prepare(r)
  PROVE  /\ Own(r) /\ Kept /\ Local(r)'
         /\ pc'[r] \in Unwritten => pc[r] \in Unwritten
         /\ row'[r].secret \in {row[r].secret, None, r} \cup {clients[i].secret : i \in Ids}
<1> DEFINE Goal == /\ Own(r) /\ Kept /\ Local(r)'
                   /\ pc'[r] \in Unwritten => pc[r] \in Unwritten
                   /\ row'[r].secret \in {row[r].secret, None, r}
                                           \cup {clients[i].secret : i \in Ids}
<1> SUFFICES Goal
  OBVIOUS
<1>1. TablesOK /\ (pc[r] = "idle" => clients[r].st = "none")
  BY DEF Typed, Local, NewId
<1>2. ASSUME NEW name \in Names, NEW reg \in Registrations, NEW enabled \in Toggles,
             AcceptCreate(r, name, reg, enabled)
      PROVE  Goal
  <2>1. /\ Own(r) /\ Kept /\ pc[r] = "idle" /\ pc'[r] \in {"insert", "invalid"}
        /\ job'[r].id = r /\ row'[r].st = "stored" /\ row'[r].secret \in {None, r}
        /\ pc'[r] = "insert" => Validate(row'[r].reg)
    BY <1>1, <1>2, AcceptCreateEffect
  <2>2. Local(r)'
    BY <1>1, <2>1 DEF Local, NewId, Reading, Copy, Validated, Kept
  <2>3. QED  BY <2>1, <2>2 DEF Unwritten
<1>3. ASSUME Own(r), Kept, pc[r] = "idle", row'[r] = row[r],
             \/ pc'[r] = "get_client" /\ job'[r].kind \in {"update_client", "regenerate"}
             \/ pc'[r] = "delete"
             \/ /\ pc'[r] = "get_by_client_id" /\ job'[r].kind = "ensure" /\ job'[r].id = r
                /\ job'[r].secret \in {None, r}
      PROVE  Goal
  <2>1. Local(r)'
    BY <1>1, <1>3 DEF Local, NewId, Reading, Copy, Validated, Kept
  <2>2. QED  BY <1>3, <2>1 DEF Unwritten
<1>4. CASE GetClient(r)
  <2> DEFINE i == job[r].id
  <2>1. i \in Ids /\ job' = job
    BY <1>4 DEF Targeted, GetClient
  <2>2. /\ Own(r) /\ Kept /\ pc[r] = "get_client"
        /\ row'[r].secret \in {row[r].secret, None, r, clients[i].secret}
    BY <1>1, <1>4, <2>1, GetClientEffect
  <2>3. CASE pc'[r] \in {"not_found", "invalid"}
    BY <2>1, <2>2, <2>3 DEF Local, NewId, Reading, Copy, Validated, Unwritten
  <2>4. CASE /\ Stored(i) /\ job[r].kind = "update_client"
             /\ pc'[r] \in {"update", "update_and_revoke"}
             /\ row'[r].st = "stored" /\ Validate(row'[r].reg)
             /\ IF IsPublic(row'[r]) THEN row'[r].secret = None
                                     ELSE row'[r].secret = clients[i].secret
    <3>1. Copy(r)'
      BY <2>1, <2>2, <2>4 DEF Copy, Replaces, IsPublic, Kept, RetiredStayRetired
    <3>2. Local(r)'
      BY <2>4, <3>1 DEF Local, NewId, Reading, Validated
    <3>3. QED  BY <2>1, <2>2, <2>4, <3>2 DEF Unwritten
  <2>5. CASE /\ Stored(i) /\ job[r].kind = "regenerate" /\ pc'[r] = "update"
             /\ row'[r].st = "stored" /\ row'[r].secret = r /\ row'[r].reg = clients[i].reg
    <3>1. Copy(r)'
      BY <2>1, <2>5 DEF Copy, Replaces
    <3>2. Local(r)'
      BY <2>1, <2>5, <3>1 DEF Local, NewId, Reading, Validated, ValidStored
    <3>3. QED  BY <2>1, <2>2, <2>5, <3>2 DEF Unwritten
  <2>6. QED  BY <1>1, <1>4, <2>1, <2>3, <2>4, <2>5, GetClientEffect
<1>5. CASE RevokeTokens(r)
  <2>1. /\ Own(r) /\ Kept /\ pc'[r] \in {"revoke_access", "ok"} /\ row' = row
    BY <1>1, <1>5, RevokeTokensEffect
  <2>2. QED  BY <2>1 DEF Local, NewId, Reading, Copy, Validated, Unwritten
<1>6. CASE GetByClientId(r)
  <2>1. /\ Own(r) /\ Kept /\ pc[r] = "get_by_client_id" /\ row'[r].st = "stored"
        /\ job'[r].kind = job[r].kind /\ job'[r].secret = job[r].secret
    BY <1>1, <1>6, GetByClientIdEffect
  <2>2. /\ clients[r].st = "none" /\ job[r].id = r /\ job[r].kind = "ensure"
        /\ job[r].secret \in {None, r}
    BY <2>1 DEF Local, NewId, Reading
  <2>3. CASE /\ pc'[r] \in {"insert", "invalid"} /\ job'[r].id = job[r].id
             /\ row'[r].secret = job[r].secret
             /\ pc'[r] = "insert" => Validate(row'[r].reg)
    <3>1. Local(r)'
      BY <2>1, <2>2, <2>3 DEF Local, NewId, Reading, Copy, Validated, Kept
    <3>2. QED  BY <2>1, <2>2, <2>3, <3>1 DEF Unwritten
  <2>4. ASSUME NEW i \in Ids, Stored(i), pc'[r] \in {"update", "invalid"}, job'[r].id = i,
               row'[r].secret = IF job[r].secret # None THEN job[r].secret
                                                        ELSE clients[i].secret,
               pc'[r] = "update" => Validate(row'[r].reg)
        PROVE  Goal
    <3>1. Copy(r)'
      BY <2>1, <2>2, <2>4 DEF Copy, Replaces, Kept, RetiredStayRetired
    <3>2. Local(r)'
      BY <2>1, <2>4, <3>1 DEF Local, NewId, Reading, Validated
    <3>3. QED  BY <2>1, <2>2, <2>4, <3>2 DEF Unwritten
  <2>5. QED  BY <1>1, <1>6, <2>3, <2>4, GetByClientIdEffect
<1>7. ASSUME NEW i \in Ids, NEW name \in Names, NEW reg \in Registrations,
             NEW enabled \in Toggles, AcceptUpdate(r, i, name, reg, enabled)
      PROVE  Goal
  BY <1>1, <1>3, <1>7, AcceptUpdateEffect
<1>8. ASSUME NEW i \in Ids, AcceptRegenerate(r, i)
      PROVE  Goal
  BY <1>1, <1>3, <1>8, AcceptRegenerateEffect
<1>9. ASSUME NEW i \in Ids, AcceptDelete(r, i)
      PROVE  Goal
  BY <1>1, <1>3, <1>9, AcceptDeleteEffect
<1>10. ASSUME NEW name \in Names, NEW reg \in Registrations, NEW secret \in {None, r},
              AcceptEnsure(r, name, reg, secret)
       PROVE  Goal
  BY <1>1, <1>3, <1>10, AcceptEnsureEffect
<1>11. QED
  BY <1>2, <1>4, <1>5, <1>6, <1>7, <1>8, <1>9, <1>10 DEF Prepare, ArriveAtClients

\* Steps that leave the registrations keep what is said of secrets.
LEMMA SecretStays ==
  ASSUME Typed, SecretInv, NEW r \in Requests, Own(r), Kept, Local(r)',
         pc'[r] \in Unwritten => pc[r] \in Unwritten,
         row'[r].secret \in {row[r].secret, None, r} \cup {clients[i].secret : i \in Ids}
  PROVE  SecretInv'
<1>1. \A q \in Requests \ {r} : Local(q)'
  BY LocalKept DEF SecretInv
<1>2. \A q \in Requests : Fresh(q)'
  <2>1. UNCHANGED <<clients, replaced>>
    BY DEF Kept
  <2>2. QED  BY <2>1, FreshStep DEF SecretInv
<1>3. RetiredStayRetired' /\ ValidStored'
  BY DEF SecretInv, RetiredStayRetired, ValidStored, Kept, Stored
<1>4. QED  BY <1>1, <1>2, <1>3 DEF SecretInv

\* A new client has no secret that was replaced.
LEMMA SecretInsert ==
  ASSUME Typed, SecretInv, NEW r \in Requests, Targeted(r), Insert(r)
  PROVE  SecretInv'
<1>1. TablesOK /\ job[r].id \in Ids /\ Local(r) /\ r \in Ids
  BY DEF Typed, Targeted, SecretInv, Insert, Ids
<1>2. /\ Own(r) /\ pc[r] = "insert" /\ job' = job /\ row' = row
      /\ pc'[r] \in {"duplicate", "ok"} /\ UNCHANGED <<replaced, missed, restored>>
  BY <1>1, InsertEffect
<1>3. Local(r)'
  BY <1>2 DEF Local, NewId, Reading, Copy, Validated
<1>4. CASE UNCHANGED clients
  <2>1. Kept
    BY <1>2, <1>4 DEF Kept
  <2>2. QED  BY <1>2, <1>3, <2>1, SecretStays DEF Unwritten
<1>5. CASE clients' = [clients EXCEPT ![job[r].id] = row[r]]
  <2>1. job[r].id = r /\ row[r].secret \in {None, r} /\ row[r].st = "stored"
        /\ Validate(row[r].reg)
    BY <1>1, <1>2 DEF Local, NewId, Copy, Validated
  <2>2. clients'[r] = row[r] /\ \A i \in Ids \ {r} : clients'[i] = clients[i]
    BY <1>1, <1>5, <2>1, Tables
  <2>3. \A q \in Requests \ {r} : Local(q)'
    <3> SUFFICES ASSUME NEW q \in Requests \ {r}
                 PROVE  Local(q)'
      OBVIOUS
    <3>1. Local(q) /\ pc'[q] = pc[q] /\ clients'[q] = clients[q]
      BY <1>2, <2>2 DEF SecretInv, Own, Ids
    <3>2. Copy(q)'
      BY <1>2, <3>1 DEF Local, Copy, Replaces, IsPublic
    <3>3. QED  BY <1>2, <3>1, <3>2 DEF Local, NewId, Reading, Validated
  <2>4. \A q \in Requests : Fresh(q)'
    BY <1>1, <1>2, <1>5, FreshStep DEF SecretInv, Unwritten
  <2>5. RetiredStayRetired'
    <3>1. None \notin replaced[r] /\ r \notin replaced[r]
      <4>1. replaced[r] \subseteq Ids
        BY <1>1, Tables DEF Secrets
      <4>2. Fresh(r)
        BY DEF SecretInv
      <4>3. QED  BY <1>1, <1>2, <4>1, <4>2, ClientsAssumption DEF Fresh, Unwritten
    <3>2. clients'[r].secret \notin replaced'[r]
      BY <1>2, <2>1, <2>2, <3>1
    <3>3. QED  BY <1>2, <2>2, <3>2 DEF SecretInv, RetiredStayRetired, Stored
  <2>6. ValidStored'
    BY <2>1, <2>2 DEF SecretInv, ValidStored, Stored
  <2>7. QED  BY <1>3, <2>3, <2>4, <2>5, <2>6 DEF SecretInv
<1>6. QED  BY <1>1, <1>4, <1>5, InsertEffect

\* A client is deleted with its secret.
LEMMA SecretDelete ==
  ASSUME Typed, SecretInv, NEW r \in Requests, Targeted(r), DeleteClient(r)
  PROVE  SecretInv'
<1>1. TablesOK /\ job[r].id \in Ids /\ Local(r) /\ r \in Ids
  BY DEF Typed, Targeted, SecretInv, DeleteClient, Ids
<1>2. /\ Own(r) /\ pc[r] = "delete" /\ job' = job /\ row' = row
      /\ pc'[r] \in {"revoke_refresh", "not_found"} /\ UNCHANGED <<replaced, missed, restored>>
  BY <1>1, DeleteClientEffect
<1>3. Local(r)'
  BY <1>2 DEF Local, NewId, Reading, Copy, Validated
<1>4. CASE UNCHANGED clients
  <2>1. Kept
    BY <1>2, <1>4 DEF Kept
  <2>2. QED  BY <1>2, <1>3, <2>1, SecretStays DEF Unwritten
<1>5. CASE Stored(job[r].id) /\ clients' = [clients EXCEPT ![job[r].id].st = "gone"]
  <2> DEFINE i == job[r].id
             x == [clients[i] EXCEPT !.st = "gone"]
  <2>1. x.st = "gone" /\ clients' = [clients EXCEPT ![i] = x]
    <3>1. clients[i] \in Client
      BY <1>1, Tables
    <3>2. QED  BY <1>1, <1>5, <3>1, Tables DEF Client
  <2> HIDE DEF x
  <2>2. clients'[i].st = "gone" /\ \A k \in Ids \ {i} : clients'[k] = clients[k]
    BY <1>1, <2>1, Tables
  <2>3. \A q \in Requests \ {r} : Local(q)'
    <3> SUFFICES ASSUME NEW q \in Requests \ {r}
                 PROVE  Local(q)'
      OBVIOUS
    <3>1. Local(q) /\ pc'[q] = pc[q] /\ q \in Ids
      BY <1>2 DEF SecretInv, Own, Ids
    <3>2. clients[q].st = "none" => clients'[q].st = "none"
      BY <1>5, <2>2, <3>1 DEF Stored
    <3>3. Copy(q)'
      BY <1>2, <3>1 DEF Local, Copy, Replaces, IsPublic
    <3>4. QED  BY <1>2, <3>1, <3>2, <3>3 DEF Local, NewId, Reading, Validated
  <2>4. \A q \in Requests : Fresh(q)'
    BY <1>1, <1>2, <1>5, FreshStep DEF SecretInv, Unwritten
  <2>5. RetiredStayRetired' /\ ValidStored'
    BY <1>2, <2>2 DEF SecretInv, RetiredStayRetired, ValidStored, Stored
  <2>6. QED  BY <1>3, <2>3, <2>4, <2>5 DEF SecretInv
<1>6. QED  BY <1>1, <1>4, <1>5, DeleteClientEffect

\* A copy that replaces the secret retires the old one, and requests that still have it have
\* missed that; one that does not replace it brings back at most what it has missed.
LEMMA SecretUpdate ==
  ASSUME Typed, SecretInv, NEW r \in Requests, Targeted(r), Update(r)
  PROVE  SecretInv'
<1> DEFINE i == job[r].id
           old == {clients[i].secret} \ {None}
<1>1. TablesOK /\ i \in Ids /\ Local(r) /\ r \in Ids
  BY DEF Typed, Targeted, SecretInv, Update, Ids
<1>2. /\ Own(r) /\ pc[r] \in {"update", "update_and_revoke"} /\ job' = job /\ row' = row
      /\ pc'[r] \in {"not_found", "duplicate", "ok", "revoke_refresh"}
  BY <1>1, UpdateEffect
<1>3. Local(r)'
  BY <1>2 DEF Local, NewId, Reading, Copy, Validated
<1>4. CASE Kept
  BY <1>2, <1>3, <1>4, SecretStays DEF Unwritten
<1>5. ASSUME Stored(i), clients' = [clients EXCEPT ![i] = row[r]]
      PROVE  /\ clients'[i] = row[r] /\ \A k \in Ids \ {i} : clients'[k] = clients[k]
             /\ ValidStored'
             /\ \A q \in Requests : NewId(q) => (pc'[q] = pc[q] => NewId(q)')
  <2>1. clients'[i] = row[r] /\ \A k \in Ids \ {i} : clients'[k] = clients[k]
    BY <1>1, <1>5, Tables
  <2>2. row[r].st = "stored" /\ Validate(row[r].reg)
    BY <1>1, <1>2 DEF Local, Validated
  <2>3. ValidStored'
    BY <2>1, <2>2 DEF SecretInv, ValidStored, Stored
  <2>4. \A q \in Requests : clients[q].st = "none" => clients'[q].st = "none"
    BY <1>5, <2>1 DEF Stored, Ids
  <2>5. \A q \in Requests : NewId(q) => (pc'[q] = pc[q] => NewId(q)')
    BY <1>2, <2>4 DEF NewId
  <2>6. QED  BY <2>1, <2>3, <2>5
<1>6. CASE /\ Stored(i) /\ clients' = [clients EXCEPT ![i] = row[r]] /\ Replaces(r)
           /\ replaced' = [replaced EXCEPT ![i] = @ \cup old]
           /\ missed' = [q \in Requests |-> IF Holds(q, i) THEN missed[q] \cup old
                                                         ELSE missed[q]]
           /\ restored' = restored
  <2>1. /\ replaced'[i] = replaced[i] \cup old
        /\ \A k \in Ids \ {i} : replaced'[k] = replaced[k]
    BY <1>1, <1>6, Tables
  <2>2. \A q \in Requests \ {r} : Local(q)'
    <3> SUFFICES ASSUME NEW q \in Requests \ {r}
                 PROVE  Local(q)'
      OBVIOUS
    <3>1. Local(q) /\ pc'[q] = pc[q]
      BY <1>2 DEF SecretInv, Own
    <3>2. Copy(q)'
      <4>1. missed'[q] = IF Holds(q, i) THEN missed[q] \cup old ELSE missed[q]
        BY <1>6
      <4> HIDE DEF old
      <4>2. CASE pc[q] \in {"update", "update_and_revoke"} /\ job[q].id = i
        BY <1>2, <1>6, <2>1, <3>1, <4>1, <4>2 DEF Local, Copy, Replaces, IsPublic, Holds
      <4>3. CASE pc[q] \in {"update", "update_and_revoke"} /\ job[q].id # i
        <5>1. replaced'[job[q].id] = replaced[job[q].id]
          BY <1>6, <4>3
        <5>2. QED
          BY <1>2, <1>6, <3>1, <4>1, <4>3, <5>1 DEF Local, Copy, Replaces, IsPublic, Holds
      <4>4. CASE pc[q] \notin {"update", "update_and_revoke"}
        BY <1>2, <3>1, <4>4 DEF Local, Copy
      <4>5. QED  BY <4>2, <4>3, <4>4
    <3>3. NewId(q)'
      BY <1>5, <1>6, <3>1 DEF Local
    <3>4. QED  BY <1>2, <3>1, <3>2, <3>3 DEF Local, Reading, Validated
  <2>3. \A q \in Requests : Fresh(q)'
    BY <1>1, <1>2, <1>6, FreshStep DEF SecretInv, Unwritten
  <2>4. RetiredStayRetired'
    <3>1. row[r].secret \in {None, r}
      BY <1>1, <1>2, <1>6 DEF Local, Copy
    <3>2. r \notin replaced[i] /\ clients[i].secret # r
      <4>1. Fresh(r)
        BY DEF SecretInv
      <4>2. QED  BY <1>1, <1>2, <4>1 DEF Fresh, Unwritten
    <3>3. None \notin replaced[i]
      <4>1. replaced[i] \subseteq Ids
        BY <1>1, Tables DEF Secrets
      <4>2. QED  BY <4>1, ClientsAssumption
    <3>4. clients'[i].secret \notin replaced'[i]
      BY <1>5, <1>6, <2>1, <3>1, <3>2, <3>3
    <3>5. QED  BY <1>5, <1>6, <2>1, <3>4 DEF SecretInv, RetiredStayRetired, Stored
  <2>5. QED  BY <1>3, <1>5, <1>6, <2>2, <2>3, <2>4 DEF SecretInv
<1>7. CASE /\ Stored(i) /\ clients' = [clients EXCEPT ![i] = row[r]] /\ ~Replaces(r)
           /\ restored' = [restored EXCEPT ![i] = @ \cup (missed[r] \cap {row[r].secret})]
           /\ replaced' = replaced /\ missed' = missed
  <2>1. /\ restored'[i] = restored[i] \cup (missed[r] \cap {row[r].secret})
        /\ \A k \in Ids \ {i} : restored'[k] = restored[k]
    BY <1>1, <1>7, Tables
  <2>2. \A q \in Requests \ {r} : Local(q)'
    <3> SUFFICES ASSUME NEW q \in Requests \ {r}
                 PROVE  Local(q)'
      OBVIOUS
    <3>1. Local(q) /\ pc'[q] = pc[q]
      BY <1>2 DEF SecretInv, Own
    <3>2. Copy(q)'
      <4>1. job[q].id = i \/ restored'[job[q].id] = restored[job[q].id]
        BY <1>7
      <4>2. restored[job[q].id] \subseteq restored'[job[q].id]
        BY <2>1, <4>1
      <4>3. QED  BY <1>2, <1>7, <3>1, <4>2 DEF Local, Copy, Replaces, IsPublic
    <3>3. NewId(q)'
      BY <1>5, <1>7, <3>1 DEF Local
    <3>4. QED  BY <1>2, <3>1, <3>2, <3>3 DEF Local, Reading, Validated
  <2>3. \A q \in Requests : Fresh(q)'
    BY <1>1, <1>2, <1>7, FreshStep DEF SecretInv, Unwritten
  <2>4. RetiredStayRetired'
    <3>1. row[r].secret \in replaced[i] => row[r].secret \in missed[r] \cup restored[i]
      BY <1>1, <1>2, <1>7 DEF Local, Copy
    <3>2. clients'[i].secret \in replaced'[i] => clients'[i].secret \in restored'[i]
      BY <1>5, <1>7, <2>1, <3>1
    <3>3. QED  BY <1>5, <1>7, <2>1, <3>2 DEF SecretInv, RetiredStayRetired, Stored
  <2>5. QED  BY <1>3, <1>5, <1>7, <2>2, <2>3, <2>4 DEF SecretInv
<1>8. QED  BY <1>1, <1>4, <1>6, <1>7, UpdateEffect

\* The first secrets are those that the clients are registered with.
LEMMA SecretInit == Init => SecretInv
<1> SUFFICES ASSUME Init
             PROVE  SecretInv
  OBVIOUS
<1>1. \A r \in Requests : pc[r] = "idle" /\ r \in Ids /\ r \notin Existing /\ r # None
  BY ClientsAssumption DEF Init, ClientsInit, Ids
<1>2. \A i \in Ids : /\ replaced[i] = {}
                     /\ i \notin Existing => clients[i].st = "none" /\ clients[i].secret = None
                     /\ i \in Existing => /\ clients[i].secret = i
                                          /\ clients[i].reg = ExistingReg[i]
  BY DEF Init, ClientsInit, NoClient
<1>3. \A r \in Requests : row[r].secret = None
  BY DEF Init, ClientsInit, NoClient
<1>4. ASSUME NEW r \in Requests
      PROVE  Local(r) /\ Fresh(r)
  BY <1>1, <1>2, <1>3 DEF Local, NewId, Reading, Copy, Validated, Fresh
<1>5. RetiredStayRetired /\ ValidStored
  BY <1>2, ClientsAssumption DEF RetiredStayRetired, ValidStored, Stored
<1>6. QED  BY <1>4, <1>5 DEF SecretInv

\* Every step keeps what is said of secrets.
LEMMA SecretNext ==
  ASSUME Typed, TargetInv, SecretInv, [Next]_vars
  PROVE  SecretInv'
<1>1. CASE Browse
  <2>1. UNCHANGED <<clients, pc, job, row, replaced, missed, restored>>
    BY <1>1, BrowseEffect DEF Typed
  <2>2. QED
    BY <2>1 DEF SecretInv, Local, NewId, Reading, Copy, Validated, Fresh, RetiredStayRetired,
                ValidStored, Stored, Replaces, IsPublic
<1>2. ASSUME NEW r \in Requests, Administer(r)
      PROVE  SecretInv'
  <2>1. Targeted(r) /\ Local(r) /\ RetiredStayRetired /\ ValidStored
    BY DEF TargetInv, SecretInv
  <2>2. CASE Prepare(r)
    BY <2>1, <2>2, PrepareSecrets, SecretStays
  <2>3. QED
    BY <1>2, <2>1, <2>2, SecretInsert, SecretUpdate, SecretDelete DEF Administer, Prepare
<1>3. ASSUME NEW r \in Requests, Serve(r)
      PROVE  SecretInv'
  <2>1. /\ Own(r) /\ Kept /\ pc'[r] \notin Unwritten
        /\ row'[r] = row[r] \/ \E i \in Ids : row'[r] = clients[i]
    BY <1>3, ServeEffect DEF TargetInv
  <2>2. Local(r)'
    BY <2>1 DEF Local, NewId, Reading, Copy, Validated, Unwritten
  <2>3. row'[r].secret \in {row[r].secret, None, r} \cup {clients[i].secret : i \in Ids}
    BY <2>1
  <2>4. QED  BY <2>1, <2>2, <2>3, SecretStays
<1>4. CASE UNCHANGED vars
  <2>1. UNCHANGED <<clients, pc, job, row, replaced, missed, restored>>
    BY <1>4 DEF vars
  <2>2. QED
    BY <2>1 DEF SecretInv, Local, NewId, Reading, Copy, Validated, Fresh, RetiredStayRetired,
                ValidStored, Stored, Replaces, IsPublic
<1>5. QED  BY <1>1, <1>2, <1>3, <1>4, StepKinds

\* The types and what is said of secrets are kept forever.
LEMMA AlwaysSecret == Spec => [](Typed /\ TargetInv /\ SecretInv)
<1>1. SecretInv /\ (Typed /\ TargetInv) /\ [Next]_vars => SecretInv'
  BY SecretNext
<1>2. Typed /\ SinceOK /\ TargetInv => Typed /\ TargetInv
  OBVIOUS
<1>3. QED  BY <1>1, <1>2, SecretInit, AlwaysTyped, PTL DEF Spec

\* A secret that was replaced stays so, but for an update that had read the row before.
THEOREM RetiredSecrets == Spec => []RetiredStayRetired
<1>1. SecretInv => RetiredStayRetired
  BY DEF SecretInv
<1>2. QED  BY <1>1, AlwaysSecret, PTL

\* A deleted client does not come back.
THEOREM DeletedClients == Spec => DeletedGone
<1> DEFINE Gone == \A i \in Ids : clients[i].st = "gone" => clients'[i].st = "gone"
<1>1. ASSUME Typed, TargetInv, SecretInv, [Next]_vars
      PROVE  Gone
  <2>1. TablesOK
    BY <1>1 DEF Typed
  <2>2. CASE UNCHANGED clients
    BY <2>2
  <2>3. ASSUME NEW r \in Requests, Insert(r)
        PROVE  Gone
    <3>1. job[r].id = r /\ clients[r].st = "none" /\ r \in Ids
      BY <1>1, <2>3 DEF SecretInv, Local, NewId, Insert, Ids
    <3>2. UNCHANGED clients \/ clients' = [clients EXCEPT ![r] = row[r]]
      BY <2>1, <2>3, <3>1, InsertEffect
    <3>3. QED  BY <2>1, <3>1, <3>2, Tables
  <2>4. ASSUME NEW r \in Requests, Update(r)
        PROVE  Gone
    <3>1. job[r].id \in Ids
      BY <1>1, <2>4 DEF TargetInv, Targeted, Update
    <3>2. \/ UNCHANGED clients
          \/ Stored(job[r].id) /\ clients' = [clients EXCEPT ![job[r].id] = row[r]]
      BY <2>1, <2>4, <3>1, UpdateEffect DEF Kept
    <3>3. QED  BY <2>1, <3>1, <3>2, Tables DEF Stored
  <2>5. ASSUME NEW r \in Requests, DeleteClient(r)
        PROVE  Gone
    <3>1. job[r].id \in Ids
      BY <1>1, <2>5 DEF TargetInv, Targeted, DeleteClient
    <3>2. \/ UNCHANGED clients
          \/ Stored(job[r].id) /\ clients' = [clients EXCEPT ![job[r].id].st = "gone"]
      BY <2>1, <2>5, <3>1, DeleteClientEffect
    <3>3. QED  BY <2>1, <3>1, <3>2, Tables DEF Stored
  <2>6. ASSUME NEW r \in Requests, Administer(r)
        PROVE  Gone
    <3>1. CASE Prepare(r)
      <4>1. Kept
        BY <1>1, <3>1, PrepareSecrets DEF TargetInv, SecretInv
      <4>2. QED  BY <2>2, <4>1 DEF Kept
    <3>2. QED  BY <2>3, <2>4, <2>5, <2>6, <3>1 DEF Administer, Prepare
  <2>7. ASSUME NEW r \in Requests, Serve(r)
        PROVE  Gone
    BY <1>1, <2>2, <2>7, ServeEffect DEF TargetInv, Kept
  <2>8. CASE Browse
    BY <1>1, <2>2, <2>8, BrowseEffect DEF Typed
  <2>9. CASE UNCHANGED vars
    BY <2>2, <2>9 DEF vars
  <2>10. QED  BY <1>1, <2>6, <2>7, <2>8, <2>9, StepKinds
<1>2. ASSUME Typed, TargetInv, SecretInv, [Next]_vars
      PROVE  [Gone]_clients
  BY <1>1, <1>2
<1> HIDE DEF Gone
<1>3. Spec => [][Gone]_clients
  BY <1>2, AlwaysSecret, PTL DEF Spec
<1>4. QED  BY <1>3 DEF Gone, DeletedGone

--------------------------------------------------------------------------------
(***************************************************************************)
(* The code flow: what a page, a code and a token say of the requests that *)
(* they came from.                                                         *)
(***************************************************************************)

\* A form has the parameters of the page it is on.
FormOf(r) ==
  ask[r].page # None => pages[ask[r].page].shown /\ pages[ask[r].page].params = ask[r].params

\* The answer of a request is a page, which shows the scopes that are asked for.
PageOf(r) ==
  pages[r].shown =>
    /\ pc[r] = "consent"
    /\ pages[r].params.scope # {} => pages[r].scopes = pages[r].params.scope

\* What was found before a code or token is issued, and stays so.
Examined(r) ==
  /\ pc[r] \in {"current_user", "issue", "redirected"} => ValidateRequest(row[r], ask[r])
  /\ pc[r] \in {"issue", "redirected"} /\ row[r].reg.consent =>
       ask[r].page # None /\ ask[r].allow /\ VerifyConsent(ask[r])

\* The code or token that answers a request is for its client, scopes and URI.
GrantOf(r) ==
  Granted(r) =>
    /\ pc[r] = "redirected"
    /\ grants[r].client = job[r].id
    /\ grants[r].scopes = ResolveScopes(row[r], ask[r].params)
    /\ grants[r].to \in RedirectUris(row[r], ask[r].params)
    /\ grants[r].st \in {"code", "consumed"} => ask[r].params.type = "code"

\* Whoever consumes a code, or has consumed it, has shown that it is the owner.
OwnerOf(r) ==
  /\ pc[r] = "consume" => Granted(ask[r].code) /\ Matching(r, ask[r].code)
  /\ grants[r].st = "consumed" =>
       /\ grants[r].by \in Requests /\ pc[grants[r].by] = "exchanged"
       /\ Matching(grants[r].by, r)

Flow(r) == FormOf(r) /\ PageOf(r) /\ Examined(r) /\ GrantOf(r) /\ OwnerOf(r)

FlowInv == \A r \in Requests : Flow(r)

\* A step of another request, which issues and consumes no code, changes nothing of this.
LEMMA FlowOther ==
  ASSUME Typed, TargetInv, FlowInv, NEW r \in Requests, Own(r), OwnAsk(r), UNCHANGED grants,
         pc[r] \notin {"consent", "redirected", "exchanged"},
         NEW q \in Requests \ {r}
  PROVE  Flow(q)'
<1>1. Flow(q) /\ Flow(r) /\ AskOK /\ TablesOK /\ Targeted(q)
  BY DEF FlowInv, Typed, TargetInv
<1>2. /\ pc'[q] = pc[q] /\ job'[q] = job[q] /\ row'[q] = row[q] /\ ask'[q] = ask[q]
      /\ pages'[q] = pages[q]
  BY DEF Own, OwnAsk
<1>3. ask[q].page # None =>
        pages'[ask[q].page] = pages[ask[q].page] /\ pages[ask[q].page].shown
        /\ pages[ask[q].page].params = ask[q].params
  <2> SUFFICES ASSUME ask[q].page # None
               PROVE  /\ pages'[ask[q].page] = pages[ask[q].page] /\ pages[ask[q].page].shown
                      /\ pages[ask[q].page].params = ask[q].params
    OBVIOUS
  <2>1. /\ pages[ask[q].page].shown /\ pages[ask[q].page].params = ask[q].params
    BY <1>1 DEF Flow, FormOf
  <2>2. ask[q].page \in Requests
    BY <1>1 DEF AskOK, Ask
  <2>3. ~pages[r].shown
    BY <1>1 DEF Flow, PageOf
  <2>4. QED  BY <2>1, <2>2, <2>3 DEF OwnAsk
<1>4. FormOf(q)' /\ PageOf(q)'
  BY <1>1, <1>2, <1>3 DEF Flow, FormOf, PageOf
<1>5. Examined(q)'
  BY <1>1, <1>2, <1>3
     DEF Flow, Examined, ValidateRequest, ValidateScopes, GrantType, IsPublic, VerifyConsent
<1>6. GrantOf(q)'
  BY <1>1, <1>2 DEF Flow, GrantOf, Granted, ResolveScopes, RedirectUris
<1>7. ASSUME NEW c \in Requests, Granted(c), NEW b \in Requests, b # r, Matching(b, c)
      PROVE  Matching(b, c)'
  <2>1. c # r
    BY <1>1, <1>7 DEF Flow, GrantOf
  <2>2. ask'[c] = ask[c] /\ ask'[b] = ask[b] /\ row'[b] = row[b] /\ job'[b] = job[b]
    BY <1>7, <2>1 DEF Own, OwnAsk
  <2>3. QED  BY <1>7, <2>2 DEF Matching, SameRedirect, VerifyChallenge
<1>8. ASSUME pc[q] = "consume"
      PROVE  Granted(ask[q].code)' /\ Matching(q, ask[q].code)'
  <2>1. PICK c \in Requests : c = ask[q].code
    BY <1>1, <1>8 DEF Targeted
  <2>2. Granted(c) /\ Matching(q, c)
    BY <1>1, <1>8, <2>1 DEF Flow, OwnerOf
  <2>3. Matching(q, c)' /\ Granted(c)'
    BY <1>7, <2>2 DEF Granted
  <2>4. QED  BY <1>2, <2>1, <2>3 DEF Granted, Matching, SameRedirect, VerifyChallenge
<1>9. ASSUME grants[q].st = "consumed"
      PROVE  /\ grants[q].by \in Requests /\ pc'[grants[q].by] = "exchanged"
             /\ Matching(grants[q].by, q)'
  <2>1. PICK b \in Requests : b = grants[q].by
    BY <1>1, <1>9 DEF Flow, OwnerOf
  <2>2. pc[b] = "exchanged" /\ Matching(b, q) /\ Granted(q)
    BY <1>1, <1>9, <2>1 DEF Flow, OwnerOf, Granted
  <2>3. b # r /\ pc'[b] = pc[b]
    BY <2>2 DEF Own
  <2>4. Matching(b, q)'
    BY <1>7, <2>2, <2>3
  <2>5. QED  BY <2>1, <2>2, <2>3, <2>4 DEF Matching, SameRedirect, VerifyChallenge
<1>10. OwnerOf(q)'
  BY <1>2, <1>8, <1>9 DEF OwnerOf, Matching
<1>11. QED  BY <1>4, <1>5, <1>6, <1>10 DEF Flow

\* A step that issues and consumes no code has to see to its own request.
LEMMA FlowQuiet ==
  ASSUME Typed, TargetInv, FlowInv, NEW r \in Requests, Own(r), OwnAsk(r), UNCHANGED grants,
         pc[r] \notin {"consent", "redirected", "exchanged"},
         FormOf(r)', PageOf(r)', Examined(r)',
         pc'[r] = "consume" => Granted(ask[r].code)' /\ Matching(r, ask[r].code)'
  PROVE  FlowInv'
<1>1. \A q \in Requests \ {r} : Flow(q)'
  BY FlowOther
<1>2. ~Granted(r) /\ ~Granted(r)'
  BY DEF FlowInv, Flow, GrantOf, Granted
<1>3. GrantOf(r)' /\ OwnerOf(r)'
  BY <1>2 DEF GrantOf, OwnerOf, Granted, Matching
<1>4. QED  BY <1>1, <1>3 DEF FlowInv, Flow

\* Neither has a step that leaves the request as it is, to a step that examines nothing.
LEMMA FlowAside ==
  ASSUME Typed, TargetInv, FlowInv, NEW r \in Requests, Own(r), OwnAsk(r), UNCHANGED grants,
         pc[r] \notin {"consent", "redirected", "exchanged"},
         pc'[r] \notin {"current_user", "issue", "redirected", "consume", "consent"},
         UNCHANGED pages,
         ask'[r].page # None =>
           pages[ask'[r].page].shown /\ pages[ask'[r].page].params = ask'[r].params
  PROVE  FlowInv'
<1>1. FormOf(r)' /\ Examined(r)'
  BY DEF FormOf, Examined
<1>2. PageOf(r)'
  BY DEF FlowInv, Flow, PageOf
<1>3. QED  BY <1>1, <1>2, FlowQuiet

\* The administration of clients is no part of the flow.
LEMMA FlowAdminister ==
  ASSUME Typed, TargetInv, FlowInv, NEW r \in Requests, Administer(r)
  PROVE  FlowInv'
<1>1. /\ Own(r) /\ Aside /\ pc[r] \in ClientSide \cup {"idle"} /\ pc'[r] \in ClientSide
  BY AdministerEffect DEF TargetInv
<1>2. OwnAsk(r)
  BY <1>1 DEF OwnAsk, Aside, Typed, AskOK
<1>3. /\ pc[r] \notin {"consent", "redirected", "exchanged"}
      /\ pc'[r] \notin {"current_user", "issue", "redirected", "consume", "consent"}
  BY <1>1 DEF ClientSide, ClientCalls, ClientResponses
<1>4. ask' = ask /\ pages' = pages /\ grants' = grants
  BY <1>1 DEF Aside
<1>5. ask[r].page # None =>
        pages[ask[r].page].shown /\ pages[ask[r].page].params = ask[r].params
  BY DEF FlowInv, Flow, FormOf
<1>6. QED  BY <1>1, <1>2, <1>3, <1>4, <1>5, FlowAside

\* The session of the browser is checked, and a page is shown.
LEMMA FlowCurrentUser ==
  ASSUME Typed, TargetInv, FlowInv, NEW r \in Requests, CurrentUser(r)
  PROVE  FlowInv'
<1>1. /\ Own(r) /\ OwnAsk(r) /\ UNCHANGED <<ask, grants>>
      /\ pc[r] = "current_user" /\ job' = job /\ row' = row
      /\ pc'[r] \in {"login", "consent", "page_error", "issue", "redirect_error"}
  BY CurrentUserEffect
<1>2. Flow(r) /\ ~pages[r].shown
  BY <1>1 DEF FlowInv, Flow, PageOf
<1>3. FormOf(r)'
  <2>1. pages' = pages \/ ask[r].page = None \/ ask[r].page \in Requests \ {r}
    BY <1>2 DEF Flow, FormOf, Typed, AskOK, Ask
  <2>2. QED  BY <1>1, <1>2, <2>1 DEF Flow, FormOf, OwnAsk
<1>4. PageOf(r)'
  <2>1. pages' = pages \/ (pc'[r] = "consent" /\ pages'[r] = ConsentPage(r))
    BY CurrentUserEffect
  <2>2. /\ ConsentPage(r).params = ask[r].params
        /\ ConsentPage(r).scopes = ResolveScopes(row[r], ask[r].params)
    BY ConsentPageType DEF Typed
  <2>3. QED  BY <1>2, <2>1, <2>2 DEF PageOf, ResolveScopes
<1>5. Examined(r)'
  <2>1. ValidateRequest(row[r], ask[r])
    BY <1>1, <1>2 DEF Flow, Examined
  <2>2. pc'[r] = "issue" /\ row[r].reg.consent =>
          /\ ask[r].page # None /\ ask[r].allow
          /\ pages[ask[r].page].csrf = ask[r].csrf
    BY CurrentUserEffect DEF VerifyConsent
  <2>3. ask[r].page # None => pages'[ask[r].page] = pages[ask[r].page]
    <3>1. ask[r].page # None => ask[r].page \in Requests \ {r}
      BY <1>2 DEF Flow, FormOf, Typed, AskOK, Ask
    <3>2. QED  BY <1>1, <3>1 DEF OwnAsk
  <2>4. ValidateRequest(row[r], ask[r])'
    BY <1>1, <2>1 DEF ValidateRequest, ValidateScopes, GrantType, IsPublic
  <2>5. QED  BY <1>1, <2>2, <2>3, <2>4 DEF Examined, VerifyConsent
<1>6. QED  BY <1>1, <1>3, <1>4, <1>5, FlowQuiet

\* A code or token is issued for what was found.
LEMMA FlowIssue ==
  ASSUME Typed, TargetInv, FlowInv, NEW r \in Requests, Issue(r)
  PROVE  FlowInv'
<1>1. job[r].id \in Ids /\ pc[r] = "issue" /\ Flow(r)
  BY DEF Issue, TargetInv, Targeted, FlowInv
<1>2. /\ Own(r) /\ UNCHANGED <<ask, pages>> /\ pc'[r] = "redirected" /\ job' = job /\ row' = row
  BY <1>1, IssueEffect
<1>3. PICK g : Granting(r, g) /\ grants' = [grants EXCEPT ![r] = g]
  BY <1>1, IssueEffect
<1>4. ~Granted(r) /\ grants'[r] = g /\ \A q \in Requests \ {r} : grants'[q] = grants[q]
  BY <1>1, <1>3 DEF Flow, GrantOf, Typed, AskOK
<1>5. ASSUME NEW b \in Requests, NEW c \in Requests, Granted(c), Matching(b, c)
      PROVE  Granted(c)' /\ Matching(b, c)'
  BY <1>2, <1>4, <1>5 DEF Granted, Matching, SameRedirect, VerifyChallenge
<1>6. ASSUME NEW q \in Requests
      PROVE  FormOf(q)' /\ PageOf(q)' /\ Examined(q)'
  <2>1. FormOf(q) /\ PageOf(q) /\ Examined(q)
    BY DEF FlowInv, Flow
  <2>2. FormOf(q)'
    BY <1>2, <2>1 DEF FormOf
  <2>3. PageOf(q)'
    BY <1>1, <1>2, <2>1 DEF PageOf, Own
  <2>4. Examined(q)'
    BY <1>1, <1>2, <2>1
       DEF Examined, Own, ValidateRequest, ValidateScopes, GrantType, IsPublic, VerifyConsent
  <2>5. QED  BY <2>2, <2>3, <2>4
<1>7. GrantOf(r)'
  BY <1>2, <1>3, <1>4 DEF GrantOf, Granting, ResolveScopes, RedirectUris
<1>8. ASSUME NEW q \in Requests \ {r}
      PROVE  GrantOf(q)'
  <2>1. GrantOf(q) /\ grants'[q] = grants[q] /\ pc'[q] = pc[q]
    BY <1>2, <1>4 DEF FlowInv, Flow, Own
  <2>2. QED  BY <1>2, <2>1 DEF GrantOf, Granted, ResolveScopes, RedirectUris
<1>9. ASSUME NEW q \in Requests
      PROVE  OwnerOf(q)'
  <2>1. OwnerOf(q) /\ Targeted(q)
    BY DEF FlowInv, Flow, TargetInv
  <2>2. ASSUME pc'[q] = "consume"
        PROVE  Granted(ask[q].code)' /\ Matching(q, ask[q].code)'
    <3>1. pc[q] = "consume"
      BY <1>2, <2>2 DEF Own
    <3>2. PICK c \in Requests : c = ask[q].code
      BY <2>1, <3>1 DEF Targeted
    <3>3. Granted(c)' /\ Matching(q, c)'
      BY <1>5, <2>1, <3>1, <3>2 DEF OwnerOf
    <3>4. QED  BY <1>2, <3>2, <3>3 DEF Granted, Matching, SameRedirect, VerifyChallenge
  <2>3. ASSUME grants'[q].st = "consumed"
        PROVE  /\ grants'[q].by \in Requests /\ pc'[grants'[q].by] = "exchanged"
               /\ Matching(grants[q].by, q)'
    <3>1. q # r
      BY <1>3, <1>4, <2>3 DEF Granting
    <3>2. grants'[q] = grants[q] /\ Granted(q)
      BY <1>4, <2>3, <3>1 DEF Granted
    <3>3. PICK b \in Requests : b = grants[q].by
      BY <2>1, <2>3, <3>2 DEF OwnerOf
    <3>4. pc[b] = "exchanged" /\ Matching(b, q)
      BY <2>1, <2>3, <3>2, <3>3 DEF OwnerOf
    <3>5. b # r /\ pc'[b] = "exchanged" /\ Matching(b, q)'
      BY <1>1, <1>2, <1>5, <3>2, <3>4 DEF Own
    <3>6. QED  BY <3>2, <3>3, <3>5 DEF Matching, SameRedirect, VerifyChallenge
  <2>4. QED  BY <2>2, <2>3 DEF OwnerOf
<1>10. QED  BY <1>6, <1>7, <1>8, <1>9 DEF FlowInv, Flow

\* A code is consumed by its owner.
LEMMA FlowConsume ==
  ASSUME Typed, TargetInv, FlowInv, NEW r \in Requests, Consume(r)
  PROVE  FlowInv'
<1>1. ask[r].code \in Requests /\ pc[r] = "consume" /\ Flow(r)
  BY DEF Consume, TargetInv, Targeted, FlowInv
<1>2. PICK c \in Requests : c = ask[r].code
  BY <1>1
<1>3. /\ Own(r) /\ UNCHANGED <<ask, pages>> /\ job' = job /\ row' = row
      /\ pc'[r] \in {"exchanged", "refused"}
  BY <1>1, ConsumeEffect
<1>4. Granted(c) /\ Matching(r, c)
  BY <1>1, <1>2 DEF Flow, OwnerOf
<1>5. \/ grants' = grants
      \/ /\ grants[c].st = "code" /\ grants'[c].st = "consumed" /\ grants'[c].by = r
         /\ grants'[c].client = grants[c].client
         /\ grants'[c].scopes = grants[c].scopes /\ grants'[c].to = grants[c].to
         /\ pc'[r] = "exchanged"
         /\ \A d \in Requests \ {c} : grants'[d] = grants[d]
  <2>1. CASE grants[c].st = "code" /\ grants' = [grants EXCEPT ![c].st = "consumed", ![c].by = r]
             /\ Goto(r, "exchanged")
    <3>1. grants[c] \in Grant /\ pc \in [Requests -> Steps]
      BY Tables DEF Typed, AskOK
    <3> DEFINE x == [grants[c] EXCEPT !.st = "consumed", !.by = r]
    <3>2. grants' = [grants EXCEPT ![c] = x]
      BY <2>1, <3>1 DEF Typed, AskOK
    <3>3. /\ x.st = "consumed" /\ x.by = r /\ x.client = grants[c].client
          /\ x.scopes = grants[c].scopes /\ x.to = grants[c].to
      BY <3>1 DEF Grant
    <3> HIDE DEF x
    <3>4. pc'[r] = "exchanged"
      BY <2>1, <3>1 DEF Goto
    <3>5. grants'[c] = x /\ \A d \in Requests \ {c} : grants'[d] = grants[d]
      BY <3>2 DEF Typed, AskOK
    <3>6. QED  BY <2>1, <3>3, <3>4, <3>5
  <2>2. QED  BY <1>2, <2>1 DEF Consume
<1>6. ASSUME NEW d \in Requests
      PROVE  /\ grants'[d].client = grants[d].client /\ grants'[d].scopes = grants[d].scopes
             /\ grants'[d].to = grants[d].to /\ (Granted(d) <=> Granted(d)')
             /\ grants[d].st \in {"code", "consumed"} <=> grants'[d].st \in {"code", "consumed"}
             /\ grants'[d].st = "consumed" =>
                  grants'[d] = grants[d] \/ (d = c /\ grants'[d].by = r /\ pc'[r] = "exchanged")
  <2>1. CASE grants' = grants
    BY <2>1 DEF Granted
  <2>2. CASE d = c
    BY <1>5, <2>2 DEF Granted
  <2>3. CASE grants'[d] = grants[d]
    BY <2>3 DEF Granted
  <2>4. QED  BY <1>5, <2>1, <2>2, <2>3
<1>7. ASSUME NEW b \in Requests, NEW d \in Requests, Matching(b, d)
      PROVE  Matching(b, d)'
  BY <1>3, <1>6, <1>7 DEF Matching, SameRedirect, VerifyChallenge
<1>8. ASSUME NEW q \in Requests
      PROVE  FormOf(q)' /\ PageOf(q)' /\ Examined(q)' /\ GrantOf(q)'
  <2>1. FormOf(q) /\ PageOf(q) /\ Examined(q) /\ GrantOf(q)
    BY DEF FlowInv, Flow
  <2>2. FormOf(q)'
    BY <1>3, <2>1 DEF FormOf
  <2>3. PageOf(q)'
    BY <1>1, <1>3, <2>1 DEF PageOf, Own
  <2>4. Examined(q)'
    BY <1>1, <1>3, <2>1
       DEF Examined, Own, ValidateRequest, ValidateScopes, GrantType, IsPublic, VerifyConsent
  <2>5. GrantOf(q)'
    <3>1. pc[q] = "redirected" => pc'[q] = "redirected"
      BY <1>1, <1>3 DEF Own
    <3>2. QED  BY <1>3, <1>6, <2>1, <3>1 DEF GrantOf, ResolveScopes, RedirectUris
  <2>6. QED  BY <2>2, <2>3, <2>4, <2>5
<1>9. ASSUME NEW q \in Requests
      PROVE  OwnerOf(q)'
  <2>1. OwnerOf(q) /\ Targeted(q)
    BY DEF FlowInv, Flow, TargetInv
  <2>2. ASSUME pc'[q] = "consume"
        PROVE  Granted(ask[q].code)' /\ Matching(q, ask[q].code)'
    <3>1. pc[q] = "consume"
      BY <1>3, <2>2 DEF Own
    <3>2. PICK d \in Requests : d = ask[q].code
      BY <2>1, <3>1 DEF Targeted
    <3>3. Granted(d)' /\ Matching(q, d)'
      BY <1>6, <1>7, <2>1, <3>1, <3>2 DEF OwnerOf
    <3>4. QED  BY <1>3, <3>2, <3>3 DEF Granted, Matching, SameRedirect, VerifyChallenge
  <2>3. ASSUME grants'[q].st = "consumed"
        PROVE  /\ grants'[q].by \in Requests /\ pc'[grants'[q].by] = "exchanged"
               /\ Matching(grants[q].by, q)'
    <3>1. PICK b \in Requests : b = grants'[q].by /\ pc'[b] = "exchanged" /\ Matching(b, q)
      <4>1. CASE grants'[q] = grants[q]
        BY <1>1, <1>3, <2>1, <2>3, <4>1 DEF OwnerOf, Own
      <4>2. CASE q = c /\ grants'[q].by = r /\ pc'[r] = "exchanged"
        BY <1>4, <4>2
      <4>3. QED  BY <1>6, <2>3, <4>1, <4>2
    <3>2. Matching(b, q)'
      BY <1>7, <3>1
    <3>3. QED  BY <3>1, <3>2 DEF Matching, SameRedirect, VerifyChallenge
  <2>4. QED  BY <2>2, <2>3 DEF OwnerOf
<1>10. QED  BY <1>8, <1>9 DEF FlowInv, Flow

\* The client of a request is found, and the request examined.
LEMMA FlowFindClient ==
  ASSUME Typed, TargetInv, FlowInv, NEW r \in Requests, FindClient(r)
  PROVE  FlowInv'
<1>1. /\ Own(r) /\ Aside /\ pc[r] = "find_client"
      /\ pc'[r] \in {"page_error", "redirect_error", "current_user"}
  BY FindClientEffect
<1>2. /\ OwnAsk(r) /\ ask' = ask /\ pages' = pages /\ grants' = grants
  BY <1>1 DEF OwnAsk, Aside, Typed, AskOK
<1>3. FormOf(r)' /\ PageOf(r)'
  BY <1>1, <1>2 DEF FlowInv, Flow, FormOf, PageOf
<1>4. pc'[r] = "current_user" => ValidateRequest(row[r], ask[r])'
  <2>1. pc'[r] = "current_user" => \E i \in Ids : row'[r] = clients[i]
                                                  /\ ValidateRequest(clients[i], ask[r])
    BY FindClientEffect
  <2>2. QED
    BY <1>2, <2>1 DEF ValidateRequest, ValidateScopes, GrantType, IsPublic
<1>5. Examined(r)'
  BY <1>1, <1>4 DEF Examined
<1>6. QED  BY <1>1, <1>2, <1>3, <1>5, FlowQuiet

\* A code is found, and is that of the client.
LEMMA FlowGetCode ==
  ASSUME Typed, TargetInv, FlowInv, NEW r \in Requests, GetCode(r)
  PROVE  FlowInv'
<1>1. /\ Own(r) /\ Aside /\ pc[r] = "get_code" /\ job' = job /\ row' = row
      /\ pc'[r] \in {"consume", "refused"}
      /\ pc'[r] = "consume" =>
           grants[ask[r].code].st = "code" /\ Matching(r, ask[r].code)
  BY GetCodeEffect
<1>2. /\ OwnAsk(r) /\ ask' = ask /\ pages' = pages /\ grants' = grants
  BY <1>1 DEF OwnAsk, Aside, Typed, AskOK
<1>3. FormOf(r)' /\ PageOf(r)' /\ Examined(r)'
  BY <1>1, <1>2 DEF FlowInv, Flow, FormOf, PageOf, Examined
<1>4. pc'[r] = "consume" => Granted(ask[r].code)' /\ Matching(r, ask[r].code)'
  BY <1>1, <1>2 DEF Granted, Matching, SameRedirect, VerifyChallenge
<1>5. QED  BY <1>1, <1>2, <1>3, <1>4, FlowQuiet

\* The endpoints keep what is said of the code flow.
LEMMA FlowServe ==
  ASSUME Typed, TargetInv, FlowInv, NEW r \in Requests, Serve(r)
  PROVE  FlowInv'
<1>1. ASSUME NEW p \in Params, AcceptAuthorize(r, p)
      PROVE  FlowInv'
  <2>1. /\ Own(r) /\ OwnAsk(r) /\ UNCHANGED <<pages, grants>> /\ pc[r] = "idle"
        /\ pc'[r] = "find_client" /\ ask'[r].page = None
    BY <1>1, AcceptAuthorizeEffect
  <2>2. QED  BY <2>1, FlowAside
<1>2. ASSUME NEW page \in Requests, NEW allow \in BOOLEAN, AcceptApprove(r, page, allow)
      PROVE  FlowInv'
  <2>1. /\ Own(r) /\ OwnAsk(r) /\ UNCHANGED <<pages, grants>> /\ pc[r] = "idle"
        /\ pc'[r] = "find_client" /\ pages[page].shown /\ ask'[r].page = page
        /\ ask'[r].params = pages[page].params
    BY <1>2, AcceptApproveEffect
  <2>2. QED  BY <2>1, FlowAside
<1>3. ASSUME NEW c \in Requests, NEW name \in Names, NEW uri \in Uris \cup {None},
             NEW verifier \in Verifiers \cup {None},
             NEW secret \in {None} \cup {clients[i].secret : i \in ByClientId(name)},
             AcceptExchange(r, c, name, secret, uri, verifier)
      PROVE  FlowInv'
  <2>1. /\ Own(r) /\ OwnAsk(r) /\ UNCHANGED <<pages, grants>> /\ pc[r] = "idle"
        /\ pc'[r] = "authenticate" /\ ask'[r].page = None
    BY <1>3, AcceptExchangeEffect
  <2>2. QED  BY <2>1, FlowAside
<1>4. CASE AuthenticateClient(r) /\ Aside
  <2>1. Own(r) /\ pc[r] = "authenticate" /\ pc'[r] \in {"get_code", "denied"}
    BY <1>4, AuthenticateEffect DEF Typed
  <2>2. /\ OwnAsk(r) /\ ask' = ask /\ pages' = pages /\ grants' = grants
    BY <1>4 DEF OwnAsk, Aside, Typed, AskOK
  <2>3. ask[r].page # None =>
          pages[ask[r].page].shown /\ pages[ask[r].page].params = ask[r].params
    BY DEF FlowInv, Flow, FormOf
  <2>4. QED  BY <2>1, <2>2, <2>3, FlowAside
<1>5. QED
  BY <1>1, <1>2, <1>3, <1>4, FlowFindClient, FlowCurrentUser, FlowIssue, FlowGetCode, FlowConsume
     DEF Serve

\* Where the requests stay, so does the code flow.
LEMMA FlowStutter ==
  ASSUME FlowInv, UNCHANGED <<pc, job, row, ask, pages, grants>>
  PROVE  FlowInv'
<1> SUFFICES ASSUME NEW r \in Requests
             PROVE  Flow(r)'
  BY DEF FlowInv
<1>1. Flow(r)
  BY DEF FlowInv
<1>2. FormOf(r)' /\ PageOf(r)'
  BY <1>1 DEF Flow, FormOf, PageOf
<1>3. Examined(r)'
  BY <1>1
     DEF Flow, Examined, ValidateRequest, ValidateScopes, GrantType, IsPublic, VerifyConsent
<1>4. GrantOf(r)'
  BY <1>1 DEF Flow, GrantOf, Granted, ResolveScopes, RedirectUris
<1>5. OwnerOf(r)'
  BY <1>1 DEF Flow, OwnerOf, Granted, Matching, SameRedirect, VerifyChallenge
<1>6. QED  BY <1>2, <1>3, <1>4, <1>5 DEF Flow

\* Every step keeps what is said of the code flow.
LEMMA FlowNext ==
  ASSUME Typed, TargetInv, FlowInv, [Next]_vars
  PROVE  FlowInv'
<1>1. CASE Browse
  BY <1>1, BrowseEffect, FlowStutter DEF Typed
<1>2. CASE UNCHANGED vars
  BY <1>2, FlowStutter DEF vars
<1>3. QED  BY <1>1, <1>2, StepKinds, FlowAdminister, FlowServe

\* At first there are no pages, codes and tokens.
LEMMA FlowInit == Init => FlowInv
BY DEF Init, ClientsInit, FlowInv, Flow, FormOf, PageOf, Examined, GrantOf, OwnerOf, Granted,
       NoAsk, NoPage, NoGrant

\* What is said of the code flow holds forever.
LEMMA AlwaysFlow == Spec => [](Typed /\ TargetInv /\ FlowInv)
<1>1. FlowInv /\ (Typed /\ TargetInv) /\ [Next]_vars => FlowInv'
  BY FlowNext
<1>2. Typed /\ SinceOK /\ TargetInv => Typed /\ TargetInv
  OBVIOUS
<1>3. QED  BY <1>1, <1>2, FlowInit, AlwaysTyped, PTL DEF Spec

\* What a client that requires consent is granted was approved on a page of the same request.
THEOREM ConsentGiven == Spec => []ApprovedRequest
<1>1. ASSUME Typed, TargetInv, FlowInv
      PROVE  ApprovedRequest
  <2> SUFFICES ASSUME NEW c \in Requests, Granted(c), row[c].reg.consent
               PROVE  LET page == pages[ask[c].page] IN
                      /\ ask[c].page # None /\ ask[c].allow
                      /\ page.shown /\ page.params = ask[c].params /\ page.csrf = ask[c].csrf
                      /\ page.scopes = grants[c].scopes \/ ask[c].params.scope = {}
    BY DEF ApprovedRequest
  <2>1. Flow(c) /\ pc[c] = "redirected" /\ ask[c] \in Ask
    BY <1>1 DEF FlowInv, Flow, GrantOf, Typed, AskOK
  <2>2. ask[c].page # None /\ ask[c].allow /\ pages[ask[c].page].csrf = ask[c].csrf
    BY <2>1 DEF Flow, Examined, VerifyConsent
  <2>3. PICK p \in Requests : p = ask[c].page
    BY <2>1, <2>2 DEF Ask
  <2>4. pages[p].shown /\ pages[p].params = ask[c].params
    BY <2>1, <2>2, <2>3 DEF Flow, FormOf
  <2>5. ask[c].params.scope # {} => pages[p].scopes = ask[c].params.scope
    BY <1>1, <2>4 DEF FlowInv, Flow, PageOf
  <2>6. grants[c].scopes = ResolveScopes(row[c], ask[c].params)
    BY <2>1 DEF Flow, GrantOf
  <2>7. QED  BY <2>2, <2>3, <2>4, <2>5, <2>6 DEF ResolveScopes
<1>2. QED  BY <1>1, AlwaysFlow, PTL

\* A code is exchanged by the client that asked for it, with its proof.
THEOREM OwnerExchanges == Spec => []ExchangedByOwner
<1>1. ASSUME Typed, TargetInv, FlowInv
      PROVE  ExchangedByOwner
  <2> SUFFICES ASSUME NEW c \in Requests, grants[c].st = "consumed"
               PROVE  LET r == grants[c].by IN
                      /\ job[r].id = job[c].id
                      /\ ask[c].params.challenge # None => ask[r].verifier = ask[c].params.challenge
                      /\ ask[c].params.uri # None => ask[r].uri = grants[c].to
                      /\ IsPublic(row[r]) /\ ask[r].verifier = None => ~IsPublic(row[c])
    BY DEF ExchangedByOwner
  <2>1. Flow(c) /\ Granted(c)
    BY <1>1 DEF FlowInv, Granted
  <2>2. PICK r \in Requests : r = grants[c].by /\ Matching(r, c)
    BY <2>1 DEF Flow, OwnerOf
  <2>3. /\ grants[c].client = job[r].id /\ ask[r].verifier = ask[c].params.challenge
        /\ ask[c].params.uri # None => ask[r].uri = ask[c].params.uri
    BY <2>2 DEF Matching, SameRedirect, VerifyChallenge
  <2>4. /\ pc[c] = "redirected" /\ grants[c].client = job[c].id
        /\ grants[c].to \in RedirectUris(row[c], ask[c].params) /\ ask[c].params.type = "code"
    BY <2>1 DEF Flow, GrantOf
  <2>5. ask[c].params.uri # None => grants[c].to = ask[c].params.uri
    BY <2>4 DEF RedirectUris
  <2>6. ask[c].params.challenge = None => ~IsPublic(row[c])
    BY <2>1, <2>4 DEF Flow, Examined, ValidateRequest
  <2>7. QED  BY <2>2, <2>3, <2>4, <2>5, <2>6
<1>2. QED  BY <1>1, AlwaysFlow, PTL

--------------------------------------------------------------------------------
(***************************************************************************)
(* What a request has read is not outdated when it arrives.                *)
(***************************************************************************)

Underway == {"find_client", "current_user", "issue"}

\* The copy of an enabled, valid client was in the table while the request was under way, and
\* so was a user whom the session is valid for.
Seen(r) ==
  /\ pc[r] \in {"current_user", "issue"} =>
       row[r] \in since[r].clients /\ row[r].enabled /\ Validate(row[r].reg)
  /\ pc[r] = "issue" =>
       \E user \in since[r].users : user.active /\ user.stamp = ask[r].session.stamp

SeenInv == \A r \in Requests : Seen(r)

\* While a request is under way, the witness of what it has had the chance to read grows.
LEMMA WitnessGrows ==
  ASSUME Witness, NEW q \in Requests, pc'[q] \in Underway
  PROVE  /\ since[q].clients \subseteq since'[q].clients
         /\ Named(clients', ask'[q].params.name) \subseteq since'[q].clients
         /\ since[q].users \subseteq since'[q].users
         /\ \A u \in Users \cap {ask'[q].session.user} : users'[u] \in since'[q].users
<1> DEFINE C == Named(clients', ask'[q].params.name)
           U == {users'[u] : u \in Users \cap {ask'[q].session.user}}
<1>1. since'[q] = [clients |-> since[q].clients \cup C, users |-> since[q].users \cup U]
  BY DEF Witness, Underway
<1>2. \A u \in Users \cap {ask'[q].session.user} : users'[u] \in U
  OBVIOUS
<1> HIDE DEF C, U
<1>3. /\ since[q].clients \subseteq since'[q].clients /\ C \subseteq since'[q].clients
      /\ since[q].users \subseteq since'[q].users /\ U \subseteq since'[q].users
  BY <1>1
<1>4. QED  BY <1>2, <1>3 DEF C

\* A step of another request takes nothing away.
LEMMA SeenOther ==
  ASSUME Witness, NEW q \in Requests, Seen(q),
         pc'[q] = pc[q], row'[q] = row[q], ask'[q] = ask[q]
  PROVE  Seen(q)'
<1>1. pc[q] \in {"current_user", "issue"} =>
        since[q].clients \subseteq since'[q].clients /\ since[q].users \subseteq since'[q].users
  BY WitnessGrows DEF Underway
<1>2. QED  BY <1>1 DEF Seen

\* The client of a request was in the table when it was read.
LEMMA SeenFindClient ==
  ASSUME Typed, ValidStored, Witness, NEW r \in Requests, FindClient(r)
  PROVE  Seen(r)'
<1>1. Kept /\ Aside /\ pc'[r] \in {"page_error", "redirect_error", "current_user"}
  BY FindClientEffect
<1>2. ASSUME pc'[r] = "current_user"
      PROVE  row'[r] \in since'[r].clients /\ row'[r].enabled /\ Validate(row'[r].reg)
  <2>1. PICK i \in Ids : /\ Stored(i) /\ clients[i].name = ask[r].params.name
                         /\ clients[i].enabled /\ row'[r] = clients[i]
    BY <1>2, FindClientEffect
  <2>2. clients[i] \in Named(clients', ask'[r].params.name)
    BY <1>1, <2>1 DEF Named, Kept, Aside, Stored
  <2>3. Validate(clients[i].reg)
    BY <2>1 DEF ValidStored
  <2>4. QED  BY <1>2, <2>1, <2>2, <2>3, WitnessGrows DEF Underway
<1>3. QED  BY <1>1, <1>2 DEF Seen

\* The session was valid when it was checked.
LEMMA SeenCurrentUser ==
  ASSUME Typed, Witness, NEW r \in Requests, Seen(r), CurrentUser(r)
  PROVE  Seen(r)'
<1>1. /\ pc[r] = "current_user" /\ row' = row /\ UNCHANGED <<users, ask>>
      /\ pc'[r] \in {"login", "consent", "page_error", "issue", "redirect_error"}
  BY CurrentUserEffect
<1>2. ASSUME pc'[r] = "issue"
      PROVE  /\ row'[r] \in since'[r].clients /\ row'[r].enabled /\ Validate(row'[r].reg)
             /\ \E user \in since'[r].users : user.active
                                              /\ user.stamp = ask'[r].session.stamp
  <2>1. SessionValid(ask[r])
    BY <1>2, CurrentUserEffect
  <2>2. PICK u \in Users : u = ask[r].session.user
    BY <2>1 DEF SessionValid, Typed, AskOK, Ask, Session
  <2>3. users[u].active /\ users[u].stamp = ask[r].session.stamp
    BY <2>1, <2>2 DEF SessionValid, CanSignIn
  <2>4. users'[u] \in since'[r].users /\ since[r].clients \subseteq since'[r].clients
    BY <1>1, <1>2, <2>2, WitnessGrows DEF Underway
  <2>5. QED  BY <1>1, <2>3, <2>4 DEF Seen
<1>3. QED  BY <1>1, <1>2 DEF Seen

\* Every step keeps what is said of the copies.
LEMMA SeenNext ==
  ASSUME Typed, TargetInv, SecretInv, SeenInv, [Next]_vars
  PROVE  SeenInv'
<1>1. CASE UNCHANGED vars
  BY <1>1 DEF vars, SeenInv, Seen
<1>2. CASE Next
  <2>1. Witness
    BY <1>2 DEF Next
  <2>2. ASSUME NEW r \in Requests, Own(r), Seen(r)', \A q \in Requests \ {r} : ask'[q] = ask[q]
        PROVE  SeenInv'
    BY <2>1, <2>2, SeenOther DEF SeenInv, Own
  <2>3. CASE Browse
    <3>1. UNCHANGED <<pc, row, ask>>
      BY <2>3, BrowseEffect DEF Typed
    <3>2. QED  BY <2>1, <3>1, SeenOther DEF SeenInv
  <2>4. ASSUME NEW r \in Requests, Administer(r)
        PROVE  SeenInv'
    <3>1. Own(r) /\ Aside /\ pc'[r] \in ClientSide
      BY <2>4, AdministerEffect DEF TargetInv
    <3>2. Seen(r)'
      BY <3>1 DEF Seen, ClientSide, ClientCalls, ClientResponses
    <3>3. QED  BY <2>2, <3>1, <3>2 DEF Aside
  <2>5. ASSUME NEW r \in Requests, Serve(r)
        PROVE  SeenInv'
    <3>1. Own(r) /\ OwnAsk(r)
      BY <2>5, ServeEffect DEF TargetInv
    <3>2. CASE FindClient(r)
      BY <2>1, <2>2, <3>1, <3>2, SeenFindClient DEF SecretInv, OwnAsk
    <3>3. CASE CurrentUser(r)
      BY <2>1, <2>2, <3>1, <3>3, SeenCurrentUser DEF SeenInv, OwnAsk
    <3>4. ASSUME pc'[r] \notin {"current_user", "issue"}
          PROVE  SeenInv'
      BY <2>2, <3>1, <3>4 DEF Seen, OwnAsk
    <3>5. CASE Issue(r)
      BY <3>4, <3>5, IssueEffect DEF Issue, TargetInv, Targeted
    <3>6. CASE AuthenticateClient(r)
      BY <3>4, <3>6, AuthenticateEffect DEF Typed
    <3>7. CASE GetCode(r)
      BY <3>4, <3>7, GetCodeEffect
    <3>8. CASE Consume(r)
      BY <3>4, <3>8, ConsumeEffect DEF Consume, TargetInv, Targeted
    <3>9. ASSUME NEW p \in Params, AcceptAuthorize(r, p)
          PROVE  SeenInv'
      BY <3>4, <3>9, AcceptAuthorizeEffect
    <3>10. ASSUME NEW page \in Requests, NEW allow \in BOOLEAN, AcceptApprove(r, page, allow)
           PROVE  SeenInv'
      BY <3>4, <3>10, AcceptApproveEffect
    <3>11. ASSUME NEW c \in Requests, NEW name \in Names, NEW uri \in Uris \cup {None},
                  NEW verifier \in Verifiers \cup {None},
                  NEW secret \in {None} \cup {clients[i].secret : i \in ByClientId(name)},
                  AcceptExchange(r, c, name, secret, uri, verifier)
           PROVE  SeenInv'
      BY <3>4, <3>11, AcceptExchangeEffect
    <3>12. QED
      BY <2>5, <3>2, <3>3, <3>5, <3>6, <3>7, <3>8, <3>9, <3>10, <3>11 DEF Serve
  <2>6. QED  BY <1>2, <2>3, <2>4, <2>5, StepKinds
<1>3. QED  BY <1>1, <1>2

\* Only Issue grants a code or token.
LEMMA GrantStep ==
  ASSUME Typed, TargetInv, Next, NEW c \in Requests, ~Granted(c), Granted(c)'
  PROVE  Issue(c)
<1>1. ASSUME UNCHANGED grants
      PROVE  FALSE
  BY <1>1 DEF Granted
<1>2. ~Browse
  BY <1>1, BrowseEffect DEF Typed
<1>3. PICK r \in Requests : Administer(r) \/ Serve(r)
  BY <1>2, StepKinds
<1>4. ~Administer(r)
  BY <1>1 DEF Administer, Aside
<1>5. ~Consume(r)
  <2> SUFFICES ASSUME Consume(r)
               PROVE  FALSE
    OBVIOUS
  <2>1. ask[r].code \in Requests
    BY DEF Consume, TargetInv, Targeted
  <2>2. \/ grants' = grants
        \/ /\ grants[ask[r].code].st = "code"
           /\ \A d \in Requests \ {ask[r].code} : grants'[d] = grants[d]
    BY <2>1, ConsumeEffect
  <2>3. QED  BY <1>1, <2>2 DEF Granted
<1>6. CASE Issue(r)
  <2>1. job[r].id \in Ids
    BY <1>6 DEF Issue, TargetInv, Targeted
  <2>2. PICK g : grants' = [grants EXCEPT ![r] = g]
    BY <1>6, <2>1, IssueEffect
  <2>3. c = r
    BY <2>2 DEF Granted, Typed, AskOK
  <2>4. QED  BY <1>6, <2>3
<1>7. CASE AuthenticateClient(r) /\ Aside
  BY <1>1, <1>7 DEF Aside
<1>8. CASE FindClient(r) \/ CurrentUser(r) \/ GetCode(r)
  BY <1>1, <1>8 DEF FindClient, CurrentUser, GetCode
<1>9. ~\E p \in Params : AcceptAuthorize(r, p)
  BY <1>1, AcceptAuthorizeEffect
<1>10. ~\E page \in Requests, allow \in BOOLEAN : AcceptApprove(r, page, allow)
  BY <1>1, AcceptApproveEffect
<1>11. ASSUME NEW d \in Requests, NEW name \in Names, NEW uri \in Uris \cup {None},
              NEW verifier \in Verifiers \cup {None},
              NEW secret \in {None} \cup {clients[i].secret : i \in ByClientId(name)},
              AcceptExchange(r, d, name, secret, uri, verifier)
       PROVE  FALSE
  BY <1>1, <1>11, AcceptExchangeEffect
<1>12. QED
  BY <1>3, <1>4, <1>5, <1>6, <1>7, <1>8, <1>9, <1>10, <1>11 DEF Serve

\* At first nothing is under way.
LEMMA SeenInit == Init => SeenInv
BY DEF Init, ClientsInit, SeenInv, Seen

\* Nothing is granted by a registration, or to a session, that had ended when the request
\* arrived.
THEOREM GrantedOnTime == Spec => NothingOutdated
<1> DEFINE Timely ==
      \A c \in Requests : ~Granted(c) /\ Granted(c)' =>
        /\ \E client \in since[c].clients : Permits(client, ask[c].params, grants'[c])
        /\ \E user \in since[c].users : user.active /\ user.stamp = ask[c].session.stamp
<1>1. ASSUME Typed, TargetInv, FlowInv, SeenInv, [Next]_vars
      PROVE  [Timely]_vars
  <2> SUFFICES ASSUME Next, NEW c \in Requests, ~Granted(c), Granted(c)'
               PROVE  /\ \E client \in since[c].clients :
                           Permits(client, ask[c].params, grants'[c])
                      /\ \E user \in since[c].users :
                           user.active /\ user.stamp = ask[c].session.stamp
    BY <1>1
  <2>1. Issue(c) /\ pc[c] = "issue" /\ job[c].id \in Ids /\ Seen(c)
    BY <1>1, GrantStep DEF Issue, TargetInv, Targeted, SeenInv
  <2>2. PICK g : Granting(c, g) /\ grants' = [grants EXCEPT ![c] = g]
    BY <1>1, <2>1, IssueEffect
  <2>3. grants'[c] = g
    BY <1>1, <2>2 DEF Typed, AskOK
  <2>4. row[c] \in since[c].clients /\ row[c].enabled /\ Validate(row[c].reg)
    BY <2>1 DEF Seen
  <2>5. ValidateRequest(row[c], ask[c])
    BY <1>1, <2>1 DEF FlowInv, Flow, Examined
  <2>6. g.scopes \subseteq row[c].reg.allowed /\ g.to \in row[c].reg.uris
    BY <2>2, <2>4, <2>5
       DEF Granting, ResolveScopes, RedirectUris, Validate, ValidateRequest, ValidateScopes
  <2>7. Permits(row[c], ask[c].params, grants'[c])
    BY <2>3, <2>4, <2>5, <2>6 DEF Permits, ValidateRequest
  <2>8. QED  BY <2>1, <2>4, <2>7 DEF Seen
<1> HIDE DEF Timely
<1>2. SeenInv /\ (Typed /\ TargetInv /\ SecretInv) /\ [Next]_vars => SeenInv'
  BY SeenNext
<1>3. Spec => []SeenInv
  BY <1>2, SeenInit, AlwaysSecret, PTL DEF Spec
<1>4. Spec => [][Timely]_vars
  BY <1>1, <1>3, AlwaysFlow, PTL DEF Spec
<1>5. QED  BY <1>4 DEF Timely, NothingOutdated

================================================================================
