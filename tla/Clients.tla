-------------------------------- MODULE Clients --------------------------------
(***************************************************************************)
(* The registrations of clients: the management API (pkg/api/clients.go),  *)
(* the provisioning at startup (Server.EnsureClient) and the client        *)
(* authentication of the token endpoint (pkg/oauth/client_auth.go), whose  *)
(* exchange of a code continues in the module Authorize.                   *)
(*                                                                         *)
(* A handler reads a row, edits its copy and writes the copy back, so      *)
(* every request is a process that makes one store call per action.  A new *)
(* client has the id of the request that creates it, and a secret that is  *)
(* generated is named by the request that hands it out.  A store call that *)
(* fails changes nothing and ends its request: it is a request that goes   *)
(* no further, which the specification allows at every step.               *)
(***************************************************************************)
EXTENDS FiniteSets, Naturals

CONSTANTS
  Requests,
  Existing,        \* clients that are registered at first, each with a secret of its own name
  ExistingName,    \* client -> its client_id
  ExistingReg,     \* client -> its registration
  Names,           \* client_ids
  Uris, Scopes,
  None,
  Registrations,   \* bound: the registrations that are asked for
  Toggles,         \* bound: what requests say of `enabled`, None when they omit it
  Kinds            \* bound: request -> the kinds it may be of

Ids == Existing \cup Requests
Secrets == Ids

ClientKinds == {"create_client", "update_client", "delete_client", "regenerate", "ensure"}
\* The requests of the module Authorize, which share the tables of requests.
AuthorizeKinds == {"authorize", "approve", "exchange"}
Grants == {"authorization_code", "implicit", "client_credentials", "refresh_token"}

\* What of a client an administrator chooses; an empty type stands for the default.
Registration ==
  [type : {"", "confidential", "public"}, uris : SUBSET Uris,
   allowed : SUBSET Scopes, defaults : SUBSET Scopes, grants : SUBSET Grants,
   consent : BOOLEAN, pkce : BOOLEAN]

\* Deviation: what is left empty stays empty.
DefaultsMissing(reg) == reg

\* EnsureDefaults
EnsureDefaults(reg) == [reg EXCEPT !.type = IF @ = "" THEN "confidential" ELSE @]

\* Validate
Validate(reg) ==
  /\ reg.defaults \subseteq reg.allowed
  /\ ~("client_credentials" \in reg.grants /\ reg.type = "public")

ASSUME ClientsAssumption ==
  /\ Existing \cap Requests = {}
  /\ None \notin Ids \cup Names \cup Uris
  /\ ExistingName \in [Existing -> Names]
  /\ \A i, j \in Existing : ExistingName[i] = ExistingName[j] => i = j
  /\ ExistingReg \in [Existing -> Registration]
  /\ \A i \in Existing : ExistingReg[i].type = "confidential" /\ Validate(ExistingReg[i])
  /\ Registrations \subseteq Registration
  /\ Toggles \subseteq {TRUE, FALSE, None}
  /\ Kinds \in [Requests -> SUBSET (ClientKinds \cup AuthorizeKinds)]

VARIABLES
  clients,   \* table of clients
  pc,        \* request -> its next store call, or its response
  job,       \* request -> its input
  row,       \* request -> its copy of a client
  replaced,  \* history: client -> the secrets that a write was to replace
  missed,    \* history: request -> the secrets that were replaced after it read its copy
  restored   \* history: client -> the secrets that such a copy has brought back

Client ==
  [st : {"none", "stored", "gone"}, name : Names \cup {None}, secret : Secrets \cup {None},
   enabled : BOOLEAN, reg : {reg \in Registration : reg.type # ""}]

NoReg == [type |-> "confidential", uris |-> {}, allowed |-> {}, defaults |-> {}, grants |-> {},
          consent |-> FALSE, pkce |-> FALSE]
NoClient == [st |-> "none", name |-> None, secret |-> None, enabled |-> FALSE, reg |-> NoReg]

NoJob == [kind |-> "none", id |-> None, name |-> None, reg |-> NoReg, enabled |-> None,
          secret |-> None]

ClientJob == [kind : ClientKinds \cup AuthorizeKinds \cup {"none"}, id : Ids \cup {None}, name : Names \cup {None},
              reg : Registration, enabled : {TRUE, FALSE, None}, secret : Secrets \cup {None}]

ClientCalls == {"insert", "get_client", "update", "update_and_revoke", "delete", "revoke_refresh",
                "revoke_access", "get_by_client_id", "authenticate"}
ClientResponses == {"ok", "invalid", "not_found", "duplicate", "denied"}

ClientsTypeOK ==
  /\ clients \in [Ids -> Client]
  /\ row \in [Requests -> Client]
  /\ job \in [Requests -> ClientJob]
  /\ {replaced, restored} \subseteq [Ids -> SUBSET Secrets]
  /\ missed \in [Requests -> SUBSET Secrets]

ClientsInit ==
  /\ clients = [i \in Ids |-> IF i \in Existing
                  THEN [st |-> "stored", name |-> ExistingName[i], secret |-> i, enabled |-> TRUE,
                        reg |-> ExistingReg[i]]
                  ELSE NoClient]
  /\ pc = [r \in Requests |-> "idle"]
  /\ job = [r \in Requests |-> NoJob]
  /\ row = [r \in Requests |-> NoClient]
  /\ replaced = [i \in Ids |-> {}] /\ restored = [i \in Ids |-> {}]
  /\ missed = [r \in Requests |-> {}]

--------------------------------------------------------------------------------
Goto(r, l) == pc' = [pc EXCEPT ![r] = l]

Stored(i) == clients[i].st = "stored"

IsPublic(client) == client.reg.type = "public"

\* The rows with a client_id: at most one.
ByClientId(name) == {i \in Ids : Stored(i) /\ clients[i].name = name}

Read(r, client) == row' = [row EXCEPT ![r] = client]

Accept(r, j, l) ==
  /\ pc[r] = "idle" /\ j.kind \in Kinds[r]
  /\ job' = [job EXCEPT ![r] = j]
  /\ Goto(r, l)
  /\ UNCHANGED <<clients, replaced, missed, restored>>

(***************************************************************************)
(* createClient                                                            *)
(***************************************************************************)

\* apply, for a new client or the copy of an old one: an omitted `enabled` changes nothing.
Apply(client, j) ==
  [client EXCEPT !.name = j.name, !.reg = EnsureDefaults(j.reg),
                 !.enabled = IF j.enabled = None THEN @ ELSE j.enabled]

AcceptCreate(r, name, reg, enabled) ==
  LET j == [NoJob EXCEPT !.kind = "create_client", !.id = r, !.name = name, !.reg = reg,
                         !.enabled = enabled]
      client == Apply([NoClient EXCEPT !.st = "stored", !.enabled = TRUE], j) IN
  /\ Accept(r, j, IF Validate(client.reg) THEN "insert" ELSE "invalid")
  /\ Read(r, [client EXCEPT !.secret = IF IsPublic(client) THEN None ELSE r])

\* Store.CreateClient
Insert(r) ==
  LET i == job[r].id IN
  /\ pc[r] = "insert"
  /\ \/ /\ Stored(i) \/ ByClientId(row[r].name) # {}
        /\ Goto(r, "duplicate")
        /\ UNCHANGED clients
     \/ /\ ~Stored(i) /\ ByClientId(row[r].name) = {}
        /\ clients' = [clients EXCEPT ![i] = row[r]]
        /\ Goto(r, "ok")
  /\ UNCHANGED <<job, row, replaced, missed, restored>>

(***************************************************************************)
(* updateClient and regenerateClientSecret                                 *)
(***************************************************************************)

AcceptUpdate(r, i, name, reg, enabled) ==
  /\ clients[i].st # "none"
  /\ Accept(r, [NoJob EXCEPT !.kind = "update_client", !.id = i, !.name = name, !.reg = reg,
                             !.enabled = enabled], "get_client")
  /\ UNCHANGED row

AcceptRegenerate(r, i) ==
  /\ clients[i].st # "none"
  /\ Accept(r, [NoJob EXCEPT !.kind = "regenerate", !.id = i], "get_client")
  /\ UNCHANGED row

\* Deviation: a client keeps its secret when it becomes public.
SecretKept(client) == client

\* A public client has no secret.
SecretCleared(client) == IF IsPublic(client) THEN [client EXCEPT !.secret = None] ELSE client

\* The copy is edited before it is written, and this is where both may refuse.
GetClient(r) ==
  LET i == job[r].id
      edited == Apply(clients[i], job[r]) IN
  /\ pc[r] = "get_client"
  /\ \/ ~Stored(i) /\ Goto(r, "not_found") /\ UNCHANGED row
     \/ /\ Stored(i) /\ job[r].kind = "update_client"
        /\ Read(r, SecretCleared(edited))
        /\ Goto(r, IF ~Validate(edited.reg) THEN "invalid"
                   ELSE IF clients[i].enabled /\ ~edited.enabled THEN "update_and_revoke"
                   ELSE "update")
     \/ /\ Stored(i) /\ job[r].kind = "regenerate"
        /\ Read(r, [clients[i] EXCEPT !.secret = r])
        /\ Goto(r, IF IsPublic(clients[i]) THEN "invalid" ELSE "update")
  /\ UNCHANGED <<clients, job, replaced, missed, restored>>

\* A request that has read client i and has not written it yet.
Holds(q, i) == pc[q] \in {"update", "update_and_revoke"} /\ job[q].id = i

\* The write of r is to replace the secret of the client.
Replaces(r) ==
  \/ job[r].kind = "regenerate"
  \/ job[r].kind = "update_client" /\ IsPublic(row[r])
  \/ job[r].kind = "ensure" /\ job[r].secret # None

\* Deviation: the row is written although it was deleted.
UpdatableUpsert(i) == clients[i].st # "none"

Updatable(i) == Stored(i)

\* Store.UpdateClient, with the whole copy.
Update(r) ==
  LET i == job[r].id
      old == {clients[i].secret} \ {None}
      free == ByClientId(row[r].name) \subseteq {i} IN
  /\ pc[r] \in {"update", "update_and_revoke"}
  /\ \/ /\ ~Updatable(i) /\ Goto(r, "not_found")
        /\ UNCHANGED <<clients, replaced, missed, restored>>
     \/ /\ Updatable(i) /\ ~free /\ Goto(r, "duplicate")
        /\ UNCHANGED <<clients, replaced, missed, restored>>
     \/ /\ Updatable(i) /\ free
        /\ clients' = [clients EXCEPT ![i] = row[r]]
        /\ Goto(r, IF pc[r] = "update" THEN "ok" ELSE "revoke_refresh")
        /\ IF Replaces(r)
             THEN /\ replaced' = [replaced EXCEPT ![i] = @ \cup old]
                  /\ missed' = [q \in Requests |-> IF Holds(q, i) THEN missed[q] \cup old
                                                                ELSE missed[q]]
                  /\ UNCHANGED restored
             ELSE /\ restored' = [restored EXCEPT ![i] = @ \cup (missed[r] \cap {row[r].secret})]
                  /\ UNCHANGED <<replaced, missed>>
  /\ UNCHANGED <<job, row>>

(***************************************************************************)
(* deleteClient, and revokeTokens, whose deletions are those of the module *)
(* TokenGrants                                                             *)
(***************************************************************************)

AcceptDelete(r, i) ==
  /\ clients[i].st # "none"
  /\ Accept(r, [NoJob EXCEPT !.kind = "delete_client", !.id = i], "delete")
  /\ UNCHANGED row

\* Store.DeleteClient
DeleteClient(r) ==
  /\ pc[r] = "delete"
  /\ \/ Stored(job[r].id) /\ clients' = [clients EXCEPT ![job[r].id].st = "gone"]
                          /\ Goto(r, "revoke_refresh")
     \/ ~Stored(job[r].id) /\ Goto(r, "not_found") /\ UNCHANGED clients
  /\ UNCHANGED <<job, row, replaced, missed, restored>>

RevokeTokens(r) ==
  /\ \/ pc[r] = "revoke_refresh" /\ Goto(r, "revoke_access")
     \/ pc[r] = "revoke_access" /\ Goto(r, "ok")
  /\ UNCHANGED <<clients, job, row, replaced, missed, restored>>

(***************************************************************************)
(* EnsureClient                                                            *)
(***************************************************************************)

AcceptEnsure(r, name, reg, secret) ==
  /\ secret \in {None, r}
  /\ Accept(r, [NoJob EXCEPT !.kind = "ensure", !.id = r, !.name = name, !.reg = reg,
                             !.enabled = TRUE, !.secret = secret], "get_by_client_id")
  /\ UNCHANGED row

\* Provisioning is given a whole client; only its id and a secret it does not name come from
\* the row that exists.
GetByClientId(r) ==
  LET found == ByClientId(job[r].name)
      given == [st |-> "stored", name |-> job[r].name, secret |-> job[r].secret, enabled |-> TRUE,
                reg |-> EnsureDefaults(job[r].reg)] IN
  /\ pc[r] = "get_by_client_id"
  /\ \/ /\ found = {}
        /\ Read(r, given)
        /\ Goto(r, IF Validate(given.reg) THEN "insert" ELSE "invalid")
        /\ UNCHANGED job
     \/ \E i \in found :
          /\ Read(r, IF job[r].secret # None THEN given
                     ELSE [given EXCEPT !.secret = clients[i].secret])
          /\ job' = [job EXCEPT ![r].id = i]
          /\ Goto(r, IF Validate(given.reg) THEN "update" ELSE "invalid")
  /\ UNCHANGED <<clients, replaced, missed, restored>>

(***************************************************************************)
(* AuthenticateClient.  A request without a secret may be one of a public  *)
(* client.                                                                 *)
(***************************************************************************)

Authentic(client, secret) ==
  /\ client.enabled
  /\ IF IsPublic(client) THEN secret = None
     ELSE secret # None /\ client.secret = secret

AuthenticateClient(r) ==
  LET found == {i \in ByClientId(job[r].name) : Authentic(clients[i], job[r].secret)} IN
  /\ pc[r] = "authenticate"
  /\ \/ \E i \in found : Read(r, clients[i]) /\ job' = [job EXCEPT ![r].id = i]
                         /\ Goto(r, "get_code")
     \/ found = {} /\ Goto(r, "denied") /\ UNCHANGED <<job, row>>
  /\ UNCHANGED <<clients, replaced, missed, restored>>

--------------------------------------------------------------------------------
ArriveAtClients(r) ==
  \/ \E name \in Names, reg \in Registrations, enabled \in Toggles :
       \/ AcceptCreate(r, name, reg, enabled)
       \/ \E i \in Ids : AcceptUpdate(r, i, name, reg, enabled)
  \/ \E i \in Ids : AcceptRegenerate(r, i) \/ AcceptDelete(r, i)
  \/ \E name \in Names, reg \in Registrations, secret \in {None, r} :
       AcceptEnsure(r, name, reg, secret)

AdvanceClients(r) ==
  \/ Insert(r) \/ GetClient(r) \/ Update(r) \/ DeleteClient(r) \/ RevokeTokens(r)
  \/ GetByClientId(r) \/ AuthenticateClient(r)

--------------------------------------------------------------------------------
\* A secret that was replaced, or lost when the client became public, is not the client's
\* again, even when the client is made confidential again: only an update that read the row
\* before the replacement, and writes its whole copy after it, brings it back.
RetiredStayRetired ==
  \A i \in Ids : Stored(i) /\ clients[i].secret \in replaced[i] => clients[i].secret \in restored[i]

\* A deleted client does not come back with a request that had read it before: nothing
\* recreates the row.
DeletedGone == [][\A i \in Ids : clients[i].st = "gone" => clients'[i].st = "gone"]_clients

================================================================================
