------------------------------- MODULE MCAuthorize ------------------------------
EXTENDS Authorize, TLC

CONSTANTS k1, k2, n1, n2, u1, u2, s1, s2, v1, r1, r2, r3

SomeNames == k1 :> n1 @@ k2 :> n2

Asking ==
  [type |-> "confidential", uris |-> {u1}, allowed |-> {s1, s2}, defaults |-> {s1},
   grants |-> {"authorization_code", "implicit"}, consent |-> TRUE, pkce |-> FALSE]

\* One client requires consent and one does not.
SomeRegs == k1 :> Asking @@ k2 :> [Asking EXCEPT !.consent = FALSE]

\* Other default scopes; a public client without the implicit grant.
SomeRegistrations ==
  { [Asking EXCEPT !.type = "", !.defaults = {s1, s2}],
    [Asking EXCEPT !.type = "public", !.uris = {u1, u2}, !.consent = FALSE,
                   !.grants = {"authorization_code"}] }

\* A token, a code with everything else omitted, and one with everything given.
SomeParams ==
  { [name |-> n1, type |-> "token", uri |-> u1, scope |-> {}, challenge |-> None],
    [name |-> n2, type |-> "code", uri |-> None, scope |-> {}, challenge |-> None],
    [name |-> n2, type |-> "code", uri |-> u1, scope |-> {s2}, challenge |-> v1] }

\* The user agent or an administrator, the user agent or the client, an administrator.
SomeKinds ==
  r1 :> {"authorize", "create_client", "delete_client", "regenerate"}
    @@ r2 :> {"approve", "exchange"}
    @@ r3 :> {"update_client", "regenerate", "ensure"}

================================================================================
