---------------------------- MODULE MCTokenGrants ----------------------------
(* Instances of TokenGrants for TLC. *)
EXTENDS TokenGrants, TLC

\* Every client may use every grant.
AllGrants == [k \in Clients |-> GrantKinds]

\* The clients with one-time refresh tokens get them for codes only.
OneTimeFromCodes ==
  [k \in Clients |->
    IF k \in OneTime THEN {"authorization_code", "refresh_token"} ELSE GrantKinds]

\* Requests and codes are interchangeable: every request is idle at first.
Interchangeable == Permutations(Requests) \cup Permutations(Codes) \cup Permutations(Scopes)

================================================================================
