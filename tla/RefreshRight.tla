------------------------------ MODULE RefreshRight ------------------------------
(***************************************************************************)
(* What the token endpoint promises about a grant: its right to be         *)
(* refreshed is a single token that is handed on, from the authorization   *)
(* code to the request that exchanges it, to the refresh token, to the     *)
(* request that rotates it, and to the next refresh token.  It may be lost *)
(* at any point, and then the grant is over for good.                      *)
(***************************************************************************)
CONSTANT Grants

VARIABLE right

Rights == {"unissued", "code", "inflight", "token", "over"}

\* Where the right may go in one step.  A bulk revocation moves several grants at once.
Handover(from) ==
  CASE from = "unissued" -> {"unissued", "code", "inflight", "over"}
    [] from = "code" -> {"code", "inflight", "over"}
    [] from = "inflight" -> {"inflight", "token", "over"}
    [] from = "token" -> {"token", "inflight", "over"}
    [] from = "over" -> {"over"}

RightTypeOK == right \in [Grants -> Rights]

Init == right = [g \in Grants |-> "unissued"]

Next ==
  /\ right' \in [Grants -> Rights]
  /\ \A g \in Grants : right'[g] \in Handover(right[g])

Spec == Init /\ [][Next]_right

================================================================================
