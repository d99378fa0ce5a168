------------------------------ MODULE MCTokenUse ------------------------------
(* Instances of TokenUse for TLC. *)
EXTENDS TokenUse, TLC

AllGrants == [k \in Clients |-> GrantKinds]

CONSTANTS k1, u1

SomeFilters == {<<k1, None, FALSE>>, <<None, u1, TRUE>>}

Interchangeable == Permutations(Requests) \cup Permutations(Codes)

================================================================================
