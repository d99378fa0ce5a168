------------------------------ MODULE MCAccounts ------------------------------
(* Instances of Accounts for TLC. *)
EXTENDS Accounts, TLC

CONSTANTS u1, e1, p1

\* One user that has been registered and activated.
Alice == u1 :> e1
AlicePassword == u1 :> p1

\* One that still needs a password and an activation, and one that needs neither but is disabled.
Newcomers == {<<None, FALSE, TRUE>>, <<p1, TRUE, FALSE>>}
Nobody == {}

Interchangeable == Permutations(Requests)

================================================================================
