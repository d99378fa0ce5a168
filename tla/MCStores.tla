-------------------------------- MODULE MCStores -------------------------------
EXTENDS Stores, TLC

CONSTANTS i1, i2, i3, k1, k2, o1

SomeTimes == 0..3

\* Two instants are kept as one.
HalfTime == [t \in SomeTimes |-> t - (t % 2)]

SomeKeys == i1 :> k1
SomeOwners == i1 :> o1
SomeExps == i1 :> 2

Interchangeable == Permutations(Calls)

================================================================================
