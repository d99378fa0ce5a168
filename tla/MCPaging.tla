------------------------------- MODULE MCPaging --------------------------------
EXTENDS Paging, TLC

CONSTANTS alice, bob

\* The default, and one that is cut.
Interesting == {0, 3}

Interchangeable == Permutations(Tags)

================================================================================
