-------------------------------- MODULE Stores ---------------------------------
(***************************************************************************)
(* Any one of the stores, with several calls in flight at once.            *)
(***************************************************************************)
EXTENDS MemoryStore, SqlStore, MongoStore

CONSTANT Backends  \* bound: the stores of the instance

AllBackends == {"memory", "postgres", "mysql", "mongo"}

ASSUME BackendsAssumption == Backends \subseteq AllBackends

VARIABLE backend   \* the store of this behaviour; SQLite goes with PostgreSQL

vars == <<contract, pc, scan, backend>>

TypeOK ==
  /\ ContractTypeOK
  /\ backend \in AllBackends
  /\ pc \in [Calls -> {"idle", "locked", "done"} \cup SqlStatements \cup MongoCommands]
  /\ scan \in [Calls -> SUBSET Ids]

Init ==
  /\ ContractInit
  /\ backend \in Backends
  /\ pc = [c \in Calls |-> "idle"]
  /\ scan = [c \in Calls |-> {}]

First(op) ==
  CASE backend = "memory" -> MemoryFirst(op)
    [] backend = "mongo" -> MongoFirst[table][op]
    [] OTHER -> SqlFirst[table][op]

Begin(c) ==
  /\ AnyCall(c)
  /\ Goto(c, First(job'[c].op))
  /\ UNCHANGED <<scan, backend>>

Step(c) ==
  /\ \/ backend = "memory" /\ MemoryStep(c)
     \/ backend = "postgres" /\ SqlStep(FALSE, c)
     \/ backend = "mysql" /\ SqlStep(TRUE, c)
     \/ backend = "mongo" /\ MongoStep(c)
  /\ UNCHANGED backend

Next == \E c \in Calls : Begin(c) \/ Step(c)

Spec == Init /\ [][Next]_vars

--------------------------------------------------------------------------------
\* Every store keeps the promises of pkg/store, whichever calls overtake each other between
\* their statements.
ImplementsContract == ContractSpec

================================================================================
