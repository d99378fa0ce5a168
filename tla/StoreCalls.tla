------------------------------ MODULE StoreCalls -------------------------------
(***************************************************************************)
(* What the stores have in common: a call goes from statement to statement *)
(* until it answers.                                                       *)
(***************************************************************************)
EXTENDS StoreContract

VARIABLES
  pc,    \* call -> its next statement
  scan   \* bulk deletion -> the rows it has found and not yet come to

Goto(c, l) == pc' = [pc EXCEPT ![c] = l]

Put(id, row) == rows' = [rows EXCEPT ![id] = row]

\* A row other than id has the same value in one of the columns.
Clash(columns, key, id) ==
  \E i \in Ids \ {id} : rows[i].st = "stored" /\ \E k \in rows[i].key \cap key : k[1] \in columns

\* The rows a get asks for: at most one.
Found(c) ==
  {i \in Ids : rows[i].st = "stored" /\ (i = job[c].id \/ job[c].key \in rows[i].key)}

Finish(c, a) == Reply(c, a) /\ Goto(c, "done")

Answered(c, code) == Finish(c, Plain(code))

================================================================================
