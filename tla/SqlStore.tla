------------------------------- MODULE SqlStore --------------------------------
(***************************************************************************)
(* store/sql.  No method uses a transaction: what takes two statements can *)
(* be overtaken between them.  Instants are kept to the nanosecond.        *)
(***************************************************************************)
EXTENDS StoreCalls

\* The statement that each method begins with.
SqlClients == [get |-> "select", create |-> "insert", update |-> "update", delete |-> "delete"]

SqlUsers == [get |-> "select", create |-> "insert", update |-> "update", delete |-> "delete"]

SqlAccessTokens ==
  [get |-> "select", create |-> "insert", delete |-> "delete", delete_many |-> "delete_where"]

SqlRefreshTokens ==
  [get |-> "select", create |-> "insert", update |-> "update", delete |-> "delete",
   delete_many |-> "delete_where"]

SqlAuthorizationCodes ==
  [get |-> "select", create |-> "insert", consume |-> "update_unconsumed", delete |-> "delete",
   delete_many |-> "delete_where"]

SqlUserTokens ==
  [get |-> "select", create |-> "insert", delete |-> "delete", delete_many |-> "delete_where"]

SqlFirst ==
  [clients |-> SqlClients, users |-> SqlUsers, access |-> SqlAccessTokens,
   refresh |-> SqlRefreshTokens, codes |-> SqlAuthorizationCodes, links |-> SqlUserTokens]

\* The unique constraints of the schema.
SqlUnique ==
  [clients |-> {"client_id"}, users |-> {"username", "email"}, access |-> {"hash"},
   refresh |-> {"hash"}, codes |-> {"hash"}, links |-> {"hash"}]

SqlStatements == {"select", "insert", "update", "update_unconsumed", "select_one", "delete",
                  "delete_where", "commit"}

\* The statement was run, and so the call answers, unless the connection was lost meanwhile.
Replies(c, a) == Finish(c, a) \/ Answered(c, "error")

\* getOne
Select(c) ==
  /\ pc[c] = "select"
  /\ \/ \E i \in Found(c) : Replies(c, [code |-> "ok", row |-> rows[i]])
     \/ Found(c) = {} /\ Replies(c, Plain("not_found"))
  /\ UNCHANGED <<rows, scan>>

\* mapError
Insert(c) ==
  LET j == job[c]
      violation == rows[j.id].st = "stored" \/ Clash(SqlUnique[table], j.row.key, j.id) IN
  /\ pc[c] = "insert"
  /\ \/ violation /\ Replies(c, Plain("duplicate")) /\ UNCHANGED rows
     \/ ~violation /\ Replies(c, Plain("ok")) /\ Put(j.id, j.row)
  /\ UNCHANGED scan

\* The rows affected by an update: MySQL counts those it changes, the others those they find.
Affected(mysql, c) ==
  /\ rows[job[c].id].st = "stored"
  /\ mysql => rows[job[c].id] # job[c].row

\* execChanged
Update(mysql, c) ==
  LET j == job[c]
      found == rows[j.id].st = "stored"
      violation == found /\ Clash(SqlUnique[table], j.row.key, j.id) IN
  /\ pc[c] = "update"
  /\ \/ violation /\ Replies(c, Plain("duplicate")) /\ UNCHANGED rows
     \/ /\ found /\ ~violation
        /\ Put(j.id, j.row)
        /\ IF Affected(mysql, c) THEN Replies(c, Plain("ok"))
                                 ELSE Goto(c, "select_one") /\ UNCHANGED answer
     \/ /\ ~found
        /\ Goto(c, "select_one")
        /\ UNCHANGED <<rows, answer>>
  /\ UNCHANGED scan

\* Deviation: the statement finds the code by its id only.
UnconsumedAny(code) == code.st = "stored"

\* WHERE id = ? AND consumed_at IS NULL
Unconsumed(code) == code.st = "stored" /\ ~code.used

\* ConsumeAuthorizationCode
UpdateUnconsumed(c) ==
  LET code == rows[job[c].id] IN
  /\ pc[c] = "update_unconsumed"
  /\ \/ /\ Unconsumed(code)
        /\ Put(job[c].id, [code EXCEPT !.used = TRUE])
        /\ Replies(c, Plain("ok"))
     \/ /\ ~Unconsumed(code)
        /\ Goto(c, "select_one")
        /\ UNCHANGED <<rows, answer>>
  /\ UNCHANGED scan

\* Deviation: no affected row is no row, for MySQL too.
NoneAffected(c) ==
  /\ pc[c] = "select_one"
  /\ Replies(c, Plain(IF job[c].op = "consume" THEN "conflict" ELSE "not_found"))
  /\ UNCHANGED <<rows, scan>>

\* exists
SelectOne(c) ==
  /\ pc[c] = "select_one"
  /\ Replies(c, IF rows[job[c].id].st # "stored" THEN Plain("not_found")
                ELSE IF job[c].op = "consume" THEN Plain("conflict") ELSE Plain("ok"))
  /\ UNCHANGED <<rows, scan>>

\* execDelete
Delete(c) ==
  LET row == rows[job[c].id] IN
  /\ pc[c] = "delete"
  /\ \/ row.st = "stored" /\ Put(job[c].id, [row EXCEPT !.st = "gone"]) /\ Replies(c, Plain("ok"))
     \/ row.st # "stored" /\ Replies(c, Plain("not_found")) /\ UNCHANGED rows
  /\ UNCHANGED scan

\* tokenWhere
Where(j, row) ==
  /\ row.st = "stored"
  /\ j.owner # None => row.owner = j.owner
  /\ j.before # None => row.exp <= j.before

\* The rows a DELETE locks are those it finds when it begins; it may see later ones.
DeleteWhere(c) ==
  /\ pc[c] = "delete_where"
  /\ scan' = [scan EXCEPT ![c] = {i \in Ids : Where(job[c], rows[i])}]
  /\ Goto(c, "commit")
  /\ UNCHANGED <<rows, answer>>

\* execCount: a row that was changed in between is looked at again.
Commit(c) ==
  LET matching == {i \in Ids : Where(job[c], rows[i])} IN
  /\ pc[c] = "commit"
  /\ \E later \in SUBSET (matching \ scan[c]) : Remove((scan[c] \cap matching) \cup later)
  /\ scan' = [scan EXCEPT ![c] = {}]
  /\ Replies(c, Plain("ok"))

\* The statement is not run.
SqlFailure(c) ==
  /\ pc[c] \in SqlStatements
  /\ Answered(c, "error")
  /\ scan' = [scan EXCEPT ![c] = {}]
  /\ UNCHANGED rows

SqlStep(mysql, c) ==
  /\ \/ Select(c) \/ Insert(c) \/ Update(mysql, c) \/ UpdateUnconsumed(c) \/ SelectOne(c)
     \/ Delete(c) \/ DeleteWhere(c) \/ Commit(c) \/ SqlFailure(c)
  /\ Observe
  /\ UNCHANGED <<table, job>>

================================================================================
