------------------------------ MODULE MemoryStore ------------------------------
(***************************************************************************)
(* pkg/store/memory: maps behind one lock, which every method holds from   *)
(* its first line to its last.  A row is cloned on its way in and out.     *)
(***************************************************************************)
EXTENDS StoreCalls

\* What the methods of each map look for before they store a row.
MemoryClients == [unique |-> {"client_id"}, methods |-> {"get", "create", "update", "delete"}]

MemoryUsers == [unique |-> {"username", "email"}, methods |-> {"get", "create", "update", "delete"}]

MemoryAccessTokens == [unique |-> {"hash"}, methods |-> {"get", "create", "delete", "delete_many"}]

MemoryRefreshTokens ==
  [unique |-> {"hash"}, methods |-> {"get", "create", "update", "delete", "delete_many"}]

MemoryAuthorizationCodes ==
  [unique |-> {"hash"}, methods |-> {"get", "create", "consume", "delete", "delete_many"}]

MemoryUserTokens == [unique |-> {"hash"}, methods |-> {"get", "create", "delete", "delete_many"}]

Maps == [clients |-> MemoryClients, users |-> MemoryUsers, access |-> MemoryAccessTokens,
         refresh |-> MemoryRefreshTokens, codes |-> MemoryAuthorizationCodes,
         links |-> MemoryUserTokens]

MemoryFirst(op) == IF op \in Maps[table].methods THEN "locked" ELSE "missing"

Locked(c, op) == pc[c] = "locked" /\ job[c].op = op

MemoryGet(c) ==
  /\ Locked(c, "get")
  /\ \/ \E i \in Found(c) : Finish(c, [code |-> "ok", row |-> rows[i]])
     \/ Found(c) = {} /\ Answered(c, "not_found")
  /\ UNCHANGED rows

MemoryCreate(c) ==
  LET j == job[c]
      taken == rows[j.id].st = "stored" \/ Clash(Maps[table].unique, j.row.key, j.id) IN
  /\ Locked(c, "create")
  /\ \/ taken /\ Answered(c, "duplicate") /\ UNCHANGED rows
     \/ ~taken /\ Answered(c, "ok") /\ Put(j.id, j.row)

MemoryUpdate(c) ==
  LET j == job[c]
      taken == Clash(Maps[table].unique, j.row.key, j.id) IN
  /\ Locked(c, "update")
  /\ \/ rows[j.id].st # "stored" /\ Answered(c, "not_found") /\ UNCHANGED rows
     \/ rows[j.id].st = "stored" /\ taken /\ Answered(c, "duplicate") /\ UNCHANGED rows
     \/ rows[j.id].st = "stored" /\ ~taken /\ Answered(c, "ok") /\ Put(j.id, j.row)

MemoryConsume(c) ==
  LET code == rows[job[c].id] IN
  /\ Locked(c, "consume")
  /\ \/ code.st # "stored" /\ Answered(c, "not_found") /\ UNCHANGED rows
     \/ code.st = "stored" /\ code.used /\ Answered(c, "conflict") /\ UNCHANGED rows
     \/ /\ code.st = "stored" /\ ~code.used
        /\ Answered(c, "ok")
        /\ Put(job[c].id, [code EXCEPT !.used = TRUE])

MemoryDelete(c) ==
  LET row == rows[job[c].id] IN
  /\ Locked(c, "delete")
  /\ \/ row.st # "stored" /\ Answered(c, "not_found") /\ UNCHANGED rows
     \/ row.st = "stored" /\ Answered(c, "ok") /\ Put(job[c].id, [row EXCEPT !.st = "gone"])

\* matchToken: not to expire after the deadline is to be expired then.
MemoryMatch(j, row) ==
  /\ j.owner # None => row.owner = j.owner
  /\ j.before # None => ~(row.exp > j.before)

MemoryDeleteMany(c) ==
  /\ Locked(c, "delete_many")
  /\ Remove({i \in Ids : rows[i].st = "stored" /\ MemoryMatch(job[c], rows[i])})
  /\ Answered(c, "ok")

MemoryStep(c) ==
  /\ \/ MemoryGet(c) \/ MemoryCreate(c) \/ MemoryUpdate(c) \/ MemoryConsume(c)
     \/ MemoryDelete(c) \/ MemoryDeleteMany(c)
  /\ Observe
  /\ UNCHANGED <<table, job, scan>>

================================================================================
