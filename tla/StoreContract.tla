----------------------------- MODULE StoreContract -----------------------------
(***************************************************************************)
(* What pkg/store promises of every implementation of its interfaces, and  *)
(* what pkg/store/storetest tests call by call, here with calls in flight  *)
(* at once.                                                                *)
(*                                                                         *)
(* A change of one row takes place at once.  An answer that changes        *)
(* nothing was right at some instant of its call.  A bulk deletion need    *)
(* not be isolated: it deletes every row that has matched it all the       *)
(* while, and a row that came later may go too.  Any call may fail, before *)
(* or after it took place.                                                 *)
(*                                                                         *)
(* The tables do not refer to each other, so a behaviour is about one of   *)
(* them.  Ids are made by the callers and never used again.                *)
(***************************************************************************)
EXTENDS Integers, FiniteSets

CONSTANTS
  Calls,        \* store calls
  Ids,
  Keys,         \* values of unique columns
  Owners,       \* what bulk deletions select by: client, user, code, or user and purpose
  None,
  Times,        \* instants
  DBTime,       \* instant -> the instant it is stored as, toDBTime of MongoDB
  Existing,     \* rows that are stored at first, the id -> its key, owner and expiry
  SeedKey, SeedOwner, SeedExp,
  Tables,       \* bound: the tables of the instance
  Kinds,        \* bound: the methods that are called
  Exps, Befores \* bound: the expiries and deadlines that callers choose

AllTables == {"clients", "users", "access", "refresh", "codes", "links"}
AllKinds == {"get", "create", "update", "consume", "delete", "delete_many"}
Columns == {"client_id", "username", "email", "hash"}

ASSUME StoreAssumption ==
  /\ None \notin Ids \cup Keys \cup Owners \cup (Columns \X Keys)
  /\ Times \subseteq Nat /\ 0 \in Times
  /\ DBTime \in [Times -> Times]
  /\ \A t \in Times : DBTime[t] <= t /\ DBTime[DBTime[t]] = DBTime[t]
  /\ \A t, u \in Times : t <= u => DBTime[t] <= DBTime[u]
  /\ Existing \subseteq Ids
  /\ SeedKey \in [Existing -> Keys]
  /\ \A i, j \in Existing : SeedKey[i] = SeedKey[j] => i = j
  /\ SeedOwner \in [Existing -> Owners \cup {None}]
  /\ SeedExp \in [Existing -> Times]
  /\ \A i \in Existing : DBTime[SeedExp[i]] = SeedExp[i]
  /\ Tables \subseteq AllTables
  /\ Kinds \subseteq AllKinds
  /\ Exps \subseteq Times /\ Befores \subseteq Times

(***************************************************************************)
(* The interfaces.  Lists are Paging's.                                    *)
(***************************************************************************)
ClientStore == {"get", "create", "update", "delete"}
UserStore == {"get", "create", "update", "delete"}
AccessTokenStore == {"get", "create", "delete", "delete_many"}
RefreshTokenStore == {"get", "create", "update", "delete", "delete_many"}
AuthorizationCodeStore == {"get", "create", "consume", "delete", "delete_many"}
UserTokenStore == {"get", "create", "delete", "delete_many"}

Methods ==
  [clients |-> ClientStore, users |-> UserStore, access |-> AccessTokenStore,
   refresh |-> RefreshTokenStore, codes |-> AuthorizationCodeStore, links |-> UserTokenStore]

\* The columns of which ErrDuplicate speaks, next to the id.
Unique ==
  [clients |-> {"client_id"}, users |-> {"username", "email"}, access |-> {"hash"},
   refresh |-> {"hash"}, codes |-> {"hash"}, links |-> {"hash"}]

VARIABLES
  table,   \* the table of this behaviour
  rows,    \* id -> row
  job,     \* call -> its arguments
  answer,  \* call -> what it has returned
  may,     \* call -> the answers without a change that were right since it began
  due      \* bulk deletion -> the rows that have matched it since it began

contract == <<table, rows, job, answer, may, due>>

Row == [st : {"none", "stored", "gone"},
        key : SUBSET (Columns \X Keys),
        owner : Owners \cup {None},
        exp : Times,              \* of a client or a user: any other column
        used : BOOLEAN]

NoRow == [st |-> "none", key |-> {}, owner |-> None, exp |-> 0, used |-> FALSE]

Job == [op : AllKinds \cup {"none"}, id : Ids \cup {None}, row : Row,
        key : (Columns \X Keys) \cup {None}, owner : Owners \cup {None},
        before : Times \cup {None}]

NoJob == [op |-> "none", id |-> None, row |-> NoRow, key |-> None, owner |-> None, before |-> None]

Codes == {"ok", "not_found", "duplicate", "conflict", "error"}
Answer == [code : Codes \cup {"none"}, row : Row]
Plain(code) == [code |-> code, row |-> NoRow]
NoAnswer == Plain("none")

ContractTypeOK ==
  /\ table \in AllTables
  /\ rows \in [Ids -> Row]
  /\ job \in [Calls -> Job]
  /\ answer \in [Calls -> Answer]
  /\ may \in [Calls -> SUBSET Answer]
  /\ due \in [Calls -> SUBSET Ids]

--------------------------------------------------------------------------------
Open(c) == job[c] # NoJob /\ answer[c] = NoAnswer

\* Another row of t has one of the keys.
Shares(t, key, id) == \E i \in Ids \ {id} : t[i].st = "stored" /\ t[i].key \cap key # {}

\* TokenFilter, and the conditions of the other bulk deletions.
Matches(j, row) ==
  /\ row.st = "stored"
  /\ j.owner # None => row.owner = j.owner
  /\ j.before # None => row.exp <= j.before

Matching(j, t) == {i \in Ids : Matches(j, t[i])}

\* The row as a store of limited precision keeps it: it never lives longer than asked.
Kept(row) == {row, [row EXCEPT !.exp = DBTime[@]]}

\* The answers of a call that leaves t as it is.
GetAnswers(j, t) ==
  LET found == {i \in Ids : t[i].st = "stored" /\ (i = j.id \/ j.key \in t[i].key)} IN
    IF found = {} THEN {Plain("not_found")} ELSE {[code |-> "ok", row |-> t[i]] : i \in found}

CreateAnswers(j, t) ==
  IF t[j.id].st = "stored" \/ Shares(t, j.row.key, j.id) THEN {Plain("duplicate")} ELSE {}

UpdateAnswers(j, t) ==
  IF t[j.id].st # "stored" THEN {Plain("not_found")}
  ELSE IF Shares(t, j.row.key, j.id) THEN {Plain("duplicate")}
  ELSE IF t[j.id] = j.row THEN {Plain("ok")} ELSE {}

ConsumeAnswers(j, t) ==
  IF t[j.id].st # "stored" THEN {Plain("not_found")}
  ELSE IF t[j.id].used THEN {Plain("conflict")} ELSE {}

DeleteAnswers(j, t) == IF t[j.id].st # "stored" THEN {Plain("not_found")} ELSE {}

Answers(j, t) ==
  CASE j.op = "get" -> GetAnswers(j, t)
    [] j.op = "create" -> CreateAnswers(j, t)
    [] j.op = "update" -> UpdateAnswers(j, t)
    [] j.op = "consume" -> ConsumeAnswers(j, t)
    [] j.op = "delete" -> DeleteAnswers(j, t)
    [] OTHER -> {}

\* The rows that may be in the place of row j.id when the call has changed it.
Changed(j, t) ==
  CASE j.op = "create" /\ t[j.id].st = "none" /\ CreateAnswers(j, t) = {} -> Kept(j.row)
    [] j.op = "update" /\ UpdateAnswers(j, t) \subseteq {Plain("ok")} -> Kept(j.row)
    [] j.op = "consume" /\ ConsumeAnswers(j, t) = {} -> {[t[j.id] EXCEPT !.used = TRUE]}
    [] j.op = "delete" /\ DeleteAnswers(j, t) = {} -> {[t[j.id] EXCEPT !.st = "gone"]}
    [] OTHER -> {}

Remove(ids) == rows' = [i \in Ids |-> IF i \in ids THEN [rows[i] EXCEPT !.st = "gone"] ELSE rows[i]]

\* Every call that stays in flight has seen the table of this instant.
Waits(c) == job[c] # NoJob /\ answer'[c] = NoAnswer

Observe ==
  /\ may' = [c \in Calls |-> IF Waits(c) THEN may[c] \cup Answers(job[c], rows') ELSE {}]
  /\ due' = [c \in Calls |-> IF Waits(c) THEN due[c] \cap Matching(job[c], rows') ELSE {}]

Reply(c, a) == answer' = [answer EXCEPT ![c] = a]

--------------------------------------------------------------------------------
(***************************************************************************)
(* Calls.  A row is updated, consumed or deleted after it was stored.      *)
(***************************************************************************)
ContractInit ==
  /\ table \in Tables
  /\ rows = [i \in Ids |-> IF i \in Existing
               THEN [st |-> "stored", key |-> {<<col, SeedKey[i]>> : col \in Unique[table]},
                     owner |-> SeedOwner[i], exp |-> SeedExp[i], used |-> FALSE]
               ELSE NoRow]
  /\ job = [c \in Calls |-> NoJob]
  /\ answer = [c \in Calls |-> NoAnswer]
  /\ may = [c \in Calls |-> {}]
  /\ due = [c \in Calls |-> {}]

Call(c, j) ==
  /\ job[c] = NoJob
  /\ j.op \in Kinds \cap Methods[table]
  /\ job' = [job EXCEPT ![c] = j]
  /\ may' = [may EXCEPT ![c] = Answers(j, rows)]
  /\ due' = [due EXCEPT ![c] = IF j.op = "delete_many" THEN Matching(j, rows) ELSE {}]
  /\ UNCHANGED <<table, rows, answer>>

NewRow(key, owner, exp) ==
  [st |-> "stored", key |-> {<<col, key[col]>> : col \in Unique[table]}, owner |-> owner,
   exp |-> exp, used |-> FALSE]

CallGet(c, i) == Call(c, [NoJob EXCEPT !.op = "get", !.id = i])

CallFind(c, col, k) == Call(c, [NoJob EXCEPT !.op = "get", !.key = <<col, k>>])

CallCreate(c, i, key, owner, exp) ==
  /\ rows[i].st = "none"
  /\ \A d \in Calls : ~(job[d].op = "create" /\ job[d].id = i)
  /\ Call(c, [NoJob EXCEPT !.op = "create", !.id = i, !.row = NewRow(key, owner, exp)])

CallUpdate(c, i, key, owner, exp) ==
  /\ rows[i].st # "none"
  /\ Call(c, [NoJob EXCEPT !.op = "update", !.id = i, !.row = NewRow(key, owner, exp)])

CallOne(c, op, i) ==
  /\ rows[i].st # "none"
  /\ Call(c, [NoJob EXCEPT !.op = op, !.id = i])

CallDeleteMany(c, owner, before) ==
  Call(c, [NoJob EXCEPT !.op = "delete_many", !.owner = owner, !.before = before])

AnyCall(c) ==
  \/ \E i \in Ids : CallGet(c, i)
  \/ \E col \in Unique[table], k \in Keys : CallFind(c, col, k)
  \/ \E i \in Ids, key \in [Unique[table] -> Keys], owner \in Owners \cup {None}, exp \in Exps :
       CallCreate(c, i, key, owner, exp) \/ CallUpdate(c, i, key, owner, exp)
  \/ \E op \in {"consume", "delete"}, i \in Ids : CallOne(c, op, i)
  \/ \E owner \in Owners \cup {None}, before \in Befores \cup {None} :
       CallDeleteMany(c, owner, before)

(***************************************************************************)
(* What calls do                                                           *)
(***************************************************************************)

\* The call changes its row; its answer may be lost.
Change(c) ==
  /\ Open(c)
  /\ \E new \in Changed(job[c], rows) : rows' = [rows EXCEPT ![job[c].id] = new]
  /\ Reply(c, Plain("ok")) \/ Reply(c, Plain("error"))
  /\ Observe
  /\ UNCHANGED <<table, job>>

\* A bulk deletion deletes some rows.  Once it is through it may answer so.
DeleteSome(c) ==
  /\ Open(c) /\ job[c].op = "delete_many"
  /\ \E ids \in SUBSET Matching(job[c], rows) : Remove(ids)
  /\ UNCHANGED answer \/ Reply(c, Plain("error"))
                      \/ (due[c] \cap Matching(job[c], rows') = {} /\ Reply(c, Plain("ok")))
  /\ Observe
  /\ UNCHANGED <<table, job>>

\* A call answers without a change.
Return(c) ==
  /\ Open(c)
  /\ \E a \in may[c] \cup {Plain("error")} : Reply(c, a)
  /\ Observe
  /\ UNCHANGED <<table, rows, job>>

ContractNext == \E c \in Calls : AnyCall(c) \/ Change(c) \/ DeleteSome(c) \/ Return(c)

ContractSpec == ContractInit /\ [][ContractNext]_contract

--------------------------------------------------------------------------------
(***************************************************************************)
(* Properties                                                              *)
(***************************************************************************)

\* No two rows have the same value in a unique column, however many calls look for one and
\* store one at once.
UniqueKeys ==
  \A i, j \in Ids : rows[i].st = "stored" /\ rows[j].st = "stored" /\ i # j =>
    rows[i].key \cap rows[j].key = {}

\* Of all the calls that consume one code at most one is told that it has.
ConsumedOnce ==
  \A c, d \in Calls :
    /\ job[c].op = "consume" /\ job[d].op = "consume" /\ job[c].id = job[d].id
    /\ answer[c].code = "ok" /\ answer[d].code = "ok"
    => c = d

================================================================================
