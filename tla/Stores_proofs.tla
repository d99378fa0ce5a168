----------------------------- MODULE Stores_proofs -----------------------------
(***************************************************************************)
(* Every store implements the contract of pkg/store, for every number of   *)
(* calls, rows and keys, and what the contract promises.                   *)
(***************************************************************************)
EXTENDS Stores, TLAPS

(***************************************************************************)
(* The contract                                                            *)
(***************************************************************************)

\* What calls do to one row.
Writes == {"create", "update", "consume", "delete"}

\* The arguments of a call are those of a method of the table.
Arguments(c) ==
  job[c] # NoJob =>
    /\ job[c].op \in Methods[table]
    /\ job[c].op \in Writes => job[c].id \in Ids
    /\ job[c].op \in {"create", "update"} =>
         /\ job[c].row.st = "stored" /\ ~job[c].row.used
         /\ job[c].row.key \subseteq Unique[table] \X Keys
    /\ job[c].op \in Writes \ {"create"} => rows[job[c].id].st # "none"

\* A call in flight has seen the table, the others have nothing to see.
Seen(c) ==
  /\ job[c] = NoJob => answer[c] = NoAnswer
  /\ Open(c) => Answers(job[c], rows) \subseteq may[c] /\ due[c] \subseteq Matching(job[c], rows)
  /\ ~Open(c) => may[c] = {} /\ due[c] = {}

\* A row is created once.
Creating(c) ==
  job[c].op = "create" =>
    /\ Open(c) => rows[job[c].id].st = "none"
    /\ \A d \in Calls \ {c} : job[d].op = "create" => job[d].id # job[c].id

ContractInv ==
  /\ ContractTypeOK
  /\ \A c \in Calls : Arguments(c) /\ Seen(c) /\ Creating(c)

\* The tables, one by one.
LEMMA Types ==
  ASSUME ContractTypeOK
  PROVE  /\ table \in AllTables /\ rows \in [Ids -> Row] /\ job \in [Calls -> Job]
         /\ answer \in [Calls -> Answer] /\ may \in [Calls -> SUBSET Answer]
         /\ due \in [Calls -> SUBSET Ids]
BY DEF ContractTypeOK

\* The empty row, arguments and answer.
LEMMA NoTypes == NoRow \in Row /\ NoJob \in Job /\ NoAnswer \in Answer /\ NoJob.op = "none"
<1>1. NoRow \in Row
  BY StoreAssumption DEF NoRow, Row
<1>2. NoJob \in Job /\ NoJob.op = "none"
  BY <1>1 DEF NoJob, Job
<1>3. NoAnswer \in Answer
  BY <1>1 DEF NoAnswer, Plain, Answer
<1>4. QED  BY <1>1, <1>2, <1>3

\* A plain answer.
LEMMA PlainType ==
  ASSUME NEW code \in Codes
  PROVE  Plain(code) \in Answer /\ Plain(code) # NoAnswer /\ Plain(code).code = code
BY NoTypes DEF Plain, Answer, NoAnswer, Codes

\* The answers of each method.
LEMMA AnswersOf ==
  ASSUME NEW j, NEW t
  PROVE  /\ j.op = "get" => Answers(j, t) = GetAnswers(j, t)
         /\ j.op = "create" => Answers(j, t) = CreateAnswers(j, t)
         /\ j.op = "update" => Answers(j, t) = UpdateAnswers(j, t)
         /\ j.op = "consume" => Answers(j, t) = ConsumeAnswers(j, t)
         /\ j.op = "delete" => Answers(j, t) = DeleteAnswers(j, t)
         /\ j.op \notin Writes \cup {"get"} => Answers(j, t) = {}
BY DEF Answers, Writes

\* The changes of each method.
LEMMA ChangedOf ==
  ASSUME NEW j, NEW t, NEW new \in Changed(j, t)
  PROVE  \/ /\ j.op = "create" /\ t[j.id].st = "none" /\ CreateAnswers(j, t) = {}
            /\ new \in Kept(j.row)
         \/ /\ j.op = "update" /\ UpdateAnswers(j, t) \subseteq {Plain("ok")}
            /\ new \in Kept(j.row)
         \/ /\ j.op = "consume" /\ ConsumeAnswers(j, t) = {}
            /\ new = [t[j.id] EXCEPT !.used = TRUE]
         \/ /\ j.op = "delete" /\ DeleteAnswers(j, t) = {}
            /\ new = [t[j.id] EXCEPT !.st = "gone"]
BY DEF Changed

\* The answers are well typed, and none of them is no answer.
LEMMA AnswersType ==
  ASSUME NEW j \in Job, NEW t \in [Ids -> Row]
  PROVE  /\ Answers(j, t) \subseteq Answer
         /\ \A a \in Answers(j, t) : a # NoAnswer
<1>1. /\ Plain("not_found") \in Answer /\ Plain("duplicate") \in Answer
      /\ Plain("conflict") \in Answer /\ Plain("ok") \in Answer
      /\ Plain("not_found") # NoAnswer /\ Plain("duplicate") # NoAnswer
      /\ Plain("conflict") # NoAnswer /\ Plain("ok") # NoAnswer
  BY PlainType DEF Codes
<1>2. ASSUME NEW i \in Ids
      PROVE  [code |-> "ok", row |-> t[i]] \in Answer /\ [code |-> "ok", row |-> t[i]] # NoAnswer
  BY DEF Answer, Codes, NoAnswer, Plain
<1>3. GetAnswers(j, t) \subseteq Answer /\ \A a \in GetAnswers(j, t) : a # NoAnswer
  BY <1>1, <1>2 DEF GetAnswers
<1>4. /\ CreateAnswers(j, t) \subseteq {Plain("duplicate")}
      /\ UpdateAnswers(j, t) \subseteq {Plain("not_found"), Plain("duplicate"), Plain("ok")}
      /\ ConsumeAnswers(j, t) \subseteq {Plain("not_found"), Plain("conflict")}
      /\ DeleteAnswers(j, t) \subseteq {Plain("not_found")}
  BY DEF CreateAnswers, UpdateAnswers, ConsumeAnswers, DeleteAnswers
<1>5. CASE j.op = "get"
  BY <1>3, <1>5, AnswersOf
<1>6. CASE j.op = "create"
  BY <1>1, <1>4, <1>6, AnswersOf
<1>7. CASE j.op = "update"
  BY <1>1, <1>4, <1>7, AnswersOf
<1>8. CASE j.op = "consume"
  BY <1>1, <1>4, <1>8, AnswersOf
<1>9. CASE j.op = "delete"
  BY <1>1, <1>4, <1>9, AnswersOf
<1>10. CASE j.op \notin Writes \cup {"get"}
  BY <1>10, AnswersOf
<1>11. QED  BY <1>5, <1>6, <1>7, <1>8, <1>9, <1>10 DEF Writes

\* The changes are changes of the type.
LEMMA ChangedType ==
  ASSUME NEW j \in Job, NEW t \in [Ids -> Row], j.id \in Ids, NEW new \in Changed(j, t)
  PROVE  new \in Row /\ new.st \in {"stored", "gone"} \cup {j.row.st, t[j.id].st}
<1>1. ASSUME NEW row \in Row, NEW k \in Kept(row)
      PROVE  k \in Row /\ k.st = row.st
  <2>1. row.exp \in Times
    BY DEF Row
  <2>2. DBTime[row.exp] \in Times
    BY <2>1, StoreAssumption
  <2>3. [row EXCEPT !.exp = DBTime[@]] = [row EXCEPT !.exp = DBTime[row.exp]]
    OBVIOUS
  <2>4. CASE k = [row EXCEPT !.exp = DBTime[row.exp]]
    BY <2>2, <2>4 DEF Row
  <2>5. QED  BY <1>1, <2>3, <2>4 DEF Kept
<1>2. j.row \in Row /\ t[j.id] \in Row
  BY DEF Job
<1>3. CASE new \in Kept(j.row)
  BY <1>1, <1>2, <1>3
<1>4. CASE new = [t[j.id] EXCEPT !.used = TRUE]
  BY <1>2, <1>4 DEF Row
<1>5. CASE new = [t[j.id] EXCEPT !.st = "gone"]
  BY <1>2, <1>5 DEF Row
<1>6. QED  BY ChangedOf, <1>3, <1>4, <1>5

\* The tables at first.
LEMMA FirstTypes ==
  ASSUME ContractInit
  PROVE  ContractTypeOK
<1>1. table \in AllTables
  BY StoreAssumption DEF ContractInit
<1>2. Unique[table] \subseteq Columns
  BY <1>1 DEF Unique, Columns, AllTables
<1>3. ASSUME NEW i \in Existing
      PROVE  [st |-> "stored", key |-> {<<col, SeedKey[i]>> : col \in Unique[table]},
              owner |-> SeedOwner[i], exp |-> SeedExp[i], used |-> FALSE] \in Row
  <2>1. SeedKey[i] \in Keys /\ SeedOwner[i] \in Owners \cup {None} /\ SeedExp[i] \in Times
    BY StoreAssumption
  <2>2. {<<col, SeedKey[i]>> : col \in Unique[table]} \in SUBSET (Columns \X Keys)
    BY <1>2, <2>1
  <2>3. QED  BY <2>1, <2>2 DEF Row
<1>4. rows \in [Ids -> Row]
  BY <1>3, NoTypes DEF ContractInit
<1>5. job \in [Calls -> Job] /\ answer \in [Calls -> Answer]
  BY NoTypes DEF ContractInit
<1>6. may \in [Calls -> SUBSET Answer] /\ due \in [Calls -> SUBSET Ids]
  BY DEF ContractInit
<1>7. QED  BY <1>1, <1>4, <1>5, <1>6 DEF ContractTypeOK

\* Before the first call.
LEMMA ContractInvInit == ContractInit => ContractInv
<1> SUFFICES ASSUME ContractInit PROVE ContractInv
  OBVIOUS
<1>1. \A c \in Calls : job[c] = NoJob /\ answer[c] = NoAnswer /\ may[c] = {} /\ due[c] = {}
  BY DEF ContractInit
<1>2. \A c \in Calls : Arguments(c) /\ Seen(c) /\ Creating(c)
  BY <1>1, NoTypes DEF Arguments, Seen, Creating, Open
<1>3. QED  BY <1>2, FirstTypes DEF ContractInv

\* The arguments of a new call.
Proper(c, j) ==
  /\ j \in Job /\ j # NoJob
  /\ j.op \in Methods[table]
  /\ j.op \in Writes => j.id \in Ids
  /\ j.op \in {"create", "update"} =>
       /\ j.row.st = "stored" /\ ~j.row.used
       /\ j.row.key \subseteq Unique[table] \X Keys
  /\ j.op \in Writes \ {"create"} => rows[j.id].st # "none"
  /\ j.op = "create" =>
       rows[j.id].st = "none" /\ \A d \in Calls : job[d].op = "create" => job[d].id # j.id

\* A new row has the columns of its table.
LEMMA NewRowType ==
  ASSUME ContractTypeOK, NEW key \in [Unique[table] -> Keys], NEW owner \in Owners \cup {None},
         NEW exp \in Exps
  PROVE  /\ NewRow(key, owner, exp) \in Row
         /\ NewRow(key, owner, exp).st = "stored" /\ ~NewRow(key, owner, exp).used
         /\ NewRow(key, owner, exp).key \subseteq Unique[table] \X Keys
<1>1. Unique[table] \subseteq Columns
  BY Types DEF Unique, Columns, AllTables
<1> DEFINE keys == {<<col, key[col]>> : col \in Unique[table]}
<1>2. keys \subseteq Unique[table] \X Keys
  OBVIOUS
<1>3. keys \in SUBSET (Columns \X Keys)
  BY <1>1, <1>2
<1>4. exp \in Times
  BY StoreAssumption
<1>5. NewRow(key, owner, exp) = [st |-> "stored", key |-> keys, owner |-> owner, exp |-> exp,
                                 used |-> FALSE]
  BY DEF NewRow
<1> HIDE DEF keys
<1>6. QED  BY <1>2, <1>3, <1>4, <1>5 DEF Row

\* Every new call has proper arguments.
LEMMA CallProper ==
  ASSUME ContractTypeOK, NEW c \in Calls, AnyCall(c)
  PROVE  \E j : Proper(c, j) /\ Call(c, j)
<1>1. CASE \E i \in Ids : CallGet(c, i)
  <2>1. PICK i \in Ids : CallGet(c, i)
    BY <1>1
  <2> DEFINE j == [NoJob EXCEPT !.op = "get", !.id = i]
  <2>2. j \in Job /\ j.op = "get"
    BY NoTypes DEF NoJob, Job, AllKinds
  <2>3. Call(c, j)
    BY <2>1 DEF CallGet
  <2> HIDE DEF j
  <2>4. Proper(c, j)
    BY <2>2, <2>3, NoTypes DEF Proper, Call, Writes
  <2>5. QED  BY <2>3, <2>4
<1>2. CASE \E col \in Unique[table], k \in Keys : CallFind(c, col, k)
  <2>1. PICK col \in Unique[table], k \in Keys : CallFind(c, col, k)
    BY <1>2
  <2> DEFINE j == [NoJob EXCEPT !.op = "get", !.key = <<col, k>>]
  <2>2. col \in Columns
    BY Types DEF Unique, Columns, AllTables
  <2>3. j \in Job /\ j.op = "get"
    BY <2>2, NoTypes DEF NoJob, Job, AllKinds
  <2>4. Call(c, j)
    BY <2>1 DEF CallFind
  <2> HIDE DEF j
  <2>5. Proper(c, j)
    BY <2>3, <2>4, NoTypes DEF Proper, Call, Writes
  <2>6. QED  BY <2>4, <2>5
<1>3. ASSUME NEW i \in Ids, NEW key \in [Unique[table] -> Keys], NEW owner \in Owners \cup {None},
             NEW exp \in Exps, CallCreate(c, i, key, owner, exp)
      PROVE  \E j : Proper(c, j) /\ Call(c, j)
  <2> DEFINE new == NewRow(key, owner, exp)
             j == [NoJob EXCEPT !.op = "create", !.id = i, !.row = new]
  <2>1. new \in Row /\ new.st = "stored" /\ ~new.used /\ new.key \subseteq Unique[table] \X Keys
    BY NewRowType
  <2>2. Call(c, j)
    BY <1>3 DEF CallCreate
  <2> HIDE DEF new
  <2>3. j \in Job /\ j.op = "create" /\ j.id = i /\ j.row = new
    BY <2>1, NoTypes DEF NoJob, Job, AllKinds
  <2>4. rows[i].st = "none" /\ \A d \in Calls : ~(job[d].op = "create" /\ job[d].id = i)
    BY <1>3 DEF CallCreate
  <2> HIDE DEF j
  <2>5. Proper(c, j)
    BY <2>1, <2>2, <2>3, <2>4, NoTypes DEF Proper, Call, Writes
  <2>6. QED  BY <2>2, <2>5
<1>4. ASSUME NEW i \in Ids, NEW key \in [Unique[table] -> Keys], NEW owner \in Owners \cup {None},
             NEW exp \in Exps, CallUpdate(c, i, key, owner, exp)
      PROVE  \E j : Proper(c, j) /\ Call(c, j)
  <2> DEFINE new == NewRow(key, owner, exp)
             j == [NoJob EXCEPT !.op = "update", !.id = i, !.row = new]
  <2>1. new \in Row /\ new.st = "stored" /\ ~new.used /\ new.key \subseteq Unique[table] \X Keys
    BY NewRowType
  <2>2. Call(c, j)
    BY <1>4 DEF CallUpdate
  <2> HIDE DEF new
  <2>3. j \in Job /\ j.op = "update" /\ j.id = i /\ j.row = new
    BY <2>1, NoTypes DEF NoJob, Job, AllKinds
  <2>4. rows[i].st # "none"
    BY <1>4 DEF CallUpdate
  <2> HIDE DEF j
  <2>5. Proper(c, j)
    BY <2>1, <2>2, <2>3, <2>4, NoTypes DEF Proper, Call, Writes
  <2>6. QED  BY <2>2, <2>5
<1>5. CASE \E op \in {"consume", "delete"}, i \in Ids : CallOne(c, op, i)
  <2>1. PICK op \in {"consume", "delete"}, i \in Ids : CallOne(c, op, i)
    BY <1>5
  <2> DEFINE j == [NoJob EXCEPT !.op = op, !.id = i]
  <2>2. j \in Job /\ j.op = op /\ j.id = i
    BY NoTypes DEF NoJob, Job, AllKinds
  <2>3. Call(c, j) /\ rows[i].st # "none"
    BY <2>1 DEF CallOne
  <2> HIDE DEF j
  <2>4. Proper(c, j)
    BY <2>2, <2>3, NoTypes DEF Proper, Call, Writes
  <2>5. QED  BY <2>3, <2>4
<1>6. CASE \E owner \in Owners \cup {None}, before \in Befores \cup {None} :
             CallDeleteMany(c, owner, before)
  <2>1. PICK owner \in Owners \cup {None}, before \in Befores \cup {None} :
          CallDeleteMany(c, owner, before)
    BY <1>6
  <2> DEFINE j == [NoJob EXCEPT !.op = "delete_many", !.owner = owner, !.before = before]
  <2>2. before \in Times \cup {None}
    BY StoreAssumption
  <2>3. j \in Job /\ j.op = "delete_many"
    BY <2>2, NoTypes DEF NoJob, Job, AllKinds
  <2>4. Call(c, j)
    BY <2>1 DEF CallDeleteMany
  <2> HIDE DEF j
  <2>5. Proper(c, j)
    BY <2>3, <2>4, NoTypes DEF Proper, Call, Writes
  <2>6. QED  BY <2>4, <2>5
<1>7. QED  BY <1>1, <1>2, <1>3, <1>4, <1>5, <1>6 DEF AnyCall

\* A new call finds the invariant and leaves it.
LEMMA CallKeeps ==
  ASSUME ContractInv, NEW c \in Calls, NEW j, Proper(c, j), Call(c, j)
  PROVE  ContractInv'
<1>1. /\ ContractTypeOK /\ table' = table /\ rows' = rows /\ answer' = answer
      /\ job[c] = NoJob /\ job' = [job EXCEPT ![c] = j]
      /\ may' = [may EXCEPT ![c] = Answers(j, rows)]
      /\ due' = [due EXCEPT ![c] = IF j.op = "delete_many" THEN Matching(j, rows) ELSE {}]
  BY DEF ContractInv, Call
<1>2. j \in Job /\ j # NoJob
  BY DEF Proper
<1>3. Answers(j, rows) \subseteq Answer /\ Matching(j, rows) \subseteq Ids
  BY <1>1, <1>2, AnswersType, Types DEF Matching
<1>4. ContractTypeOK'
  BY <1>1, <1>2, <1>3 DEF ContractTypeOK
<1>5. /\ job'[c] = j /\ answer'[c] = answer[c] /\ may'[c] = Answers(j, rows)
      /\ due'[c] \subseteq Matching(j, rows)
      /\ \A d \in Calls \ {c} :
           job'[d] = job[d] /\ answer'[d] = answer[d] /\ may'[d] = may[d] /\ due'[d] = due[d]
  BY <1>1, Types
<1>6. answer[c] = NoAnswer
  BY <1>1 DEF ContractInv, Seen
<1>7. ASSUME NEW d \in Calls
      PROVE  Arguments(d)'
  <2>1. Arguments(d)
    BY DEF ContractInv
  <2>2. CASE d = c
    BY <1>1, <1>5, <2>2 DEF Arguments, Proper
  <2>3. QED  BY <1>1, <1>5, <2>1, <2>2 DEF Arguments
<1>8. ASSUME NEW d \in Calls
      PROVE  Seen(d)'
  <2>1. Seen(d)
    BY DEF ContractInv
  <2>2. CASE d = c
    BY <1>1, <1>2, <1>5, <1>6, <2>2 DEF Seen, Open
  <2>3. CASE d # c
    BY <1>1, <1>5, <2>1, <2>3 DEF Seen, Open
  <2>4. QED  BY <2>2, <2>3
<1>9. ASSUME NEW d \in Calls
      PROVE  Creating(d)'
  <2>1. Creating(d)
    BY DEF ContractInv
  <2>2. CASE d = c
    <3>1. j.op = "create" =>
            rows[j.id].st = "none" /\ \A e \in Calls : job[e].op = "create" => job[e].id # j.id
      BY DEF Proper
    <3>2. QED  BY <1>1, <1>5, <2>2, <3>1 DEF Creating, Open
  <2>3. CASE d # c
    <3>1. j.op = "create" => \A e \in Calls : job[e].op = "create" => job[e].id # j.id
      BY DEF Proper
    <3>2. QED  BY <1>1, <1>5, <2>1, <2>3, <3>1 DEF Creating, Open
  <2>4. QED  BY <2>2, <2>3
<1>10. QED  BY <1>4, <1>7, <1>8, <1>9 DEF ContractInv

\* What a call in flight may do to the table: it changes its own row, or deletes some.
Acts(c, a) ==
  /\ Open(c)
  /\ rows' \in [Ids -> Row]
  /\ \A i \in Ids : rows[i].st # "none" => rows'[i].st # "none"
  /\ \A i \in Ids : rows'[i] # rows[i] =>
       rows[i].st # "none" \/ (job[c].op = "create" /\ job[c].id = i /\ a # NoAnswer)
  /\ a \in Answer /\ answer' = [answer EXCEPT ![c] = a]
  /\ Observe
  /\ UNCHANGED <<table, job>>

\* Whatever calls see is well typed.
LEMMA ObserveTypes ==
  ASSUME ContractTypeOK, rows' \in [Ids -> Row], answer' \in [Calls -> Answer], Observe,
         UNCHANGED <<table, job>>
  PROVE  ContractTypeOK'
<1>1. PICK t \in [Ids -> Row] : t = rows'
  OBVIOUS
<1>2. ASSUME NEW d \in Calls
      PROVE  /\ Answers(job[d], rows') \subseteq Answer
             /\ Matching(job[d], rows') \subseteq Ids
  <2>1. Answers(job[d], t) \subseteq Answer /\ Matching(job[d], t) \subseteq Ids
    BY AnswersType, Types DEF Matching
  <2>2. QED  BY <1>1, <2>1
<1>3. may' \in [Calls -> SUBSET Answer]
  <2>1. \A d \in Calls : may[d] \subseteq Answer
    BY Types
  <2>2. QED  BY <1>2, <2>1 DEF Observe
<1>4. due' \in [Calls -> SUBSET Ids]
  <2>1. \A d \in Calls : due[d] \subseteq Ids
    BY Types
  <2>2. QED  BY <1>2, <2>1 DEF Observe
<1>5. QED  BY <1>3, <1>4, Types DEF ContractTypeOK

\* What a call does leaves the invariant.
LEMMA ActKeeps ==
  ASSUME ContractInv, NEW c \in Calls, NEW a, Acts(c, a)
  PROVE  ContractInv'
<1>1. /\ ContractTypeOK /\ table' = table /\ job' = job
      /\ answer' \in [Calls -> Answer] /\ answer'[c] = a
      /\ \A d \in Calls \ {c} : answer'[d] = answer[d]
  BY Types DEF ContractInv, Acts
<1>2. ContractTypeOK'
  BY <1>1, ObserveTypes DEF Acts
<1>3. ASSUME NEW d \in Calls
      PROVE  Arguments(d)'
  <2>1. Arguments(d)
    BY DEF ContractInv
  <2>2. \A i \in Ids : rows[i].st # "none" => rows'[i].st # "none"
    BY DEF Acts
  <2>3. QED  BY <1>1, <2>1, <2>2 DEF Arguments, Writes
<1>4. ASSUME NEW d \in Calls
      PROVE  Seen(d)'
  <2>1. Seen(d) /\ Open(c)
    BY DEF ContractInv, Acts
  <2>2. /\ may'[d] = IF Waits(d) THEN may[d] \cup Answers(job[d], rows') ELSE {}
        /\ due'[d] = IF Waits(d) THEN due[d] \cap Matching(job[d], rows') ELSE {}
    BY DEF Acts, Observe
  <2>3. Open(d)' <=> Waits(d)
    BY <1>1 DEF Open, Waits
  <2>4. job[d] = NoJob => answer'[d] = NoAnswer
    BY <1>1, <2>1 DEF Seen, Open
  <2>5. QED  BY <1>1, <2>2, <2>3, <2>4 DEF Seen
<1>5. ASSUME NEW d \in Calls
      PROVE  Creating(d)'
  <2>1. Creating(d) /\ Creating(c) /\ Arguments(d)
    BY DEF ContractInv
  <2>2. SUFFICES ASSUME job[d].op = "create" PROVE Open(d)' => rows'[job[d].id].st = "none"
    BY <1>1, <2>1 DEF Creating
  <2>3. Open(d)' => Open(d)
    BY <1>1 DEF Open, Acts
  <2>4. job[d].id \in Ids
    BY <2>1, <2>2, NoTypes DEF Arguments, Writes
  <2>5. Open(d)' => ~(job[c].op = "create" /\ job[c].id = job[d].id /\ a # NoAnswer)
    BY <1>1, <2>1, <2>2 DEF Creating, Open
  <2>6. QED  BY <2>1, <2>2, <2>3, <2>4, <2>5 DEF Creating, Acts
<1>6. QED  BY <1>2, <1>3, <1>4, <1>5 DEF ContractInv

\* A change is one of its own row.
LEMMA ChangeActs ==
  ASSUME ContractInv, NEW c \in Calls, Change(c)
  PROVE  /\ \E a : a \in {Plain("ok"), Plain("error")} /\ Acts(c, a)
         /\ \E new \in Changed(job[c], rows) : rows' = [rows EXCEPT ![job[c].id] = new]
         /\ job[c].op \in Writes /\ job[c].id \in Ids
<1>1. ContractTypeOK /\ Arguments(c) /\ Open(c)
  BY DEF ContractInv, Change
<1>2. PICK new \in Changed(job[c], rows) : rows' = [rows EXCEPT ![job[c].id] = new]
  BY DEF Change
<1>3. PICK a \in {Plain("ok"), Plain("error")} : answer' = [answer EXCEPT ![c] = a]
  BY DEF Change, Reply
<1>4. a \in Answer /\ a # NoAnswer
  BY PlainType DEF Codes
<1> DEFINE j == job[c]
<1>5. j \in Job /\ j.op \in Writes
  BY <1>1, Types, ChangedOf DEF Writes
<1>6. j.id \in Ids /\ j.row.st \in {"none", "stored", "gone"}
  BY <1>1, <1>5 DEF Arguments, Open, Job, Row
<1>7. new \in Row /\ new.st \in {"stored", "gone"} \cup {j.row.st, rows[j.id].st}
  BY <1>1, <1>5, <1>6, Types, ChangedType
<1>8. \/ j.op = "create" /\ rows[j.id].st = "none"
      \/ j.op # "create" /\ rows[j.id].st # "none"
  BY <1>1, <1>5, ChangedOf DEF Arguments, Open, Writes
<1>9. rows' \in [Ids -> Row]
  BY <1>1, <1>2, <1>7, Types
<1>10. \A i \in Ids : rows[i].st # "none" => rows'[i].st # "none"
  <2>1. ASSUME NEW i \in Ids, rows[i].st # "none" PROVE rows'[i].st # "none"
    <3>1. CASE i # j.id
      BY <1>1, <1>2, <2>1, <3>1, Types
    <3>2. CASE i = j.id
      <4>1. rows'[i] = new /\ j.op # "create"
        BY <1>1, <1>2, <1>8, <2>1, <3>2, Types
      <4>2. j.op = "update" => j.row.st = "stored"
        BY <1>1 DEF Arguments, Open
      <4>3. j.op = "update" => new.st = "stored"
        <5>1. j.op = "update" => new \in Kept(j.row)
          BY ChangedOf
        <5>2. j.row \in Row
          BY <1>5 DEF Job
        <5>3. new \in Kept(j.row) => new.st = j.row.st
          BY <5>2 DEF Kept, Row
        <5>4. QED  BY <4>2, <5>1, <5>3
      <4>4. j.op = "consume" => new = [rows[j.id] EXCEPT !.used = TRUE]
        BY ChangedOf
      <4>5. j.op = "delete" => new = [rows[j.id] EXCEPT !.st = "gone"]
        BY ChangedOf
      <4>6. rows[j.id] \in Row
        BY <1>1, <1>6, Types
      <4>7. QED  BY <1>5, <1>8, <2>1, <3>2, <4>1, <4>3, <4>4, <4>5, <4>6 DEF Writes, Row
    <3>3. QED  BY <3>1, <3>2
  <2>2. QED  BY <2>1
<1>11. \A i \in Ids : rows'[i] # rows[i] => i = j.id
  BY <1>1, <1>2, Types
<1>12. Acts(c, a)
  BY <1>1, <1>3, <1>4, <1>8, <1>9, <1>10, <1>11 DEF Acts, Change
<1>13. QED  BY <1>2, <1>5, <1>6, <1>12

\* A deletion of some rows.
LEMMA DeleteActs ==
  ASSUME ContractInv, NEW c \in Calls, DeleteSome(c)
  PROVE  /\ \E a : Acts(c, a)
         /\ job[c].op = "delete_many"
         /\ rows' \in [Ids -> Row]
         /\ \A i \in Ids : rows'[i] = rows[i] \/ rows'[i] = [rows[i] EXCEPT !.st = "gone"]
<1>1. ContractTypeOK /\ Open(c) /\ job[c].op = "delete_many"
  BY DEF ContractInv, DeleteSome
<1>2. PICK ids \in SUBSET Matching(job[c], rows) :
        rows' = [i \in Ids |-> IF i \in ids THEN [rows[i] EXCEPT !.st = "gone"] ELSE rows[i]]
  BY DEF DeleteSome, Remove
<1>3. \A i \in Ids : rows[i] \in Row /\ [rows[i] EXCEPT !.st = "gone"] \in Row
  BY <1>1, Types DEF Row
<1>4. rows' \in [Ids -> Row]
  BY <1>2, <1>3
<1>5. \A i \in Ids : rows'[i] = IF i \in ids THEN [rows[i] EXCEPT !.st = "gone"] ELSE rows[i]
  BY <1>2
<1>6. \A i \in Ids : rows[i].st # "none" => rows'[i].st # "none"
  BY <1>3, <1>5 DEF Row
<1>7. \A i \in ids : rows[i].st # "none"
  BY <1>2 DEF Matching, Matches
<1>8. \A i \in Ids : rows'[i] # rows[i] => rows[i].st # "none"
  BY <1>5, <1>7
<1>9. PICK a : a \in Answer /\ answer' = [answer EXCEPT ![c] = a]
  <2>1. CASE UNCHANGED answer
    <3>1. answer' = [answer EXCEPT ![c] = answer[c]] /\ answer[c] \in Answer
      BY <1>1, <2>1, Types
    <3>2. QED  BY <3>1
  <2>2. CASE Reply(c, Plain("error"))
    BY <2>2, PlainType DEF Reply, Codes
  <2>3. CASE Reply(c, Plain("ok"))
    BY <2>3, PlainType DEF Reply, Codes
  <2>4. QED  BY <2>1, <2>2, <2>3 DEF DeleteSome
<1>10. Acts(c, a)
  BY <1>1, <1>4, <1>6, <1>8, <1>9 DEF Acts, DeleteSome
<1>11. QED  BY <1>1, <1>4, <1>5, <1>10

\* An answer without a change.
LEMMA ReturnActs ==
  ASSUME ContractInv, NEW c \in Calls, Return(c)
  PROVE  \E a \in may[c] \cup {Plain("error")} : Acts(c, a)
<1>1. ContractTypeOK /\ Open(c) /\ rows' = rows
  BY DEF ContractInv, Return
<1>2. PICK a \in may[c] \cup {Plain("error")} : answer' = [answer EXCEPT ![c] = a]
  BY DEF Return, Reply
<1>3. a \in Answer
  BY <1>1, PlainType, Types DEF Codes
<1>4. QED  BY <1>1, <1>2, <1>3, Types DEF Acts, Return

\* Every step of the contract.
LEMMA ContractKeeps ==
  ASSUME ContractInv, [ContractNext]_contract
  PROVE  ContractInv'
<1>1. ASSUME NEW c \in Calls, AnyCall(c)
      PROVE  ContractInv'
  <2>1. \E j : Proper(c, j) /\ Call(c, j)
    BY <1>1, CallProper DEF ContractInv
  <2>2. QED  BY <2>1, CallKeeps
<1>2. ASSUME NEW c \in Calls, Change(c) \/ DeleteSome(c) \/ Return(c)
      PROVE  ContractInv'
  <2>1. \E a : Acts(c, a)
    BY <1>2, ChangeActs, DeleteActs, ReturnActs
  <2>2. QED  BY <2>1, ActKeeps
<1>3. CASE UNCHANGED contract
  BY <1>3 DEF contract, ContractInv, ContractTypeOK, Arguments, Seen, Creating, Open, Matching, Answers
<1>4. QED  BY <1>1, <1>2, <1>3 DEF ContractNext

\* What a store does keeps the values of unique columns apart.
LEMMA UniqueStep ==
  ASSUME ContractInv, UniqueKeys, [ContractNext]_contract
  PROVE  UniqueKeys'
<1>1. rows \in [Ids -> Row]
  BY Types DEF ContractInv
<1>2. ASSUME NEW c \in Calls, Change(c)
      PROVE  UniqueKeys'
  <2> DEFINE j == job[c]
  <2>1. PICK new \in Changed(j, rows) : rows' = [rows EXCEPT ![j.id] = new]
    BY <1>2, ChangeActs
  <2>2. j.op \in Writes /\ j.id \in Ids
    BY <1>2, ChangeActs
  <2>3. rows[j.id] \in Row /\ j.row \in Row
    BY <1>1, <2>2, Types DEF ContractInv, Job
  <2>4. CASE /\ new.key = j.row.key
             /\ ~Shares(rows, j.row.key, j.id)
    <3>1. \A i \in Ids \ {j.id} : rows[i].st = "stored" => rows[i].key \cap new.key = {}
      BY <2>4 DEF Shares
    <3>2. \A i \in Ids : rows'[i] = IF i = j.id THEN new ELSE rows[i]
      BY <1>1, <2>1, <2>2
    <3>3. QED  BY <3>1, <3>2 DEF UniqueKeys
  <2>5. CASE /\ new.key = rows[j.id].key
             /\ new.st = "stored" => rows[j.id].st = "stored"
    <3>1. \A i \in Ids : rows'[i] = IF i = j.id THEN new ELSE rows[i]
      BY <1>1, <2>1, <2>2
    <3>2. QED  BY <2>5, <3>1 DEF UniqueKeys
  <2>6. ASSUME new \in Kept(j.row)
        PROVE  new.key = j.row.key
    BY <2>3, <2>6 DEF Kept, Row
  <2>7. Plain("duplicate") # Plain("ok")
    BY DEF Plain
  <2>8. CASE j.op = "create" /\ CreateAnswers(j, rows) = {} /\ new \in Kept(j.row)
    BY <2>4, <2>6, <2>8 DEF CreateAnswers
  <2>9. CASE j.op = "update" /\ UpdateAnswers(j, rows) \subseteq {Plain("ok")} /\ new \in Kept(j.row)
    <3>1. Plain("not_found") # Plain("ok")
      BY DEF Plain
    <3>2. QED  BY <2>4, <2>6, <2>7, <2>9, <3>1 DEF UpdateAnswers
  <2>10. CASE j.op = "consume" /\ new = [rows[j.id] EXCEPT !.used = TRUE]
    BY <2>3, <2>5, <2>10 DEF Row
  <2>11. CASE j.op = "delete" /\ new = [rows[j.id] EXCEPT !.st = "gone"]
    BY <2>3, <2>5, <2>11 DEF Row
  <2>12. QED  BY <2>8, <2>9, <2>10, <2>11, ChangedOf
<1>3. ASSUME NEW c \in Calls, DeleteSome(c)
      PROVE  UniqueKeys'
  <2>1. \A i \in Ids : rows'[i] = rows[i] \/ rows'[i] = [rows[i] EXCEPT !.st = "gone"]
    BY <1>3, DeleteActs
  <2>2. \A i \in Ids : [rows[i] EXCEPT !.st = "gone"].st = "gone"
    <3>1. \A i \in Ids : rows[i] \in Row
      BY <1>1
    <3>2. QED  BY <3>1 DEF Row
  <2>3. \A i \in Ids : rows'[i].st = "stored" => rows'[i] = rows[i]
    BY <2>1, <2>2
  <2>4. QED  BY <2>3 DEF UniqueKeys
<1>4. ASSUME NEW c \in Calls, AnyCall(c)
      PROVE  UniqueKeys'
  <2>1. UNCHANGED rows
    BY <1>4, CallProper DEF Call, ContractInv
  <2>2. QED  BY <2>1 DEF UniqueKeys
<1>5. ASSUME NEW c \in Calls, Return(c)
      PROVE  UniqueKeys'
  BY <1>5 DEF UniqueKeys, Return
<1>6. CASE UNCHANGED contract
  BY <1>6 DEF contract, UniqueKeys
<1>7. QED  BY <1>2, <1>3, <1>4, <1>5, <1>6 DEF ContractNext

\* The rows at first differ in every column.
LEMMA UniqueInit == ContractInit => UniqueKeys
<1> SUFFICES ASSUME ContractInit, NEW i \in Ids, NEW j \in Ids,
                    rows[i].st = "stored", rows[j].st = "stored", i # j
             PROVE  rows[i].key \cap rows[j].key = {}
  BY DEF UniqueKeys
<1>1. \A n \in Ids : n \in Existing => rows[n].key = {<<col, SeedKey[n]>> : col \in Unique[table]}
  BY DEF ContractInit
<1>2. \A n \in Ids : n \notin Existing => rows[n].st = "none"
  BY DEF ContractInit, NoRow
<1>3. i \in Existing /\ j \in Existing
  BY <1>2
<1>4. SeedKey[i] # SeedKey[j]
  BY <1>3, StoreAssumption
<1>5. QED  BY <1>1, <1>3, <1>4

\* A code for which a call was told that it consumed it is used.
Spent(c) ==
  job[c].op = "consume" =>
    /\ \A a \in may[c] : a.code # "ok"
    /\ answer[c].code = "ok" => rows[job[c].id].used

OnceInv == ConsumedOnce /\ \A c \in Calls : Spent(c)

\* Codes are consumed, and never updated.
LEMMA OnlyCodes ==
  ASSUME ContractInv, NEW c \in Calls, job[c].op = "consume"
  PROVE  /\ table = "codes" /\ job[c].id \in Ids /\ rows[job[c].id].st # "none"
         /\ \A d \in Calls : job[d].op # "update"
<1>1. table \in AllTables
  BY Types DEF ContractInv
<1>2. \A d \in Calls : Arguments(d)
  BY DEF ContractInv
<1>3. \A d \in Calls : job[d].op # "none" => job[d].op \in Methods[table]
  BY <1>2, NoTypes DEF Arguments
<1>4. table = "codes"
  BY <1>1, <1>3 DEF AllTables, Methods, ClientStore, UserStore, AccessTokenStore, RefreshTokenStore,
                    UserTokenStore
<1>5. "update" \notin Methods["codes"]
  BY DEF Methods, AuthorizationCodeStore
<1>6. QED  BY <1>2, <1>3, <1>4, <1>5, NoTypes DEF Arguments, Writes

\* Nobody is told to have consumed a code when nothing was changed.
LEMMA NotConsumed ==
  ASSUME NEW j, NEW t, j.op = "consume", NEW a \in Answers(j, t)
  PROVE  a.code # "ok"
<1>1. a \in ConsumeAnswers(j, t)
  BY AnswersOf
<1>2. a \in {Plain("not_found"), Plain("conflict")}
  BY <1>1 DEF ConsumeAnswers
<1>3. QED  BY <1>2 DEF Plain

\* What a call does leaves used codes used.
LEMMA StaysUsed ==
  ASSUME ContractInv, NEW c \in Calls, Change(c) \/ DeleteSome(c) \/ Return(c),
         NEW d \in Calls, job[d].op = "consume", rows[job[d].id].used
  PROVE  rows'[job[d].id].used
<1> DEFINE i == job[d].id
<1>1. i \in Ids /\ rows[i].st # "none" /\ job[c].op # "update" /\ rows \in [Ids -> Row]
  BY OnlyCodes, Types DEF ContractInv
<1>2. rows[i] \in Row
  BY <1>1
<1>3. CASE Change(c)
  <2> DEFINE j == job[c]
  <2>1. PICK new \in Changed(j, rows) : rows' = [rows EXCEPT ![j.id] = new]
    BY <1>3, ChangeActs
  <2>2. j.id \in Ids
    BY <1>3, ChangeActs
  <2>3. CASE j.id # i
    BY <1>1, <2>1, <2>2, <2>3
  <2>4. CASE j.id = i
    <3>1. new = [rows[i] EXCEPT !.used = TRUE] \/ new = [rows[i] EXCEPT !.st = "gone"]
      BY <1>1, <2>4, ChangedOf
    <3>2. rows'[i] = new
      BY <1>1, <2>1, <2>2, <2>4
    <3>3. QED  BY <1>2, <3>1, <3>2 DEF Row
  <2>5. QED  BY <2>3, <2>4
<1>4. CASE DeleteSome(c)
  <2>1. rows'[i] = rows[i] \/ rows'[i] = [rows[i] EXCEPT !.st = "gone"]
    BY <1>1, <1>4, DeleteActs
  <2>2. QED  BY <1>2, <2>1 DEF Row
<1>5. CASE Return(c)
  BY <1>5 DEF Return
<1>6. QED  BY <1>3, <1>4, <1>5

\* A call that is told to have consumed a code has found it unused.
LEMMA ToldOnce ==
  ASSUME ContractInv, OnceInv, NEW c \in Calls, Change(c) \/ DeleteSome(c) \/ Return(c),
         NEW d \in Calls, job[d].op = "consume", answer'[d].code = "ok"
  PROVE  \/ answer'[d] = answer[d] /\ answer[d].code = "ok"
         \/ /\ d = c /\ ~rows[job[d].id].used /\ rows'[job[d].id].used
<1>1. PICK a : Acts(c, a)
  BY ChangeActs, DeleteActs, ReturnActs
<1>2. answer' = [answer EXCEPT ![c] = a] /\ answer \in [Calls -> Answer]
  BY <1>1, Types DEF Acts, ContractInv
<1>3. CASE d # c
  BY <1>2, <1>3
<1>4. CASE d = c /\ Change(c)
  <2> DEFINE j == job[c]
  <2>1. PICK new \in Changed(j, rows) : rows' = [rows EXCEPT ![j.id] = new]
    BY <1>4, ChangeActs
  <2>2. new = [rows[j.id] EXCEPT !.used = TRUE] /\ ConsumeAnswers(j, rows) = {}
    BY <1>4, ChangedOf
  <2>3. ~rows[j.id].used
    BY <2>2 DEF ConsumeAnswers
  <2>4. j.id \in Ids /\ rows \in [Ids -> Row]
    BY <1>4, OnlyCodes, Types DEF ContractInv
  <2>5. rows[j.id] \in Row /\ rows'[j.id] = new
    BY <2>1, <2>4
  <2>6. new.used
    BY <2>2, <2>5 DEF Row
  <2>7. QED  BY <1>4, <2>3, <2>5, <2>6
<1>5. CASE d = c /\ DeleteSome(c)
  BY <1>5, DeleteActs
<1>6. CASE d = c /\ Return(c)
  <2>1. PICK b \in may[c] \cup {Plain("error")} : answer' = [answer EXCEPT ![c] = b]
    BY <1>6 DEF Return, Reply
  <2>2. answer'[c] = b
    BY <1>2, <2>1
  <2>3. b.code # "ok"
    BY <1>6, <2>1 DEF OnceInv, Spent, Plain
  <2>4. QED  BY <1>6, <2>2, <2>3
<1>7. QED  BY <1>3, <1>4, <1>5, <1>6

\* Every step of the contract lets a code be consumed once.
LEMMA OnceStep ==
  ASSUME ContractInv, OnceInv, [ContractNext]_contract
  PROVE  OnceInv'
<1>1. ASSUME NEW c \in Calls, Change(c) \/ DeleteSome(c) \/ Return(c)
      PROVE  OnceInv'
  <2>1. PICK a : Acts(c, a)
    BY <1>1, ChangeActs, DeleteActs, ReturnActs
  <2>2. job' = job
    BY <2>1 DEF Acts
  <2>3. ASSUME NEW d \in Calls
        PROVE  Spent(d)'
    <3>1. SUFFICES ASSUME job[d].op = "consume"
                   PROVE  /\ \A b \in may'[d] : b.code # "ok"
                          /\ answer'[d].code = "ok" => rows'[job[d].id].used
      BY <2>2 DEF Spent
    <3>2. \A b \in may'[d] : b.code # "ok"
      <4>1. may'[d] = IF Waits(d) THEN may[d] \cup Answers(job[d], rows') ELSE {}
        BY <2>1 DEF Acts, Observe
      <4>2. \A b \in Answers(job[d], rows') : b.code # "ok"
        <5>1. PICK t : t = rows'
          OBVIOUS
        <5>2. \A b \in Answers(job[d], t) : b.code # "ok"
          BY <3>1, NotConsumed
        <5>3. QED  BY <5>1, <5>2
      <4>3. QED  BY <3>1, <4>1, <4>2 DEF OnceInv, Spent
    <3>3. ASSUME answer'[d].code = "ok"
          PROVE  rows'[job[d].id].used
      <4>1. CASE answer[d].code = "ok"
        BY <1>1, <3>1, <4>1, StaysUsed DEF OnceInv, Spent
      <4>2. CASE answer[d].code # "ok"
        BY <1>1, <3>1, <3>3, <4>2, ToldOnce
      <4>3. QED  BY <4>1, <4>2
    <3>4. QED  BY <3>2, <3>3
  <2>4. ASSUME NEW d \in Calls, NEW e \in Calls,
               job[d].op = "consume", job[e].op = "consume", job[d].id = job[e].id,
               answer'[d].code = "ok", answer'[e].code = "ok"
        PROVE  d = e
    <3>1. /\ answer[d].code = "ok" \/ (d = c /\ ~rows[job[d].id].used)
          /\ answer[e].code = "ok" \/ (e = c /\ ~rows[job[e].id].used)
      BY <1>1, <2>4, ToldOnce
    <3>2. /\ answer[d].code = "ok" => rows[job[d].id].used
          /\ answer[e].code = "ok" => rows[job[e].id].used
      BY <2>4 DEF OnceInv, Spent
    <3>3. CASE answer[d].code = "ok" /\ answer[e].code = "ok"
      BY <2>4, <3>3 DEF OnceInv, ConsumedOnce
    <3>4. QED  BY <2>4, <3>1, <3>2, <3>3
  <2>5. QED  BY <2>2, <2>3, <2>4 DEF OnceInv, ConsumedOnce
<1>2. ASSUME NEW c \in Calls, AnyCall(c)
      PROVE  OnceInv'
  <2>1. PICK j : Proper(c, j) /\ Call(c, j)
    BY <1>2, CallProper DEF ContractInv
  <2>2. /\ job' = [job EXCEPT ![c] = j] /\ rows' = rows /\ answer' = answer /\ job[c] = NoJob
        /\ may' = [may EXCEPT ![c] = Answers(j, rows)]
    BY <2>1 DEF Call
  <2>3. /\ job'[c] = j /\ may'[c] = Answers(j, rows) /\ answer[c].code # "ok"
        /\ \A d \in Calls \ {c} : job'[d] = job[d] /\ may'[d] = may[d]
    BY <2>2, Types DEF ContractInv, Seen, NoAnswer, Plain
  <2>4. ASSUME NEW d \in Calls
        PROVE  Spent(d)'
    <3>1. CASE d = c
      BY <2>2, <2>3, <3>1, NotConsumed DEF Spent
    <3>2. CASE d # c
      BY <2>2, <2>3, <3>2 DEF OnceInv, Spent
    <3>3. QED  BY <3>1, <3>2
  <2>5. ConsumedOnce'
    BY <2>2, <2>3 DEF OnceInv, ConsumedOnce
  <2>6. QED  BY <2>4, <2>5 DEF OnceInv
<1>3. CASE UNCHANGED contract
  BY <1>3 DEF contract, OnceInv, ConsumedOnce, Spent
<1>4. QED  BY <1>1, <1>2, <1>3 DEF ContractNext

\* At first no call is answered.
LEMMA OnceInit == ContractInit => OnceInv
<1> SUFFICES ASSUME ContractInit PROVE OnceInv
  OBVIOUS
<1>1. \A c \in Calls : job[c].op = "none"
  BY NoTypes DEF ContractInit
<1>2. QED  BY <1>1 DEF OnceInv, ConsumedOnce, Spent

\* The invariants hold for every behaviour of the contract.
LEMMA ContractAlways == ContractSpec => [](ContractInv /\ UniqueKeys /\ OnceInv)
<1>1. ContractInit => ContractInv /\ UniqueKeys /\ OnceInv
  BY ContractInvInit, UniqueInit, OnceInit
<1>2. ContractInv /\ UniqueKeys /\ OnceInv /\ [ContractNext]_contract
        => (ContractInv /\ UniqueKeys /\ OnceInv)'
  BY ContractKeeps, UniqueStep, OnceStep
<1>3. QED  BY <1>1, <1>2, PTL DEF ContractSpec

\* The contract lets no two rows have the same value in a unique column.
THEOREM ContractUnique == ContractSpec => []UniqueKeys
BY ContractAlways, PTL

\* The contract tells one call at most that it has consumed a code.
THEOREM ContractConsumed == ContractSpec => []ConsumedOnce
<1>1. OnceInv => ConsumedOnce
  BY DEF OnceInv
<1>2. QED  BY <1>1, ContractAlways, PTL

(***************************************************************************)
(* The stores                                                              *)
(***************************************************************************)

\* The method that a statement is part of.
Runs(l, op) ==
  /\ l \in {"select", "find_one"} => op = "get"
  /\ l \in {"insert", "insert_one"} => op = "create"
  /\ l \in {"update", "replace_one"} => op = "update"
  /\ l \in {"update_unconsumed", "update_one", "count_documents"} => op = "consume"
  /\ l = "select_one" => op \in {"update", "consume"}
  /\ l \in {"delete", "delete_one"} => op = "delete"
  /\ l \in {"delete_where", "commit", "delete_many", "delete_next"} => op = "delete_many"

\* What the first statement of a call has found out.
Told(c) ==
  /\ pc[c] = "select_one" /\ job[c].op = "update" =>
       Plain("ok") \in may[c] \/ rows[job[c].id].st = "gone"
  /\ pc[c] \in {"select_one", "count_documents"} /\ job[c].op = "consume" =>
       Plain("conflict") \in may[c] \/ rows[job[c].id].st = "gone"
  /\ pc[c] \in {"commit", "delete_next"} => due[c] \subseteq scan[c]

Running(c) == pc[c] \notin {"idle", "done"} => Open(c) /\ Runs(pc[c], job[c].op)

\* MongoDB has no instant that it would keep as another one.
Rounded == backend = "mongo" => \A i \in Ids : DBTime[rows[i].exp] = rows[i].exp

StoreInv ==
  /\ TypeOK
  /\ ContractInv
  /\ \A c \in Calls : Running(c) /\ Told(c)
  /\ Rounded

\* The call c is in flight, and all calls look at the table.
Frame(c) == Open(c) /\ Observe /\ UNCHANGED <<table, job>>

\* The call answers, or its connection is lost.
Says(c, a) == Finish(c, a) \/ Answered(c, "error")

\* The call is over.
Ends(c) ==
  /\ pc' = [pc EXCEPT ![c] = "done"]
  /\ scan' = scan \/ scan' = [scan EXCEPT ![c] = {}]

\* A deletion has come to the next row, which does not match afterwards.
GoesOn(c) ==
  /\ pc[c] = "delete_next" /\ pc' = pc /\ answer' = answer
  /\ \E i \in Ids : scan' = [scan EXCEPT ![c] = @ \ {i}] /\ ~Matches(job[c], rows'[i])

\* A statement that changes nothing, after which the call goes on to statement l.
Pass(c, l) ==
  /\ Frame(c) /\ UNCHANGED <<rows, answer>>
  /\ l \in SqlStatements \cup MongoCommands
  /\ pc' = [pc EXCEPT ![c] = l]
  /\ Runs(l, job[c].op)
  /\ l = "select_one" /\ job[c].op = "update" =>
       Plain("ok") \in may[c] \/ rows[job[c].id].st = "gone"
  /\ l \in {"select_one", "count_documents"} /\ job[c].op = "consume" =>
       Plain("conflict") \in may[c] \/ rows[job[c].id].st = "gone"
  /\ \/ l \in {"select_one", "count_documents"} /\ scan' = scan
     \/ l \in {"commit", "delete_next"} /\ scan' = [scan EXCEPT ![c] = Matching(job[c], rows)]

\* What a statement amounts to.
Outcome(c) ==
  \/ (Change(c) \/ Return(c)) /\ Ends(c)
  \/ DeleteSome(c) /\ (Ends(c) \/ GoesOn(c))
  \/ \E l : Pass(c, l)

\* A call that answers.
LEMMA SaysEnds ==
  ASSUME NEW c \in Calls, NEW a, Says(c, a),
         UNCHANGED scan \/ scan' = [scan EXCEPT ![c] = {}]
  PROVE  Ends(c) /\ (Reply(c, a) \/ Reply(c, Plain("error")))
BY DEF Says, Finish, Answered, Goto, Ends

\* An answer that is right at this instant.
LEMMA Answering ==
  ASSUME ContractInv, NEW c \in Calls, Frame(c), NEW a \in Answers(job[c], rows), Says(c, a),
         UNCHANGED <<rows, scan>>
  PROVE  Outcome(c)
<1>1. a \in may[c]
  BY DEF ContractInv, Seen, Frame
<1>2. Ends(c) /\ (Reply(c, a) \/ Reply(c, Plain("error")))
  BY SaysEnds
<1>3. Return(c)
  BY <1>1, <1>2 DEF Return, Frame
<1>4. QED  BY <1>2, <1>3 DEF Outcome

\* An answer that was right at an earlier instant.
LEMMA AnsweringLate ==
  ASSUME NEW c \in Calls, Frame(c), NEW a \in may[c], Says(c, a), UNCHANGED <<rows, scan>>
  PROVE  Outcome(c)
<1>1. Ends(c) /\ (Reply(c, a) \/ Reply(c, Plain("error")))
  BY SaysEnds
<1>2. Return(c)
  BY <1>1 DEF Return, Frame
<1>3. QED  BY <1>1, <1>2 DEF Outcome

\* A failure.
LEMMA Failing ==
  ASSUME NEW c \in Calls, Frame(c), Answered(c, "error"), UNCHANGED rows,
         UNCHANGED scan \/ scan' = [scan EXCEPT ![c] = {}]
  PROVE  Outcome(c)
<1>1. Ends(c) /\ Reply(c, Plain("error"))
  BY SaysEnds DEF Says, Answered
<1>2. Return(c)
  BY <1>1 DEF Return, Frame
<1>3. QED  BY <1>1, <1>2 DEF Outcome

\* A change.
LEMMA Changing ==
  ASSUME NEW c \in Calls, Frame(c), NEW new \in Changed(job[c], rows), Put(job[c].id, new),
         Says(c, Plain("ok")), UNCHANGED scan
  PROVE  Outcome(c)
<1>1. Ends(c) /\ (Reply(c, Plain("ok")) \/ Reply(c, Plain("error")))
  BY SaysEnds
<1>2. Change(c)
  BY <1>1 DEF Change, Frame, Put
<1>3. QED  BY <1>1, <1>2 DEF Outcome

\* The changes of each method, the other way round.
LEMMA MayChange ==
  ASSUME NEW j, NEW t, NEW new
  PROVE  /\ j.op = "create" /\ t[j.id].st = "none" /\ CreateAnswers(j, t) = {} /\ new \in Kept(j.row)
              => new \in Changed(j, t)
         /\ j.op = "update" /\ UpdateAnswers(j, t) \subseteq {Plain("ok")} /\ new \in Kept(j.row)
              => new \in Changed(j, t)
         /\ j.op = "consume" /\ ConsumeAnswers(j, t) = {} /\ new = [t[j.id] EXCEPT !.used = TRUE]
              => new \in Changed(j, t)
         /\ j.op = "delete" /\ DeleteAnswers(j, t) = {} /\ new = [t[j.id] EXCEPT !.st = "gone"]
              => new \in Changed(j, t)
BY DEF Changed

\* The stores look for the columns of which the contract speaks.
LEMMA ClashShares ==
  ASSUME ContractInv, NEW c \in Calls, Open(c), job[c].op \in {"create", "update"}
  PROVE  Clash(Unique[table], job[c].row.key, job[c].id) <=> Shares(rows, job[c].row.key, job[c].id)
<1>1. job[c].row.key \subseteq Unique[table] \X Keys
  BY DEF ContractInv, Arguments, Open
<1>2. \A k \in job[c].row.key : k[1] \in Unique[table]
  BY <1>1
<1>3. QED  BY <1>2 DEF Clash, Shares

\* A get by id, or by a unique column.
LEMMA Getting ==
  ASSUME ContractInv, NEW c \in Calls, Frame(c), job[c].op = "get",
         \/ \E i \in Found(c) : Says(c, [code |-> "ok", row |-> rows[i]])
         \/ Found(c) = {} /\ Says(c, Plain("not_found")),
         UNCHANGED <<rows, scan>>
  PROVE  Outcome(c)
<1>1. Answers(job[c], rows) = IF Found(c) = {} THEN {Plain("not_found")}
                              ELSE {[code |-> "ok", row |-> rows[i]] : i \in Found(c)}
  BY AnswersOf DEF GetAnswers, Found
<1>2. CASE \E i \in Found(c) : Says(c, [code |-> "ok", row |-> rows[i]])
  <2>1. PICK i \in Found(c) : Says(c, [code |-> "ok", row |-> rows[i]])
    BY <1>2
  <2>2. [code |-> "ok", row |-> rows[i]] \in Answers(job[c], rows)
    BY <1>1
  <2>3. QED  BY <2>1, <2>2, Answering
<1>3. CASE Found(c) = {} /\ Says(c, Plain("not_found"))
  BY <1>1, <1>3, Answering
<1>4. QED  BY <1>2, <1>3

\* A creation.
LEMMA Storing ==
  ASSUME ContractInv, NEW c \in Calls, Frame(c), job[c].op = "create", UNCHANGED scan,
         NEW taken \in BOOLEAN,
         taken <=> (rows[job[c].id].st = "stored" \/ Clash(Unique[table], job[c].row.key, job[c].id)),
         NEW new \in Kept(job[c].row),
         \/ taken /\ Says(c, Plain("duplicate")) /\ UNCHANGED rows
         \/ ~taken /\ Says(c, Plain("ok")) /\ Put(job[c].id, new)
  PROVE  Outcome(c)
<1>1. Open(c)
  BY DEF Frame
<1>2. taken <=> (rows[job[c].id].st = "stored" \/ Shares(rows, job[c].row.key, job[c].id))
  BY <1>1, ClashShares
<1>3. CASE taken /\ Says(c, Plain("duplicate")) /\ UNCHANGED rows
  <2>1. Plain("duplicate") \in Answers(job[c], rows)
    BY <1>2, <1>3, AnswersOf DEF CreateAnswers
  <2>2. QED  BY <1>3, <2>1, Answering
<1>4. CASE ~taken /\ Says(c, Plain("ok")) /\ Put(job[c].id, new)
  <2>1. rows[job[c].id].st = "none"
    BY <1>1 DEF ContractInv, Creating
  <2>2. CreateAnswers(job[c], rows) = {}
    BY <1>2, <1>4 DEF CreateAnswers
  <2>3. new \in Changed(job[c], rows)
    BY <2>1, <2>2, MayChange
  <2>4. QED  BY <1>4, <2>3, Changing
<1>5. QED  BY <1>3, <1>4

\* An update that finds its row.
LEMMA Updating ==
  ASSUME ContractInv, NEW c \in Calls, Frame(c), job[c].op = "update", UNCHANGED scan,
         rows[job[c].id].st = "stored",
         NEW taken \in BOOLEAN, taken <=> Clash(Unique[table], job[c].row.key, job[c].id),
         NEW new \in Kept(job[c].row),
         \/ taken /\ Says(c, Plain("duplicate")) /\ UNCHANGED rows
         \/ ~taken /\ Says(c, Plain("ok")) /\ Put(job[c].id, new)
  PROVE  Outcome(c)
<1>1. taken <=> Shares(rows, job[c].row.key, job[c].id)
  BY ClashShares DEF Frame
<1>2. CASE taken /\ Says(c, Plain("duplicate")) /\ UNCHANGED rows
  <2>1. Plain("duplicate") \in Answers(job[c], rows)
    BY <1>1, <1>2, AnswersOf DEF UpdateAnswers
  <2>2. QED  BY <1>2, <2>1, Answering
<1>3. CASE ~taken /\ Says(c, Plain("ok")) /\ Put(job[c].id, new)
  <2>1. UpdateAnswers(job[c], rows) \subseteq {Plain("ok")}
    BY <1>1, <1>3 DEF UpdateAnswers
  <2>2. new \in Changed(job[c], rows)
    BY <2>1, MayChange
  <2>3. QED  BY <1>3, <2>2, Changing
<1>4. QED  BY <1>2, <1>3

\* A call that does not find its row.
LEMMA Missing ==
  ASSUME ContractInv, NEW c \in Calls, Frame(c), job[c].op \in {"update", "consume", "delete"},
         rows[job[c].id].st # "stored", Says(c, Plain("not_found")), UNCHANGED <<rows, scan>>
  PROVE  Outcome(c)
<1>1. Plain("not_found") \in Answers(job[c], rows)
  BY AnswersOf DEF UpdateAnswers, ConsumeAnswers, DeleteAnswers
<1>2. QED  BY <1>1, Answering

\* A consume that finds the code unused.
LEMMA Consuming ==
  ASSUME NEW c \in Calls, Frame(c), job[c].op = "consume", UNCHANGED scan,
         rows[job[c].id].st = "stored", ~rows[job[c].id].used,
         Says(c, Plain("ok")), Put(job[c].id, [rows[job[c].id] EXCEPT !.used = TRUE])
  PROVE  Outcome(c)
<1>1. ConsumeAnswers(job[c], rows) = {}
  BY DEF ConsumeAnswers
<1>2. [rows[job[c].id] EXCEPT !.used = TRUE] \in Changed(job[c], rows)
  BY <1>1, MayChange
<1>3. QED  BY <1>2, Changing

\* A deletion that finds its row.
LEMMA Deleting ==
  ASSUME NEW c \in Calls, Frame(c), job[c].op = "delete", UNCHANGED scan,
         rows[job[c].id].st = "stored",
         Says(c, Plain("ok")), Put(job[c].id, [rows[job[c].id] EXCEPT !.st = "gone"])
  PROVE  Outcome(c)
<1>1. DeleteAnswers(job[c], rows) = {}
  BY DEF DeleteAnswers
<1>2. [rows[job[c].id] EXCEPT !.st = "gone"] \in Changed(job[c], rows)
  BY <1>1, MayChange
<1>3. QED  BY <1>2, Changing

\* A bulk deletion that is through with all that were due.
LEMMA DeletingMany ==
  ASSUME ContractInv, NEW c \in Calls, Frame(c), job[c].op = "delete_many",
         NEW ids \in SUBSET Matching(job[c], rows), due[c] \subseteq ids, Remove(ids),
         Says(c, Plain("ok")), UNCHANGED scan \/ scan' = [scan EXCEPT ![c] = {}]
  PROVE  Outcome(c)
<1>1. Ends(c) /\ (Reply(c, Plain("ok")) \/ Reply(c, Plain("error")))
  BY SaysEnds
<1>2. rows \in [Ids -> Row]
  BY Types DEF ContractInv
<1>3. \A i \in Ids : i \in ids => rows'[i].st = "gone"
  BY <1>2 DEF Remove, Row
<1>4. due[c] \cap Matching(job[c], rows') = {}
  BY <1>3 DEF Matching, Matches
<1>5. DeleteSome(c)
  BY <1>1, <1>4 DEF DeleteSome, Frame
<1>6. QED  BY <1>1, <1>5 DEF Outcome

\* The memory store.
LEMMA MemoryOutcome ==
  ASSUME StoreInv, NEW c \in Calls, MemoryStep(c)
  PROVE  Outcome(c)
<1>1. ContractInv /\ Running(c) /\ table \in AllTables /\ rows \in [Ids -> Row]
  BY Types DEF StoreInv, ContractInv
<1>2. pc[c] = "locked"
  BY DEF MemoryStep, MemoryGet, MemoryCreate, MemoryUpdate, MemoryConsume, MemoryDelete,
         MemoryDeleteMany, Locked
<1>3. Frame(c) /\ UNCHANGED scan
  BY <1>1, <1>2 DEF Running, Frame, MemoryStep
<1>4. Maps[table].unique = Unique[table]
  <2>1. Maps["clients"].unique = Unique["clients"] /\ Maps["users"].unique = Unique["users"]
    BY DEF Maps, Unique, MemoryClients, MemoryUsers
  <2>2. Maps["access"].unique = Unique["access"] /\ Maps["refresh"].unique = Unique["refresh"]
    BY DEF Maps, Unique, MemoryAccessTokens, MemoryRefreshTokens
  <2>3. Maps["codes"].unique = Unique["codes"] /\ Maps["links"].unique = Unique["links"]
    BY DEF Maps, Unique, MemoryAuthorizationCodes, MemoryUserTokens
  <2>4. QED  BY <1>1, <2>1, <2>2, <2>3 DEF AllTables
<1>5. CASE MemoryGet(c)
  BY <1>1, <1>3, <1>5, Getting DEF MemoryGet, Locked, Says, Answered
<1>6. CASE MemoryCreate(c)
  <2> DEFINE taken == rows[job[c].id].st = "stored"
                        \/ Clash(Unique[table], job[c].row.key, job[c].id)
  <2>1. job[c].op = "create"
    BY <1>6 DEF MemoryCreate, Locked
  <2>2. \/ taken /\ Says(c, Plain("duplicate")) /\ UNCHANGED rows
        \/ ~taken /\ Says(c, Plain("ok")) /\ Put(job[c].id, job[c].row)
    BY <1>4, <1>6 DEF MemoryCreate, Says, Answered
  <2>3. job[c].row \in Kept(job[c].row)
    BY DEF Kept
  <2>4. taken \in BOOLEAN
    BY DEF Clash
  <2>5. QED  BY <1>1, <1>3, <2>1, <2>2, <2>3, <2>4, Storing
<1>7. CASE MemoryUpdate(c)
  <2> DEFINE taken == Clash(Unique[table], job[c].row.key, job[c].id)
  <2>1. job[c].op = "update"
    BY <1>7 DEF MemoryUpdate, Locked
  <2>2. \/ rows[job[c].id].st # "stored" /\ Says(c, Plain("not_found")) /\ UNCHANGED rows
        \/ /\ rows[job[c].id].st = "stored"
           /\ \/ taken /\ Says(c, Plain("duplicate")) /\ UNCHANGED rows
              \/ ~taken /\ Says(c, Plain("ok")) /\ Put(job[c].id, job[c].row)
    BY <1>4, <1>7 DEF MemoryUpdate, Says, Answered
  <2>3. job[c].row \in Kept(job[c].row)
    BY DEF Kept
  <2>4. taken \in BOOLEAN
    BY DEF Clash
  <2>5. CASE rows[job[c].id].st # "stored"
    BY <1>1, <1>3, <2>1, <2>2, <2>5, Missing
  <2>6. CASE rows[job[c].id].st = "stored"
    BY <1>1, <1>3, <2>1, <2>2, <2>3, <2>4, <2>6, Updating
  <2>7. QED  BY <2>5, <2>6
<1>8. CASE MemoryConsume(c)
  <2>1. job[c].op = "consume"
    BY <1>8 DEF MemoryConsume, Locked
  <2>2. CASE rows[job[c].id].st # "stored"
    BY <1>1, <1>3, <1>8, <2>1, <2>2, Missing DEF MemoryConsume, Says, Answered
  <2>3. CASE rows[job[c].id].st = "stored" /\ rows[job[c].id].used
    <3>1. Says(c, Plain("conflict")) /\ UNCHANGED rows
      BY <1>8, <2>3 DEF MemoryConsume, Says, Answered
    <3>2. Plain("conflict") \in Answers(job[c], rows)
      BY <2>1, <2>3, AnswersOf DEF ConsumeAnswers
    <3>3. QED  BY <1>1, <1>3, <3>1, <3>2, Answering
  <2>4. CASE rows[job[c].id].st = "stored" /\ ~rows[job[c].id].used
    BY <1>3, <1>8, <2>1, <2>4, Consuming DEF MemoryConsume, Says, Answered
  <2>5. QED  BY <2>2, <2>3, <2>4
<1>9. CASE MemoryDelete(c)
  <2>1. job[c].op = "delete"
    BY <1>9 DEF MemoryDelete, Locked
  <2>2. CASE rows[job[c].id].st # "stored"
    BY <1>1, <1>3, <1>9, <2>1, <2>2, Missing DEF MemoryDelete, Says, Answered
  <2>3. CASE rows[job[c].id].st = "stored"
    BY <1>3, <1>9, <2>1, <2>3, Deleting DEF MemoryDelete, Says, Answered
  <2>4. QED  BY <2>2, <2>3
<1>10. CASE MemoryDeleteMany(c)
  <2> DEFINE ids == {i \in Ids : rows[i].st = "stored" /\ MemoryMatch(job[c], rows[i])}
  <2>1. job[c].op = "delete_many" /\ Remove(ids) /\ Says(c, Plain("ok"))
    BY <1>10 DEF MemoryDeleteMany, Locked, Says, Answered
  <2>2. ids = Matching(job[c], rows)
    <3>1. ASSUME NEW i \in Ids, job[c].before # None
          PROVE  ~(rows[i].exp > job[c].before) <=> rows[i].exp <= job[c].before
      <4>1. rows[i].exp \in Nat
        BY <1>1, StoreAssumption DEF Row
      <4>2. job[c].before \in Nat
        <5>1. job[c] \in Job
          BY <1>1, Types DEF ContractInv
        <5>2. QED  BY <3>1, <5>1, StoreAssumption DEF Job
      <4>3. QED  BY <4>1, <4>2
    <3>2. QED  BY <3>1 DEF MemoryMatch, Matching, Matches
  <2>3. due[c] \subseteq ids
    BY <1>1, <1>3, <2>2 DEF ContractInv, Seen, Frame
  <2> HIDE DEF ids
  <2>4. QED  BY <1>1, <1>3, <2>1, <2>2, <2>3, DeletingMany
<1>11. QED  BY <1>5, <1>6, <1>7, <1>8, <1>9, <1>10 DEF MemoryStep

\* A row that is looked for is stored or gone.
LEMMA OwnRow ==
  ASSUME ContractInv, NEW c \in Calls, Open(c), job[c].op \in {"update", "consume", "delete"}
  PROVE  /\ job[c].id \in Ids /\ rows[job[c].id] \in Row
         /\ rows[job[c].id].st \in {"stored", "gone"}
<1>1. job[c].id \in Ids /\ rows[job[c].id].st # "none"
  BY DEF ContractInv, Arguments, Open, Writes
<1>2. rows[job[c].id] \in Row
  BY <1>1, Types DEF ContractInv
<1>3. QED  BY <1>1, <1>2 DEF Row

\* The condition of a deletion in SQL is the filter of the contract.
LEMMA WhereMatches ==
  ASSUME NEW j
  PROVE  {i \in Ids : Where(j, rows[i])} = Matching(j, rows)
BY DEF Where, Matching, Matches

\* The update of a row in SQL.
LEMMA UpdateOutcome ==
  ASSUME StoreInv, NEW c \in Calls, NEW mysql \in BOOLEAN, Frame(c), Update(mysql, c)
  PROVE  Outcome(c)
<1> DEFINE j == job[c]
           taken == Clash(Unique[table], j.row.key, j.id)
<1>1. ContractInv /\ Running(c) /\ Open(c) /\ pc[c] = "update"
  BY DEF StoreInv, Frame, Update
<1>2. j.op = "update"
  BY <1>1 DEF Running, Runs
<1>3. j.id \in Ids /\ rows[j.id] \in Row /\ rows[j.id].st \in {"stored", "gone"}
  BY <1>1, <1>2, OwnRow
<1>4. taken \in BOOLEAN /\ SqlUnique[table] = Unique[table] /\ j.row \in Kept(j.row)
  BY DEF Clash, SqlUnique, Unique, Kept
<1>5. /\ UNCHANGED scan
      /\ \/ /\ rows[j.id].st = "stored" /\ taken
            /\ Says(c, Plain("duplicate")) /\ UNCHANGED rows
         \/ /\ rows[j.id].st = "stored" /\ ~taken /\ Put(j.id, j.row)
            /\ IF Affected(mysql, c) THEN Says(c, Plain("ok"))
                                     ELSE Goto(c, "select_one") /\ UNCHANGED answer
         \/ rows[j.id].st # "stored" /\ Goto(c, "select_one") /\ UNCHANGED <<rows, answer>>
  BY <1>4 DEF Update, Replies, Says
<1> HIDE DEF taken
<1>6. CASE rows[j.id].st = "stored" /\ taken
  BY <1>1, <1>2, <1>4, <1>5, <1>6, Updating DEF taken
<1>7. CASE rows[j.id].st = "stored" /\ ~taken /\ Affected(mysql, c)
  BY <1>1, <1>2, <1>4, <1>5, <1>7, Updating DEF taken
<1>8. CASE rows[j.id].st = "stored" /\ ~taken /\ ~Affected(mysql, c)
  <2>1. rows[j.id] = j.row
    BY <1>8 DEF Affected
  <2>2. rows' = rows
    BY <1>1, <1>3, <1>5, <1>8, <2>1, Types DEF ContractInv, Put
  <2>3. ~Shares(rows, j.row.key, j.id)
    BY <1>1, <1>2, <1>8, ClashShares DEF taken
  <2>4. Plain("ok") \in Answers(j, rows)
    BY <1>2, <1>8, <2>1, <2>3, AnswersOf DEF UpdateAnswers
  <2>5. Plain("ok") \in may[c]
    BY <1>1, <2>4 DEF ContractInv, Seen
  <2>6. Pass(c, "select_one")
    BY <1>2, <1>5, <1>8, <2>2, <2>5 DEF Pass, Runs, Goto, SqlStatements
  <2>7. QED  BY <2>6 DEF Outcome
<1>9. CASE rows[j.id].st # "stored"
  <2>1. Pass(c, "select_one")
    BY <1>2, <1>3, <1>5, <1>9 DEF Pass, Runs, Goto, SqlStatements
  <2>2. QED  BY <2>1 DEF Outcome
<1>10. QED  BY <1>6, <1>7, <1>8, <1>9

\* The consume of a code that cannot be consumed: the next statement will find it so.
LEMMA Unconsumable ==
  ASSUME StoreInv, NEW c \in Calls, Frame(c), job[c].op = "consume",
         ~Unconsumed(rows[job[c].id]), NEW l \in {"select_one", "count_documents"},
         Goto(c, l), UNCHANGED <<rows, answer, scan>>
  PROVE  Outcome(c)
<1>1. ContractInv /\ Open(c)
  BY DEF StoreInv, Frame
<1>2. rows[job[c].id].st \in {"stored", "gone"}
  BY <1>1, OwnRow
<1>3. rows[job[c].id].st = "stored" => Plain("conflict") \in Answers(job[c], rows)
  BY AnswersOf DEF ConsumeAnswers, Unconsumed
<1>4. Plain("conflict") \in may[c] \/ rows[job[c].id].st = "gone"
  BY <1>1, <1>2, <1>3 DEF ContractInv, Seen
<1>5. Pass(c, l)
  BY <1>4 DEF Pass, Runs, Goto, SqlStatements, MongoCommands
<1>6. QED  BY <1>5 DEF Outcome

\* The statement after an update that affected no row.
LEMMA SelectOneOutcome ==
  ASSUME StoreInv, NEW c \in Calls, Frame(c), SelectOne(c)
  PROVE  Outcome(c)
<1>1. ContractInv /\ Running(c) /\ Told(c) /\ Open(c) /\ pc[c] = "select_one"
  BY DEF StoreInv, Frame, SelectOne
<1>2. job[c].op \in {"update", "consume"}
  BY <1>1 DEF Running, Runs
<1>3. UNCHANGED <<rows, scan>>
  BY DEF SelectOne
<1>4. CASE rows[job[c].id].st # "stored"
  <2>1. Says(c, Plain("not_found"))
    BY <1>4 DEF SelectOne, Replies, Says
  <2>2. QED  BY <1>1, <1>2, <1>3, <1>4, <2>1, Missing
<1>5. CASE rows[job[c].id].st = "stored" /\ job[c].op = "consume"
  <2>1. Says(c, Plain("conflict"))
    BY <1>5 DEF SelectOne, Replies, Says
  <2>2. Plain("conflict") \in may[c]
    BY <1>1, <1>5 DEF Told
  <2>3. QED  BY <1>3, <2>1, <2>2, AnsweringLate
<1>6. CASE rows[job[c].id].st = "stored" /\ job[c].op = "update"
  <2>1. Says(c, Plain("ok"))
    BY <1>6 DEF SelectOne, Replies, Says
  <2>2. Plain("ok") \in may[c]
    BY <1>1, <1>6 DEF Told
  <2>3. QED  BY <1>3, <2>1, <2>2, AnsweringLate
<1>7. QED  BY <1>2, <1>4, <1>5, <1>6

\* The end of a deletion in SQL.
LEMMA CommitOutcome ==
  ASSUME StoreInv, NEW c \in Calls, Frame(c), Commit(c)
  PROVE  Outcome(c)
<1> DEFINE M == Matching(job[c], rows)
<1>1. ContractInv /\ Running(c) /\ Told(c) /\ Open(c) /\ pc[c] = "commit"
  BY DEF StoreInv, Frame, Commit
<1>2. job[c].op = "delete_many"
  BY <1>1 DEF Running, Runs
<1>3. PICK later \in SUBSET (M \ scan[c]) : Remove((scan[c] \cap M) \cup later)
  BY WhereMatches DEF Commit
<1>4. scan' = [scan EXCEPT ![c] = {}] /\ Says(c, Plain("ok"))
  BY DEF Commit, Replies, Says
<1>5. due[c] \subseteq scan[c] /\ due[c] \subseteq M
  BY <1>1 DEF Told, ContractInv, Seen
<1> HIDE DEF M
<1>6. PICK ids : ids = (scan[c] \cap M) \cup later
  OBVIOUS
<1>7. ids \in SUBSET M /\ due[c] \subseteq ids
  BY <1>3, <1>5, <1>6
<1>8. QED  BY <1>1, <1>2, <1>3, <1>4, <1>6, <1>7, DeletingMany DEF M

\* The SQL stores.
LEMMA SqlOutcome ==
  ASSUME StoreInv, NEW c \in Calls, NEW mysql \in BOOLEAN, SqlStep(mysql, c)
  PROVE  Outcome(c)
<1>1. ContractInv /\ Running(c)
  BY DEF StoreInv
<1>2. pc[c] \in SqlStatements
  BY DEF SqlStep, Select, Insert, Update, UpdateUnconsumed, SelectOne, Delete, DeleteWhere, Commit,
         SqlFailure, SqlStatements
<1>3. Frame(c)
  BY <1>1, <1>2 DEF Running, Frame, SqlStep, SqlStatements
<1>4. CASE Select(c)
  <2>1. job[c].op = "get"
    BY <1>1, <1>4 DEF Running, Runs, Select
  <2>2. QED  BY <1>1, <1>3, <1>4, <2>1, Getting DEF Select, Says, Replies
<1>5. CASE Insert(c)
  <2> DEFINE taken == rows[job[c].id].st = "stored"
                        \/ Clash(Unique[table], job[c].row.key, job[c].id)
  <2>1. job[c].op = "create"
    BY <1>1, <1>5 DEF Running, Runs, Insert
  <2>2. SqlUnique[table] = Unique[table] /\ taken \in BOOLEAN /\ job[c].row \in Kept(job[c].row)
    BY DEF SqlUnique, Unique, Clash, Kept
  <2>3. /\ UNCHANGED scan
        /\ \/ taken /\ Says(c, Plain("duplicate")) /\ UNCHANGED rows
           \/ ~taken /\ Says(c, Plain("ok")) /\ Put(job[c].id, job[c].row)
    BY <1>5, <2>2 DEF Insert, Says, Replies
  <2>4. QED  BY <1>1, <1>3, <2>1, <2>2, <2>3, Storing
<1>6. CASE Update(mysql, c)
  BY <1>3, <1>6, UpdateOutcome
<1>7. CASE UpdateUnconsumed(c)
  <2>1. job[c].op = "consume"
    BY <1>1, <1>7 DEF Running, Runs, UpdateUnconsumed
  <2>2. CASE Unconsumed(rows[job[c].id])
    <3>1. /\ UNCHANGED scan /\ Says(c, Plain("ok"))
          /\ Put(job[c].id, [rows[job[c].id] EXCEPT !.used = TRUE])
      BY <1>7, <2>2 DEF UpdateUnconsumed, Says, Replies
    <3>2. QED  BY <1>3, <2>1, <2>2, <3>1, Consuming DEF Unconsumed
  <2>3. CASE ~Unconsumed(rows[job[c].id])
    <3>1. Goto(c, "select_one") /\ UNCHANGED <<rows, answer, scan>>
      BY <1>7, <2>3 DEF UpdateUnconsumed
    <3>2. QED  BY <1>3, <2>1, <2>3, <3>1, Unconsumable
  <2>4. QED  BY <2>2, <2>3
<1>8. CASE SelectOne(c)
  BY <1>3, <1>8, SelectOneOutcome
<1>9. CASE Delete(c)
  <2>1. job[c].op = "delete"
    BY <1>1, <1>9 DEF Running, Runs, Delete
  <2>2. CASE rows[job[c].id].st # "stored"
    BY <1>1, <1>3, <1>9, <2>1, <2>2, Missing DEF Delete, Says, Replies
  <2>3. CASE rows[job[c].id].st = "stored"
    BY <1>3, <1>9, <2>1, <2>3, Deleting DEF Delete, Says, Replies
  <2>4. QED  BY <2>2, <2>3
<1>10. CASE DeleteWhere(c)
  <2>1. job[c].op = "delete_many"
    BY <1>1, <1>10 DEF Running, Runs, DeleteWhere
  <2>2. scan' = [scan EXCEPT ![c] = Matching(job[c], rows)]
    BY <1>10, WhereMatches DEF DeleteWhere
  <2>3. Goto(c, "commit") /\ UNCHANGED <<rows, answer>>
    BY <1>10 DEF DeleteWhere
  <2>4. Pass(c, "commit")
    BY <1>3, <2>1, <2>2, <2>3 DEF Pass, Runs, Goto, SqlStatements
  <2>5. QED  BY <2>4 DEF Outcome
<1>11. CASE Commit(c)
  BY <1>3, <1>11, CommitOutcome
<1>12. CASE SqlFailure(c)
  BY <1>3, <1>12, Failing DEF SqlFailure
<1>13. QED  BY <1>4, <1>5, <1>6, <1>7, <1>8, <1>9, <1>10, <1>11, <1>12 DEF SqlStep

\* Rounding the deadline down makes no difference to instants that are rounded themselves.
LEMMA FilterMatches ==
  ASSUME StoreInv, backend = "mongo", NEW j \in Job, NEW i \in Ids
  PROVE  Filter(j, rows[i]) <=> Matches(j, rows[i])
<1>1. rows[i] \in Row /\ DBTime[rows[i].exp] = rows[i].exp
  BY Types DEF StoreInv, ContractInv, Rounded
<1>2. rows[i].exp \in Times
  BY <1>1 DEF Row
<1>3. ASSUME j.before # None
      PROVE  rows[i].exp <= DBTime[j.before] <=> rows[i].exp <= j.before
  <2>1. j.before \in Times
    BY <1>3 DEF Job
  <2>2. /\ DBTime[j.before] <= j.before
        /\ rows[i].exp <= j.before => DBTime[rows[i].exp] <= DBTime[j.before]
    BY <1>2, <2>1, StoreAssumption
  <2>3. rows[i].exp \in Nat /\ j.before \in Nat /\ DBTime[j.before] \in Nat
    BY <1>2, <2>1, StoreAssumption
  <2> DEFINE e == rows[i].exp
             b == j.before
             d == DBTime[j.before]
  <2>4. e \in Nat /\ b \in Nat /\ d \in Nat /\ d <= b /\ (e <= b => e <= d)
    BY <1>1, <2>2, <2>3
  <2> HIDE DEF e, b, d
  <2>5. e <= d <=> e <= b
    BY <2>4
  <2>6. QED  BY <2>5 DEF e, b, d
<1>4. QED  BY <1>3 DEF Filter, Matches

\* The replacement of a document.
LEMMA ReplaceOutcome ==
  ASSUME StoreInv, NEW c \in Calls, Frame(c), ReplaceOne(c)
  PROVE  Outcome(c)
<1> DEFINE j == job[c]
           taken == Clash(Unique[table], j.row.key, j.id)
<1>1. ContractInv /\ Running(c) /\ pc[c] = "replace_one"
  BY DEF StoreInv, ReplaceOne
<1>2. j.op = "update"
  BY <1>1 DEF Running, Runs
<1>3. taken \in BOOLEAN /\ Indexes[table] = Unique[table] /\ Document(j.row) \in Kept(j.row)
  BY DEF Clash, Indexes, Unique, Kept, Document
<1>4. /\ UNCHANGED scan
      /\ \/ /\ rows[j.id].st = "stored" /\ taken
            /\ Says(c, Plain("duplicate")) /\ UNCHANGED rows
         \/ /\ rows[j.id].st = "stored" /\ ~taken
            /\ Says(c, Plain("ok")) /\ Put(j.id, Document(j.row))
         \/ rows[j.id].st # "stored" /\ Says(c, Plain("not_found")) /\ UNCHANGED rows
  BY <1>3 DEF ReplaceOne, Returns, Says
<1> HIDE DEF taken
<1>5. CASE rows[j.id].st = "stored"
  BY <1>1, <1>2, <1>3, <1>4, <1>5, Updating DEF taken
<1>6. CASE rows[j.id].st # "stored"
  BY <1>1, <1>2, <1>4, <1>6, Missing
<1>7. QED  BY <1>5, <1>6

\* The count after an update that matched nothing.
LEMMA CountOutcome ==
  ASSUME StoreInv, NEW c \in Calls, Frame(c), CountDocuments(c)
  PROVE  Outcome(c)
<1>1. ContractInv /\ Running(c) /\ Told(c) /\ pc[c] = "count_documents"
  BY DEF StoreInv, CountDocuments
<1>2. job[c].op = "consume"
  BY <1>1 DEF Running, Runs
<1>3. UNCHANGED <<rows, scan>>
  BY DEF CountDocuments
<1>4. CASE rows[job[c].id].st # "stored"
  <2>1. Says(c, Plain("not_found"))
    BY <1>4 DEF CountDocuments, Returns, Says
  <2>2. QED  BY <1>1, <1>2, <1>3, <1>4, <2>1, Missing
<1>5. CASE rows[job[c].id].st = "stored"
  <2>1. Says(c, Plain("conflict"))
    BY <1>5 DEF CountDocuments, Returns, Says
  <2>2. Plain("conflict") \in may[c]
    BY <1>1, <1>2, <1>5 DEF Told
  <2>3. QED  BY <1>3, <2>1, <2>2, AnsweringLate
<1>6. QED  BY <1>4, <1>5

\* A deletion that goes from document to document.
LEMMA DeleteNextOutcome ==
  ASSUME StoreInv, backend = "mongo", NEW c \in Calls, Frame(c), DeleteNext(c)
  PROVE  Outcome(c)
<1>1. ContractInv /\ Running(c) /\ Told(c) /\ Open(c) /\ pc[c] = "delete_next"
  BY DEF StoreInv, DeleteNext, Frame
<1>2. /\ job[c].op = "delete_many" /\ job[c] \in Job /\ rows \in [Ids -> Row]
      /\ scan[c] \subseteq Ids
  BY <1>1, Types DEF Running, Runs, ContractInv, StoreInv, TypeOK
<1>3. \A i \in Ids : Filter(job[c], rows[i]) <=> Matches(job[c], rows[i])
  BY <1>2, FilterMatches
<1>4. CASE /\ \E i \in scan[c] \cup {k \in Ids : Filter(job[c], rows[k])} :
                /\ Remove(IF Filter(job[c], rows[i]) THEN {i} ELSE {})
                /\ scan' = [scan EXCEPT ![c] = @ \ {i}]
           /\ UNCHANGED <<pc, answer>>
  <2>1. PICK i \in Ids : /\ Remove(IF Filter(job[c], rows[i]) THEN {i} ELSE {})
                         /\ scan' = [scan EXCEPT ![c] = @ \ {i}]
    BY <1>2, <1>4
  <2>2. PICK ids \in SUBSET Matching(job[c], rows) :
          /\ Remove(ids)
          /\ Matches(job[c], rows[i]) => i \in ids
    <3>1. CASE Filter(job[c], rows[i])
      <4>1. Remove({i}) /\ {i} \in SUBSET Matching(job[c], rows)
        BY <1>3, <2>1, <3>1 DEF Matching
      <4>2. QED  BY <4>1
    <3>2. CASE ~Filter(job[c], rows[i])
      <4>1. Remove({}) /\ ~Matches(job[c], rows[i])
        BY <1>3, <2>1, <3>2
      <4>2. QED  BY <4>1
    <3>3. QED  BY <3>1, <3>2
  <2>3. DeleteSome(c)
    BY <1>1, <1>2, <1>4, <2>2 DEF DeleteSome, Frame
  <2>4. ~Matches(job[c], rows'[i])
    <3>1. rows'[i] = IF i \in ids THEN [rows[i] EXCEPT !.st = "gone"] ELSE rows[i]
      BY <2>2 DEF Remove
    <3>2. CASE i \in ids
      <4>1. rows'[i].st = "gone"
        BY <1>2, <3>1, <3>2 DEF Row
      <4>2. QED  BY <4>1 DEF Matches
    <3>3. CASE i \notin ids
      BY <2>2, <3>1, <3>3
    <3>4. QED  BY <3>2, <3>3
  <2>5. GoesOn(c)
    BY <1>1, <1>4, <2>1, <2>4 DEF GoesOn
  <2>6. QED  BY <2>3, <2>5 DEF Outcome
<1>5. CASE scan[c] = {} /\ Returns(c, Plain("ok")) /\ UNCHANGED <<rows, scan>>
  <2>1. due[c] \subseteq {} /\ Says(c, Plain("ok"))
    BY <1>1, <1>5 DEF Told, Returns, Says
  <2>2. Remove({})
    BY <1>2, <1>5 DEF Remove
  <2>3. QED  BY <1>1, <1>2, <1>5, <2>1, <2>2, DeletingMany
<1>6. QED  BY <1>4, <1>5 DEF DeleteNext

\* MongoDB.
LEMMA MongoOutcome ==
  ASSUME StoreInv, backend = "mongo", NEW c \in Calls, MongoStep(c)
  PROVE  Outcome(c)
<1>1. ContractInv /\ Running(c)
  BY DEF StoreInv
<1>2. pc[c] \in MongoCommands
  BY DEF MongoStep, FindOne, InsertOne, ReplaceOne, UpdateOne, CountDocuments, DeleteOne, DeleteMany,
         DeleteNext, MongoFailure, MongoCommands
<1>3. Frame(c)
  BY <1>1, <1>2 DEF Running, Frame, MongoStep, MongoCommands
<1>4. CASE FindOne(c)
  <2>1. job[c].op = "get"
    BY <1>1, <1>4 DEF Running, Runs, FindOne
  <2>2. QED  BY <1>1, <1>3, <1>4, <2>1, Getting DEF FindOne, Says, Returns
<1>5. CASE InsertOne(c)
  <2> DEFINE taken == rows[job[c].id].st = "stored"
                        \/ Clash(Unique[table], job[c].row.key, job[c].id)
  <2>1. job[c].op = "create"
    BY <1>1, <1>5 DEF Running, Runs, InsertOne
  <2>2. /\ Indexes[table] = Unique[table] /\ taken \in BOOLEAN
        /\ Document(job[c].row) \in Kept(job[c].row)
    BY DEF Indexes, Unique, Clash, Kept, Document
  <2>3. /\ UNCHANGED scan
        /\ \/ taken /\ Says(c, Plain("duplicate")) /\ UNCHANGED rows
           \/ ~taken /\ Says(c, Plain("ok")) /\ Put(job[c].id, Document(job[c].row))
    BY <1>5, <2>2 DEF InsertOne, Says, Returns
  <2>4. QED  BY <1>1, <1>3, <2>1, <2>2, <2>3, Storing
<1>6. CASE ReplaceOne(c)
  BY <1>3, <1>6, ReplaceOutcome
<1>7. CASE UpdateOne(c)
  <2>1. job[c].op = "consume"
    BY <1>1, <1>7 DEF Running, Runs, UpdateOne
  <2>2. CASE Unconsumed(rows[job[c].id])
    <3>1. /\ UNCHANGED scan /\ Says(c, Plain("ok"))
          /\ Put(job[c].id, [rows[job[c].id] EXCEPT !.used = TRUE])
      BY <1>7, <2>2 DEF UpdateOne, Unconsumed, Says, Returns
    <3>2. QED  BY <1>3, <2>1, <2>2, <3>1, Consuming DEF Unconsumed
  <2>3. CASE ~Unconsumed(rows[job[c].id])
    <3>1. Goto(c, "count_documents") /\ UNCHANGED <<rows, answer, scan>>
      BY <1>7, <2>3 DEF UpdateOne, Unconsumed
    <3>2. QED  BY <1>3, <2>1, <2>3, <3>1, Unconsumable
  <2>4. QED  BY <2>2, <2>3
<1>8. CASE CountDocuments(c)
  BY <1>3, <1>8, CountOutcome
<1>9. CASE DeleteOne(c)
  <2>1. job[c].op = "delete"
    BY <1>1, <1>9 DEF Running, Runs, DeleteOne
  <2>2. CASE rows[job[c].id].st # "stored"
    BY <1>1, <1>3, <1>9, <2>1, <2>2, Missing DEF DeleteOne, Says, Returns
  <2>3. CASE rows[job[c].id].st = "stored"
    BY <1>3, <1>9, <2>1, <2>3, Deleting DEF DeleteOne, Says, Returns
  <2>4. QED  BY <2>2, <2>3
<1>10. CASE DeleteMany(c)
  <2>1. job[c].op = "delete_many"
    BY <1>1, <1>10 DEF Running, Runs, DeleteMany
  <2>2. {i \in Ids : Filter(job[c], rows[i])} = Matching(job[c], rows)
    <3>1. job[c] \in Job
      BY <1>1, Types DEF ContractInv
    <3>2. QED  BY <3>1, FilterMatches DEF Matching
  <2>3. scan' = [scan EXCEPT ![c] = Matching(job[c], rows)]
    BY <1>10, <2>2 DEF DeleteMany
  <2>4. Goto(c, "delete_next") /\ UNCHANGED <<rows, answer>>
    BY <1>10 DEF DeleteMany
  <2>5. Pass(c, "delete_next")
    BY <1>3, <2>1, <2>3, <2>4 DEF Pass, Runs, Goto, MongoCommands
  <2>6. QED  BY <2>5 DEF Outcome
<1>11. CASE DeleteNext(c)
  BY <1>3, <1>11, DeleteNextOutcome
<1>12. CASE MongoFailure(c)
  BY <1>3, <1>12, Failing DEF MongoFailure
<1>13. QED  BY <1>4, <1>5, <1>6, <1>7, <1>8, <1>9, <1>10, <1>11, <1>12 DEF MongoStep

(***************************************************************************)
(* Every step of a store                                                   *)
(***************************************************************************)

\* A statement that changes nothing is no step of the contract.
LEMMA PassStutters ==
  ASSUME ContractInv, NEW c \in Calls, NEW l, Pass(c, l)
  PROVE  UNCHANGED contract
<1>1. /\ UNCHANGED <<table, rows, job, answer>> /\ Observe
      /\ may \in [Calls -> SUBSET Answer] /\ due \in [Calls -> SUBSET Ids]
  BY Types DEF Pass, Frame, ContractInv
<1>2. ASSUME NEW d \in Calls
      PROVE  may'[d] = may[d] /\ due'[d] = due[d]
  <2>1. Seen(d) /\ (Open(d) <=> Waits(d))
    BY <1>1 DEF ContractInv, Open, Waits
  <2>2. /\ may'[d] = IF Waits(d) THEN may[d] \cup Answers(job[d], rows) ELSE {}
        /\ due'[d] = IF Waits(d) THEN due[d] \cap Matching(job[d], rows) ELSE {}
    BY <1>1 DEF Observe
  <2>3. QED  BY <2>1, <2>2 DEF Seen
<1>3. may' = [d \in Calls |-> may'[d]] /\ due' = [d \in Calls |-> due'[d]]
  BY <1>1 DEF Observe
<1>4. may' = may /\ due' = due
  BY <1>1, <1>2, <1>3
<1>5. QED  BY <1>1, <1>4 DEF contract

\* Whatever a statement amounts to is a step of the contract, or none.
LEMMA OutcomeStep ==
  ASSUME ContractInv, NEW c \in Calls, Outcome(c)
  PROVE  [ContractNext]_contract
BY PassStutters DEF Outcome, ContractNext

\* A row that is gone stays gone.
LEMMA GoneStays ==
  ASSUME ContractInv, NEW c \in Calls, Change(c) \/ DeleteSome(c) \/ Return(c) \/ rows' = rows,
         NEW i \in Ids, rows[i].st = "gone"
  PROVE  rows'[i].st = "gone"
<1>1. rows \in [Ids -> Row] /\ rows[i] \in Row
  BY Types DEF ContractInv
<1>2. CASE Change(c)
  <2> DEFINE j == job[c]
  <2>1. PICK new \in Changed(j, rows) : rows' = [rows EXCEPT ![j.id] = new]
    BY <1>2, ChangeActs
  <2>2. Plain("not_found") # Plain("ok")
    BY DEF Plain
  <2>3. rows[j.id].st # "gone"
    BY <2>2, ChangedOf DEF UpdateAnswers, ConsumeAnswers, DeleteAnswers
  <2>4. rows'[i] = rows[i]
    BY <1>1, <2>1, <2>3
  <2>5. QED  BY <2>4
<1>3. CASE DeleteSome(c)
  <2>1. rows'[i] = rows[i] \/ rows'[i] = [rows[i] EXCEPT !.st = "gone"]
    BY <1>3, DeleteActs
  <2>2. QED  BY <1>1, <2>1 DEF Row
<1>4. CASE Return(c) \/ rows' = rows
  BY <1>4 DEF Return
<1>5. QED  BY <1>2, <1>3, <1>4

\* A statement of one call leaves the others where they are.
LEMMA OutcomeFrame ==
  ASSUME StoreInv, NEW c \in Calls, Outcome(c)
  PROVE  /\ job' = job /\ Observe
         /\ \A d \in Calls \ {c} : answer'[d] = answer[d] /\ pc'[d] = pc[d] /\ scan'[d] = scan[d]
         /\ \A i \in Ids : rows[i].st = "gone" => rows'[i].st = "gone"
         /\ pc' \in [Calls -> {"idle", "locked", "done"} \cup SqlStatements \cup MongoCommands]
         /\ scan' \in [Calls -> SUBSET Ids]
<1>1. /\ ContractInv /\ scan \in [Calls -> SUBSET Ids]
      /\ pc \in [Calls -> {"idle", "locked", "done"} \cup SqlStatements \cup MongoCommands]
      /\ answer \in [Calls -> Answer]
  BY Types DEF StoreInv, TypeOK, ContractInv
<1>2. Change(c) \/ DeleteSome(c) \/ Return(c) \/ (\E l : Pass(c, l))
  BY DEF Outcome
<1>3. job' = job /\ Observe
  BY <1>2 DEF Change, DeleteSome, Return, Pass, Frame
<1>4. \A d \in Calls \ {c} : answer'[d] = answer[d]
  BY <1>1, <1>2 DEF Change, DeleteSome, Return, Pass, Reply
<1>5. \A i \in Ids : rows[i].st = "gone" => rows'[i].st = "gone"
  BY <1>1, <1>2, GoneStays DEF Pass
<1>6. CASE Ends(c)
  BY <1>1, <1>3, <1>4, <1>5, <1>6 DEF Ends
<1>7. CASE GoesOn(c)
  <2>1. PICK i \in Ids : scan' = [scan EXCEPT ![c] = @ \ {i}]
    BY <1>7 DEF GoesOn
  <2>2. scan[c] \ {i} \subseteq Ids
    BY <1>1
  <2>3. scan' = [scan EXCEPT ![c] = scan[c] \ {i}]
    BY <1>1, <2>1
  <2>4. QED  BY <1>1, <1>3, <1>4, <1>5, <1>7, <2>2, <2>3 DEF GoesOn
<1>8. CASE \E l : Pass(c, l)
  <2>1. PICK l : Pass(c, l)
    BY <1>8
  <2>2. Matching(job[c], rows) \subseteq Ids
    BY DEF Matching
  <2>3. l \in SqlStatements \cup MongoCommands /\ pc' = [pc EXCEPT ![c] = l]
    BY <2>1 DEF Pass
  <2>4. scan' = scan \/ scan' = [scan EXCEPT ![c] = Matching(job[c], rows)]
    BY <2>1 DEF Pass
  <2>5. QED  BY <1>1, <1>3, <1>4, <1>5, <2>2, <2>3, <2>4
<1>9. QED  BY <1>6, <1>7, <1>8 DEF Outcome

\* What calls know of the table they still know after a statement of another one.
LEMMA OthersKeep ==
  ASSUME StoreInv, NEW c \in Calls, Outcome(c), NEW d \in Calls, d # c
  PROVE  (Running(d) /\ Told(d))'
<1>1. Running(d) /\ Told(d) /\ Arguments(d)
  BY DEF StoreInv, ContractInv
<1>2. /\ job' = job /\ answer'[d] = answer[d] /\ pc'[d] = pc[d] /\ scan'[d] = scan[d]
      /\ \A i \in Ids : rows[i].st = "gone" => rows'[i].st = "gone"
      /\ Observe
  BY OutcomeFrame
<1>3. Running(d)'
  BY <1>1, <1>2 DEF Running, Open
<1>4. CASE pc[d] \in {"select_one", "count_documents", "commit", "delete_next"}
  <2>1. Open(d)
    BY <1>1, <1>4 DEF Running
  <2>2. Waits(d)
    BY <1>2, <2>1 DEF Waits, Open
  <2>3. may[d] \subseteq may'[d] /\ due'[d] \subseteq due[d]
    BY <1>2, <2>2 DEF Observe
  <2>4. job[d].op \in {"update", "consume"} => job[d].id \in Ids
    BY <1>1, <2>1 DEF Arguments, Open, Writes
  <2>5. QED  BY <1>1, <1>2, <1>3, <2>3, <2>4 DEF Told
<1>5. CASE pc[d] \notin {"select_one", "count_documents", "commit", "delete_next"}
  BY <1>2, <1>3, <1>5 DEF Told
<1>6. QED  BY <1>4, <1>5

\* The call itself knows what its next statement needs.
LEMMA OwnKeeps ==
  ASSUME StoreInv, NEW c \in Calls, Outcome(c)
  PROVE  (Running(c) /\ Told(c))'
<1>1. /\ ContractInv /\ Running(c) /\ Told(c) /\ Arguments(c) /\ Seen(c)
      /\ pc \in [Calls -> {"idle", "locked", "done"} \cup SqlStatements \cup MongoCommands]
      /\ scan \in [Calls -> SUBSET Ids]
  BY DEF StoreInv, TypeOK, ContractInv
<1>2. job' = job /\ Observe /\ \A i \in Ids : rows[i].st = "gone" => rows'[i].st = "gone"
  BY OutcomeFrame
<1>3. CASE Ends(c)
  <2>1. pc'[c] = "done"
    BY <1>1, <1>3 DEF Ends
  <2>2. QED  BY <2>1 DEF Running, Told
<1>4. CASE GoesOn(c)
  <2>1. PICK i \in Ids : scan' = [scan EXCEPT ![c] = @ \ {i}] /\ ~Matches(job[c], rows'[i])
    BY <1>4 DEF GoesOn
  <2>2. pc[c] = "delete_next" /\ pc'[c] = "delete_next" /\ answer' = answer
    BY <1>4 DEF GoesOn
  <2>3. Open(c) /\ Runs(pc[c], job[c].op)
    BY <1>1, <2>2 DEF Running
  <2>4. due'[c] = due[c] \cap Matching(job[c], rows')
    BY <1>2, <2>2, <2>3 DEF Observe, Waits, Open
  <2>5. i \notin Matching(job[c], rows')
    BY <2>1 DEF Matching
  <2>6. scan'[c] = scan[c] \ {i}
    BY <1>1, <2>1
  <2>7. due'[c] \subseteq scan'[c]
    BY <1>1, <2>2, <2>4, <2>5, <2>6 DEF Told
  <2>8. QED  BY <1>2, <2>2, <2>3, <2>7 DEF Running, Told, Open
<1>5. CASE \E l : Pass(c, l)
  <2>1. PICK l : Pass(c, l)
    BY <1>5
  <2>2. Open(c) /\ answer' = answer /\ rows' = rows /\ pc'[c] = l /\ Runs(l, job[c].op)
    BY <1>1, <2>1 DEF Pass, Frame
  <2>3. may' = may /\ due' = due
    BY <1>1, <2>1, PassStutters DEF contract
  <2>4. l \in {"commit", "delete_next"} => due[c] \subseteq scan'[c]
    <3>1. l \in {"commit", "delete_next"} => scan' = [scan EXCEPT ![c] = Matching(job[c], rows)]
      BY <2>1 DEF Pass
    <3>2. QED  BY <1>1, <2>2, <3>1 DEF Seen
  <2>5. Running(c)'
    BY <1>2, <2>2 DEF Running, Open
  <2>6. Told(c)'
    BY <1>2, <2>1, <2>2, <2>3, <2>4 DEF Told, Pass
  <2>7. QED  BY <2>5, <2>6
<1>6. QED  BY <1>3, <1>4, <1>5 DEF Outcome

\* MongoDB writes rounded instants only.
LEMMA MongoRounds ==
  ASSUME StoreInv, backend = "mongo", NEW c \in Calls, MongoStep(c)
  PROVE  \A i \in Ids : DBTime[rows'[i].exp] = rows'[i].exp
<1>1. rows \in [Ids -> Row] /\ \A i \in Ids : DBTime[rows[i].exp] = rows[i].exp
  BY Types DEF StoreInv, ContractInv, Rounded
<1>2. ASSUME NEW id, NEW row, Put(id, row), id \in Ids => DBTime[row.exp] = row.exp
      PROVE  \A i \in Ids : DBTime[rows'[i].exp] = rows'[i].exp
  <2>1. \A i \in Ids : rows'[i] = IF i = id THEN row ELSE rows[i]
    BY <1>1, <1>2 DEF Put
  <2>2. QED  BY <1>1, <1>2, <2>1
<1>3. ASSUME NEW ids, Remove(ids)
      PROVE  \A i \in Ids : DBTime[rows'[i].exp] = rows'[i].exp
  <2>1. \A i \in Ids : rows'[i] = IF i \in ids THEN [rows[i] EXCEPT !.st = "gone"] ELSE rows[i]
    BY <1>3 DEF Remove
  <2>2. ASSUME NEW i \in Ids
        PROVE  [rows[i] EXCEPT !.st = "gone"].exp = rows[i].exp
    <3>1. rows[i] \in Row
      BY <1>1
    <3>2. QED  BY <3>1 DEF Row
  <2>3. QED  BY <1>1, <2>1, <2>2
<1>4. ASSUME NEW row \in Row
      PROVE  DBTime[Document(row).exp] = Document(row).exp
  <2>1. row.exp \in Times /\ Document(row).exp = DBTime[row.exp]
    BY DEF Row, Document
  <2>2. QED  BY <2>1, StoreAssumption
<1>5. job[c].row \in Row
  BY Types DEF StoreInv, ContractInv, Job
<1>6. ASSUME job[c].id \in Ids
      PROVE  /\ [rows[job[c].id] EXCEPT !.used = TRUE].exp = rows[job[c].id].exp
             /\ [rows[job[c].id] EXCEPT !.st = "gone"].exp = rows[job[c].id].exp
  <2>1. rows[job[c].id] \in Row
    BY <1>1, <1>6
  <2>2. QED  BY <2>1 DEF Row
<1>7. CASE FindOne(c) \/ CountDocuments(c) \/ DeleteMany(c) \/ MongoFailure(c)
  BY <1>1, <1>7 DEF FindOne, CountDocuments, DeleteMany, MongoFailure
<1>8. CASE InsertOne(c) \/ ReplaceOne(c)
  <2>1. rows' = rows \/ Put(job[c].id, Document(job[c].row))
    BY <1>8 DEF InsertOne, ReplaceOne
  <2>2. QED  BY <1>1, <1>2, <1>4, <1>5, <2>1
<1>9. CASE UpdateOne(c)
  <2>1. rows' = rows \/ Put(job[c].id, [rows[job[c].id] EXCEPT !.used = TRUE])
    BY <1>9 DEF UpdateOne
  <2>2. QED  BY <1>1, <1>2, <1>6, <2>1
<1>10. CASE DeleteOne(c)
  <2>1. rows' = rows \/ Put(job[c].id, [rows[job[c].id] EXCEPT !.st = "gone"])
    BY <1>10 DEF DeleteOne
  <2>2. QED  BY <1>1, <1>2, <1>6, <2>1
<1>11. CASE DeleteNext(c)
  <2>1. rows' = rows \/ \E ids : Remove(ids)
    BY <1>11 DEF DeleteNext
  <2>2. QED  BY <1>1, <1>3, <2>1
<1>12. QED  BY <1>7, <1>8, <1>9, <1>10, <1>11 DEF MongoStep

\* A step of a store is a step of the contract, or none, and leaves the invariant.
LEMMA StepKeeps ==
  ASSUME StoreInv, NEW c \in Calls, Step(c)
  PROVE  [ContractNext]_contract /\ StoreInv'
<1>1. Outcome(c)
  BY MemoryOutcome, SqlOutcome, MongoOutcome DEF Step
<1>2. [ContractNext]_contract
  BY <1>1, OutcomeStep DEF StoreInv
<1>3. ContractInv'
  BY <1>2, ContractKeeps DEF StoreInv
<1>4. backend' = backend
  BY DEF Step
<1>5. TypeOK'
  BY <1>1, <1>3, <1>4, OutcomeFrame DEF TypeOK, StoreInv, ContractInv
<1>6. \A d \in Calls : (Running(d) /\ Told(d))'
  BY <1>1, OthersKeep, OwnKeeps
<1>7. Rounded'
  BY <1>4, MongoRounds DEF Step, Rounded
<1>8. QED  BY <1>2, <1>3, <1>5, <1>6, <1>7 DEF StoreInv

\* A method begins with a statement of its own.
Starts(l, op) ==
  /\ l \in ({"locked"} \cup SqlStatements \cup MongoCommands)
             \ {"select_one", "count_documents", "commit", "delete_next"}
  /\ Runs(l, op)

\* The methods that the memory store has.
LEMMA MemoryStarts ==
  ASSUME table \in AllTables, NEW op \in Methods[table]
  PROVE  Starts(MemoryFirst(op), op)
<1>1. Methods[table] = Maps[table].methods
  <2>1. /\ Methods["clients"] = Maps["clients"].methods /\ Methods["users"] = Maps["users"].methods
        /\ Methods["access"] = Maps["access"].methods
    BY DEF Maps, Methods, MemoryClients, MemoryUsers, MemoryAccessTokens, ClientStore, UserStore,
           AccessTokenStore
  <2>2. /\ Methods["refresh"] = Maps["refresh"].methods /\ Methods["codes"] = Maps["codes"].methods
        /\ Methods["links"] = Maps["links"].methods
    BY DEF Maps, Methods, MemoryRefreshTokens, MemoryAuthorizationCodes, MemoryUserTokens,
           RefreshTokenStore, AuthorizationCodeStore, UserTokenStore
  <2>3. QED  BY <2>1, <2>2 DEF AllTables
<1>2. MemoryFirst(op) = "locked"
  BY <1>1 DEF MemoryFirst
<1>3. QED  BY <1>2 DEF Starts, Runs

\* The methods that the SQL stores have.
LEMMA SqlStarts ==
  ASSUME table \in AllTables, NEW op \in Methods[table]
  PROVE  Starts(SqlFirst[table][op], op)
<1>1. CASE table = "clients" \/ table = "users"
  BY <1>1 DEF SqlFirst, Methods, SqlClients, SqlUsers, ClientStore, UserStore, Starts, Runs, SqlStatements
<1>2. CASE table = "access" \/ table = "links"
  BY <1>2 DEF SqlFirst, Methods, SqlAccessTokens, SqlUserTokens, AccessTokenStore, UserTokenStore,
              Starts, Runs, SqlStatements
<1>3. CASE table = "refresh"
  BY <1>3 DEF SqlFirst, Methods, SqlRefreshTokens, RefreshTokenStore, Starts, Runs, SqlStatements
<1>4. CASE table = "codes"
  BY <1>4 DEF SqlFirst, Methods, SqlAuthorizationCodes, AuthorizationCodeStore, Starts, Runs,
              SqlStatements
<1>5. QED  BY <1>1, <1>2, <1>3, <1>4 DEF AllTables

\* The methods that MongoDB has.
LEMMA MongoStarts ==
  ASSUME table \in AllTables, NEW op \in Methods[table]
  PROVE  Starts(MongoFirst[table][op], op)
<1>1. CASE table = "clients" \/ table = "users"
  BY <1>1 DEF MongoFirst, Methods, MongoClients, MongoUsers, ClientStore, UserStore, Starts, Runs,
              MongoCommands
<1>2. CASE table = "access" \/ table = "links"
  BY <1>2 DEF MongoFirst, Methods, MongoAccessTokens, MongoUserTokens, AccessTokenStore,
              UserTokenStore, Starts, Runs, MongoCommands
<1>3. CASE table = "refresh"
  BY <1>3 DEF MongoFirst, Methods, MongoRefreshTokens, RefreshTokenStore, Starts, Runs, MongoCommands
<1>4. CASE table = "codes"
  BY <1>4 DEF MongoFirst, Methods, MongoAuthorizationCodes, AuthorizationCodeStore, Starts, Runs,
              MongoCommands
<1>5. QED  BY <1>1, <1>2, <1>3, <1>4 DEF AllTables

\* A new call of a store is a new call of the contract.
LEMMA BeginKeeps ==
  ASSUME StoreInv, NEW c \in Calls, Begin(c)
  PROVE  [ContractNext]_contract /\ StoreInv'
<1>1. /\ ContractInv /\ TypeOK /\ table \in AllTables
      /\ \A d \in Calls : Running(d) /\ Told(d) /\ Seen(d)
  BY Types DEF StoreInv, ContractInv
<1>2. PICK j : Proper(c, j) /\ Call(c, j)
  BY <1>1, CallProper DEF Begin, ContractInv
<1>3. [ContractNext]_contract
  BY DEF Begin, ContractNext
<1>4. ContractInv'
  BY <1>1, <1>3, ContractKeeps
<1>5. /\ job' = [job EXCEPT ![c] = j] /\ job[c] = NoJob /\ answer' = answer /\ rows' = rows
      /\ may' = [may EXCEPT ![c] = Answers(j, rows)]
      /\ due' = [due EXCEPT ![c] = IF j.op = "delete_many" THEN Matching(j, rows) ELSE {}]
  BY <1>2 DEF Call
<1>6. /\ job'[c] = j /\ j # NoJob /\ answer'[c] = NoAnswer
      /\ \A d \in Calls \ {c} : job'[d] = job[d] /\ may'[d] = may[d] /\ due'[d] = due[d]
  BY <1>1, <1>2, <1>5, Types DEF ContractInv, Proper, Seen
<1> DEFINE l == First(j.op)
<1>7. pc' = [pc EXCEPT ![c] = l] /\ scan' = scan /\ backend' = backend
  BY <1>6 DEF Begin, Goto
<1>8. Starts(l, j.op)
  <2>1. j.op \in Methods[table]
    BY <1>2 DEF Proper
  <2>2. Starts(MemoryFirst(j.op), j.op) /\ Starts(SqlFirst[table][j.op], j.op)
        /\ Starts(MongoFirst[table][j.op], j.op)
    BY <1>1, <2>1, MemoryStarts, SqlStarts, MongoStarts
  <2>3. l \in {MemoryFirst(j.op), SqlFirst[table][j.op], MongoFirst[table][j.op]}
    BY DEF First
  <2>4. QED  BY <2>2, <2>3
<1> HIDE DEF l
<1>9. TypeOK'
  BY <1>1, <1>4, <1>7, <1>8 DEF TypeOK, ContractInv, Starts
<1>10. ASSUME NEW d \in Calls
       PROVE  (Running(d) /\ Told(d))'
  <2>1. CASE d = c
    <3>1. pc'[c] = l
      BY <1>1, <1>7 DEF TypeOK
    <3>2. QED  BY <1>6, <1>8, <2>1, <3>1 DEF Running, Told, Starts, Open
  <2>2. CASE d # c
    <3>1. pc'[d] = pc[d]
      BY <1>1, <1>7, <2>2 DEF TypeOK
    <3>2. QED  BY <1>1, <1>5, <1>6, <1>7, <2>2, <3>1 DEF Running, Told, Open
  <2>3. QED  BY <2>1, <2>2
<1>11. Rounded'
  BY <1>5, <1>7 DEF StoreInv, Rounded
<1>12. QED  BY <1>3, <1>4, <1>9, <1>10, <1>11 DEF StoreInv

\* Before the first call.
LEMMA StoreInit == Init => ContractInit /\ StoreInv
<1> SUFFICES ASSUME Init PROVE ContractInit /\ StoreInv
  OBVIOUS
<1>1. ContractInit /\ ContractInv
  BY ContractInvInit DEF Init
<1>2. TypeOK
  BY <1>1, BackendsAssumption DEF Init, TypeOK, ContractInv
<1>3. \A c \in Calls : Running(c) /\ Told(c)
  BY DEF Init, Running, Told
<1>4. Rounded
  <2>1. DBTime[0] = 0
    <3>1. 0 \in Times /\ DBTime[0] <= 0 /\ DBTime[0] \in Nat
      BY StoreAssumption
    <3> DEFINE d == DBTime[0]
    <3>2. d \in Nat /\ d <= 0
      BY <3>1
    <3> HIDE DEF d
    <3>3. d = 0
      BY <3>2
    <3>4. QED  BY <3>3 DEF d
  <2>2. \A i \in Ids : rows[i].exp = IF i \in Existing THEN SeedExp[i] ELSE 0
    BY <1>1 DEF ContractInit, NoRow
  <2>3. \A i \in Existing : DBTime[SeedExp[i]] = SeedExp[i]
    BY StoreAssumption
  <2>4. QED  BY <2>1, <2>2, <2>3 DEF Rounded
<1>5. QED  BY <1>1, <1>2, <1>3, <1>4 DEF StoreInv

\* Every step.
LEMMA StoreStep == StoreInv /\ [Next]_vars => [ContractNext]_contract /\ StoreInv'
<1>1. StoreInv /\ Next => [ContractNext]_contract /\ StoreInv'
  BY BeginKeeps, StepKeeps DEF Next
<1>2. StoreInv /\ UNCHANGED vars => UNCHANGED contract /\ StoreInv'
  <2> SUFFICES ASSUME StoreInv, UNCHANGED vars PROVE UNCHANGED contract /\ StoreInv'
    OBVIOUS
  <2>1. UNCHANGED contract /\ UNCHANGED <<pc, scan, backend>>
    BY DEF vars
  <2>2. ContractInv'
    BY <2>1, ContractKeeps DEF StoreInv
  <2>3. TypeOK'
    BY <2>1, <2>2 DEF StoreInv, TypeOK, ContractInv
  <2>4. \A c \in Calls : (Running(c) /\ Told(c))'
    BY <2>1 DEF contract, StoreInv, Running, Told, Open
  <2>5. Rounded'
    BY <2>1 DEF contract, StoreInv, Rounded
  <2>6. QED  BY <2>1, <2>2, <2>3, <2>4, <2>5 DEF StoreInv
<1>3. QED  BY <1>1, <1>2

\* The invariant holds always.
LEMMA StoreAlways == Spec => []StoreInv
BY StoreInit, StoreStep, PTL DEF Spec

\* The tables and the calls always have their types.
THEOREM TypeCorrect == Spec => []TypeOK
<1>1. StoreInv => TypeOK
  BY DEF StoreInv
<1>2. QED  BY <1>1, StoreAlways, PTL

\* Every store keeps the promises of pkg/store, whatever overtakes a call between its
\* statements.
THEOREM EveryStore == Spec => ImplementsContract
<1>1. Init => ContractInit
  BY StoreInit
<1>2. QED  BY <1>1, StoreStep, StoreAlways, PTL DEF Spec, ImplementsContract, ContractSpec

\* No two rows of a store have the same value in a unique column.
THEOREM KeysUnique == Spec => []UniqueKeys
BY EveryStore, ContractUnique, PTL DEF ImplementsContract

\* No store tells two calls that they consumed a code.
THEOREM ConsumedByOne == Spec => []ConsumedOnce
BY EveryStore, ContractConsumed, PTL DEF ImplementsContract

================================================================================
