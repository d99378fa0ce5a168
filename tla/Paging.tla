-------------------------------- MODULE Paging ---------------------------------
(***************************************************************************)
(* The lists of pkg/api and of every store, read page after page by an     *)
(* administrator while rows come and go.                                   *)
(*                                                                         *)
(* Memory counts and reads under one lock, the SQL stores and MongoDB by   *)
(* two queries.  The administrator asks for the next page until a page is  *)
(* not full; every page is a request of its own.                           *)
(***************************************************************************)
EXTENDS Integers, FiniteSets, Sequences, SequencesExt

CONSTANTS
  Ids,                     \* numbers, in the order of the ids
  Tags,                    \* what lists are filtered by: an owner, or a text to search for
  None,
  MaxTime,                 \* bound
  MaxDepartures,           \* bound: how often rows leave a list
  DefaultLimit, MaxLimit,
  Limits,                  \* bound: the limits that are asked for, 0 for none
  Lists,                   \* bound: the lists of the instance
  Backends                 \* bound: the stores of the instance

AllLists == {"clients", "users", "access_tokens", "refresh_tokens"}
AllBackends == {"memory", "sql", "mongo"}

ASSUME PagingAssumption ==
  /\ Ids \subseteq Nat /\ IsFiniteSet(Ids)
  /\ None \notin Tags
  /\ MaxTime \in Nat /\ MaxDepartures \in Nat
  /\ DefaultLimit \in 1..MaxLimit /\ MaxLimit \in Nat
  /\ Limits \subseteq Nat
  /\ Lists \subseteq AllLists /\ Backends \subseteq AllBackends

VARIABLES
  backend, list,  \* of this behaviour
  now,
  rows,           \* id -> row
  pc,             \* where the request for a page is
  opts,           \* its ListOptions
  filter,         \* its filter
  total, items,   \* its answer
  began,          \* the rows that matched when the first page was asked for
  seen,           \* the rows on the pages so far
  left,           \* the rows that matched and were then deleted or changed
  departures      \* how often a row did

vars ==
  <<backend, list, now, rows, pc, opts, filter, total, items, began, seen, left, departures>>
table == <<now, rows, left, departures>>
reader == <<pc, opts, filter, total, items, began, seen>>

Time == 0..MaxTime

Row == [st : {"none", "stored", "gone"}, created : Time, exp : Time, tag : Tags \cup {None}]

Blank(st) == [st |-> st, created |-> 0, exp |-> 0, tag |-> None]

\* The answers and their bounds.
TypeOK ==
  /\ backend \in AllBackends /\ list \in AllLists
  /\ now \in Time
  /\ rows \in [Ids -> Row]
  /\ pc \in {"idle", "locked", "count", "select", "respond", "done"}
  /\ opts.offset \in Nat /\ opts.limit \in 1..MaxLimit
  /\ filter.tag \in Tags \cup {None} /\ filter.expired \in BOOLEAN
  /\ total \in 0..Cardinality(Ids)
  /\ items \in Seq(Ids) /\ Len(items) <= opts.limit
  /\ {began, seen, left} \subseteq SUBSET Ids
  /\ departures \in 0..MaxDepartures

\* Deviation: a limit is not cut to the maximum.
NormalizeUncapped(o) == [o EXCEPT !.limit = IF @ <= 0 THEN DefaultLimit ELSE @]

Normalize(o) ==
  [offset |-> IF o.offset < 0 THEN 0 ELSE o.offset,
   limit |-> IF o.limit <= 0 THEN DefaultLimit ELSE IF o.limit > MaxLimit THEN MaxLimit ELSE o.limit]

Init ==
  /\ backend \in Backends /\ list \in Lists
  /\ now = 0
  /\ rows = [i \in Ids |-> Blank("none")]
  /\ pc = "idle"
  /\ opts = Normalize([offset |-> 0, limit |-> 0])
  /\ filter = [tag |-> None, expired |-> FALSE]
  /\ total = 0 /\ items = <<>>
  /\ began = {} /\ seen = {} /\ left = {} /\ departures = 0

--------------------------------------------------------------------------------
(***************************************************************************)
(* Rows                                                                    *)
(***************************************************************************)

\* The filter at an instant: of a user its tag, of a token also whether it has expired.
Matching(f, table_, t) ==
  {i \in Ids :
     /\ table_[i].st = "stored"
     /\ f.tag # None => table_[i].tag = f.tag
     /\ f.expired => table_[i].exp <= t}

\* Bound: what happens after the last page is left out.
Walking == pc # "done"

Tick ==
  /\ Walking /\ now < MaxTime
  /\ now' = now + 1
  /\ UNCHANGED <<backend, list, rows, left, departures, reader>>

\* The columns that a list is filtered by.
NewTags == IF list = "clients" THEN {None} ELSE Tags
NewExpiries == IF list \in {"access_tokens", "refresh_tokens"} THEN Time ELSE {0}

\* A row is stored some time after its creation time was taken.
Create(i) ==
  /\ Walking /\ rows[i].st = "none"
  /\ \E created \in 0..now, exp \in NewExpiries, tag \in NewTags :
       rows' = [rows EXCEPT ![i] = [st |-> "stored", created |-> created, exp |-> exp, tag |-> tag]]
  /\ UNCHANGED <<backend, list, now, left, departures, reader>>

\* Bound: what leaves before the first page is left out.
Leaves(i, row) ==
  /\ Walking /\ pc # "idle" /\ departures < MaxDepartures
  /\ rows' = [rows EXCEPT ![i] = row]
  /\ LET leaving == Matching(filter, rows, now) \ Matching(filter, rows', now) IN
       /\ left' = left \cup leaving
       /\ departures' = departures + Cardinality(leaving)
  /\ UNCHANGED <<backend, list, now, reader>>

Delete(i) == rows[i].st = "stored" /\ Leaves(i, Blank("gone"))

\* A user is renamed.  The creation time stays.
Rename(i) ==
  /\ list = "users" /\ rows[i].st = "stored"
  /\ \E t \in Tags \ {rows[i].tag} : Leaves(i, [rows[i] EXCEPT !.tag = t])

--------------------------------------------------------------------------------
(***************************************************************************)
(* Pages                                                                   *)
(***************************************************************************)

\* Deviation: rows that were created at once are in no order.
PrecedesByTime(a, b) == rows[a].created < rows[b].created

Precedes(a, b) ==
  rows[a].created < rows[b].created \/ (rows[a].created = rows[b].created /\ a < b)

\* The rows of S in order; what compares equal comes in any order.
Sorted(S) ==
  {q \in SetToSeqs(S) : \A n \in 1..Len(q), m \in 1..Len(q) : n < m => ~Precedes(q[m], q[n])}

Smaller(a, b) == IF a < b THEN a ELSE b

Page(q, o) == SubSeq(q, o.offset + 1, Smaller(o.offset + o.limit, Len(q)))

\* listOptions
Request(offset, limit) ==
  /\ opts' = Normalize([offset |-> offset, limit |-> limit])
  /\ pc' = IF backend = "memory" THEN "locked" ELSE "count"
  /\ total' = 0 /\ items' = <<>>

First(f, limit) ==
  /\ pc = "idle"
  /\ filter' = f
  /\ Request(0, limit)
  /\ began' = Matching(f, rows, now)
  /\ UNCHANGED <<backend, list, table, seen>>

ListClients(limit) == list = "clients" /\ First([tag |-> None, expired |-> FALSE], limit)

ListUsers(limit) ==
  /\ list = "users"
  /\ \E search \in Tags \cup {None} : First([tag |-> search, expired |-> FALSE], limit)

TokenFilter == [tag : Tags \cup {None}, expired : BOOLEAN]

ListAccessTokens(limit) == list = "access_tokens" /\ \E f \in TokenFilter : First(f, limit)

ListRefreshTokens(limit) == list = "refresh_tokens" /\ \E f \in TokenFilter : First(f, limit)

\* page of the memory store
MemoryPage ==
  LET found == Matching(filter, rows, now) IN
  /\ pc = "locked"
  /\ total' = Cardinality(found)
  /\ \E q \in Sorted(found) :
       items' = IF opts.offset >= Cardinality(found) THEN <<>> ELSE Page(q, opts)
  /\ pc' = "respond"
  /\ UNCHANGED <<backend, list, table, opts, filter, began, seen>>

\* list of the SQL stores, which reads nothing past the end
SqlCount ==
  LET n == Cardinality(Matching(filter, rows, now)) IN
  /\ backend = "sql" /\ pc = "count"
  /\ total' = n
  /\ pc' = IF n = 0 \/ opts.offset >= n THEN "respond" ELSE "select"
  /\ UNCHANGED <<backend, list, table, opts, filter, items, began, seen>>

\* findPage of MongoDB
MongoCount ==
  /\ backend = "mongo" /\ pc = "count"
  /\ total' = Cardinality(Matching(filter, rows, now))
  /\ pc' = "select"
  /\ UNCHANGED <<backend, list, table, opts, filter, items, began, seen>>

Select ==
  /\ pc = "select"
  /\ \E q \in Sorted(Matching(filter, rows, now)) : items' = Page(q, opts)
  /\ pc' = "respond"
  /\ UNCHANGED <<backend, list, table, opts, filter, total, began, seen>>

\* respondList.  The administrator goes on after a full page, with the limit it was told.
Respond ==
  /\ pc = "respond"
  /\ seen' = seen \cup ToSet(items)
  /\ \/ /\ Len(items) < opts.limit
        /\ pc' = "done"
        /\ UNCHANGED <<opts, total, items>>
     \/ /\ Len(items) = opts.limit
        /\ Request(opts.offset + opts.limit, opts.limit)
  /\ UNCHANGED <<backend, list, table, filter, began>>

Next ==
  \/ Tick
  \/ \E i \in Ids : Create(i) \/ Delete(i) \/ Rename(i)
  \/ \E limit \in Limits :
       ListClients(limit) \/ ListUsers(limit) \/ ListAccessTokens(limit) \/ ListRefreshTokens(limit)
  \/ MemoryPage \/ SqlCount \/ MongoCount \/ Select \/ Respond

Spec == Init /\ [][Next]_vars

--------------------------------------------------------------------------------
(***************************************************************************)
(* Properties                                                              *)
(***************************************************************************)

\* A walk through the pages misses no row that was there all the while, but one for each time
\* that a row left: rows that come, however early they were created, push none off the pages.
NoneMissed ==
  pc = "done" => Cardinality(began \ (seen \cup left)) <= departures

================================================================================
