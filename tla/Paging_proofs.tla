----------------------------- MODULE Paging_proofs -----------------------------
(***************************************************************************)
(* Theorems about Paging, for every set of rows, any limits, any number of *)
(* departures, every list and every store.                                 *)
(*                                                                         *)
(* A row has a rank, the number of rows before it.  A page is what has a   *)
(* rank within its bounds; a row is passed over only by a rank that falls, *)
(* and all ranks fall by at most one when a row leaves.                    *)
(***************************************************************************)
EXTENDS Paging, FiniteSetTheorems, SequenceTheorems, TLAPS

Present == Matching(filter, rows, now)

\* The rows of S in front of x; their number is the rank of x.
Before(x, S) == {y \in S : Precedes(y, x)}

--------------------------------------------------------------------------------
(***************************************************************************)
(* Ranks                                                                   *)
(***************************************************************************)

Rows == rows \in [Ids -> Row]

\* The order of the rows is total.
LEMMA Order ==
  ASSUME Rows
  PROVE  /\ \A a \in Ids : ~Precedes(a, a)
         /\ \A a, b \in Ids : a # b => Precedes(a, b) \/ Precedes(b, a)
         /\ \A a, b \in Ids : ~(Precedes(a, b) /\ Precedes(b, a))
         /\ \A a, b, c \in Ids : Precedes(a, b) /\ Precedes(b, c) => Precedes(a, c)
<1>1. \A a \in Ids : a \in Nat /\ rows[a].created \in Nat
  BY PagingAssumption DEF Rows, Row, Time
<1>2. QED  BY <1>1 DEF Precedes

\* The rows in front of a row are fewer than all.
LEMMA RankBound ==
  ASSUME Rows, NEW S \in SUBSET Ids, NEW x \in S
  PROVE  /\ IsFiniteSet(S) /\ IsFiniteSet(Before(x, S))
         /\ Cardinality(S) \in Nat /\ Cardinality(Before(x, S)) \in Nat
         /\ Cardinality(Before(x, S)) < Cardinality(S)
<1>1. IsFiniteSet(S)
  BY PagingAssumption, FS_Subset
<1>2. Before(x, S) \in SUBSET S /\ x \notin Before(x, S)
  BY Order DEF Before
<1>3. IsFiniteSet(Before(x, S)) /\ Cardinality(Before(x, S)) <= Cardinality(S)
      /\ Cardinality(Before(x, S)) # Cardinality(S)
  BY <1>1, <1>2, FS_Subset
<1>4. QED  BY <1>1, <1>3, FS_CardinalityType

\* No two rows have one rank.
LEMMA RankUnique ==
  ASSUME Rows, NEW S \in SUBSET Ids, NEW x \in S, NEW y \in S,
         Cardinality(Before(x, S)) = Cardinality(Before(y, S))
  PROVE  x = y
<1>1. ASSUME NEW a \in S, NEW b \in S, Precedes(a, b)
      PROVE  Cardinality(Before(a, S)) # Cardinality(Before(b, S))
  <2>1. Before(a, S) \in SUBSET Before(b, S) /\ a \in Before(b, S) /\ a \notin Before(a, S)
    BY <1>1, Order DEF Before
  <2>2. QED  BY <2>1, RankBound, FS_Subset
<1>2. QED  BY <1>1, Order

\* The rank of a row is its place in any sorting, and every row has a place.
LEMMA SortedRank ==
  ASSUME Rows, NEW S \in SUBSET Ids, NEW q \in Sorted(S)
  PROVE  /\ q \in Seq(S) /\ Len(q) = Cardinality(S)
         /\ \A n \in 1..Len(q) : Cardinality(Before(q[n], S)) = n - 1
         /\ \A x \in S : \E n \in 1..Len(q) : q[n] = x
<1> DEFINE D == 1..Cardinality(S)
<1>1. IsFiniteSet(S) /\ Cardinality(S) \in Nat
  BY PagingAssumption, FS_Subset, FS_CardinalityType
<1>2. /\ q \in [D -> S]
      /\ \A i, j \in D : i # j => q[i] # q[j]
      /\ \A n \in 1..Len(q), m \in 1..Len(q) : n < m => ~Precedes(q[m], q[n])
  BY DEF Sorted, SetToSeqs
<1>3. q \in Seq(S) /\ Len(q) = Cardinality(S)
  BY <1>1, <1>2
<1>4. \A x \in S : \E n \in D : q[n] = x
  <2>1. q \in Injection(D, S)
    BY <1>2 DEF Injection, IsInjective
  <2>2. Cardinality(D) = Cardinality(S)
    BY <1>1, FS_Interval
  <2>3. q \in Surjection(D, S)
    BY <1>1, <2>1, <2>2, FS_Injection
  <2>4. QED  BY <2>3 DEF Surjection
<1>5. ASSUME NEW n \in D
      PROVE  Cardinality(Before(q[n], S)) = n - 1
  <2> DEFINE front == [m \in 1..(n - 1) |-> q[m]]
  <2>1. \A m \in D : Precedes(q[m], q[n]) <=> m < n
    <3>1. TAKE m \in D
    <3>2. q[m] \in Ids /\ q[n] \in Ids /\ m \in Nat /\ n \in Nat
      BY <1>1, <1>2
    <3>3. m < n => ~Precedes(q[n], q[m]) /\ q[m] # q[n]
      BY <1>2, <1>3, <3>2
    <3>4. n < m => ~Precedes(q[m], q[n])
      BY <1>2, <1>3, <3>2
    <3>5. QED  BY <3>2, <3>3, <3>4, Order
  <2>2. front \in [1..(n - 1) -> Before(q[n], S)]
    BY <1>1, <1>2, <2>1 DEF Before
  <2>3. front \in Injection(1..(n - 1), Before(q[n], S))
    BY <1>1, <1>2, <2>2 DEF Injection, IsInjective
  <2>4. ASSUME NEW y \in Before(q[n], S)
        PROVE  \E m \in 1..(n - 1) : front[m] = y
    <3>1. PICK m \in D : q[m] = y
      BY <1>4 DEF Before
    <3>2. m < n
      BY <2>1, <3>1 DEF Before
    <3>3. QED  BY <1>1, <3>1, <3>2
  <2> HIDE DEF front
  <2>5. front \in Surjection(1..(n - 1), Before(q[n], S))
    BY <2>2, <2>4 DEF Surjection
  <2>6. front \in Bijection(1..(n - 1), Before(q[n], S))
    BY <2>3, <2>5 DEF Bijection
  <2>7. ExistsBijection(1..(n - 1), Before(q[n], S))
    BY <2>6 DEF ExistsBijection
  <2>8. IsFiniteSet(1..(n - 1)) /\ Cardinality(1..(n - 1)) = n - 1
    <3>1. n \in Int /\ n - 1 \in Int /\ n >= 1
      BY <1>1
    <3>2. QED  BY <3>1, FS_Interval
  <2>9. QED  BY <2>7, <2>8, FS_Bijection
<1>6. D = 1..Len(q)
  BY <1>3
<1>7. QED  BY <1>3, <1>4, <1>5, <1>6

\* A page has the rows whose rank is within its bounds; when it is not full, they are the last.
LEMMA PageRanks ==
  ASSUME Rows, NEW S \in SUBSET Ids, NEW q \in Sorted(S),
         NEW o, o.offset \in Nat, o.limit \in Nat
  PROVE  /\ Page(q, o) \in Seq(Ids) /\ Len(Page(q, o)) <= o.limit
         /\ Len(Page(q, o)) < o.limit => Cardinality(S) < o.offset + o.limit
         /\ \A x \in S : /\ o.offset <= Cardinality(Before(x, S))
                         /\ Cardinality(Before(x, S)) < o.offset + o.limit
                         => x \in ToSet(Page(q, o))
         /\ o.offset >= Cardinality(S) => Page(q, o) = <<>>
<1>1. /\ q \in Seq(S) /\ Len(q) = Cardinality(S)
      /\ \A n \in 1..Len(q) : Cardinality(Before(q[n], S)) = n - 1
      /\ \A x \in S : \E n \in 1..Len(q) : q[n] = x
  BY SortedRank
<1>2. PICK from, limit, len \in Nat : from = o.offset /\ limit = o.limit /\ len = Len(q)
  BY <1>1
<1>3. PICK lo, hi \in Nat : lo = from + 1 /\ hi = Smaller(from + limit, len)
  BY <1>2 DEF Smaller
<1>4. /\ hi <= len /\ hi - lo + 1 <= limit
      /\ hi = len \/ hi = from + limit
  BY <1>3 DEF Smaller
<1>5. \A i \in lo..hi : q[i] \in Ids
  <2>1. ASSUME NEW i \in lo..hi  PROVE  i \in 1..len
    BY <1>3, <1>4
  <2>2. QED  BY <1>1, <1>2, <2>1
<1>6. /\ SubSeq(q, lo, hi) \in Seq(Ids)
      /\ Len(SubSeq(q, lo, hi)) = IF lo <= hi THEN hi - lo + 1 ELSE 0
      /\ \A i \in 1..(hi - lo + 1) : SubSeq(q, lo, hi)[i] = q[lo + i - 1]
  BY <1>5, SubSeqProperties
<1>7. Page(q, o) = SubSeq(q, lo, hi)
  BY <1>2, <1>3 DEF Page
<1>8. ASSUME NEW x \in S, o.offset <= Cardinality(Before(x, S)),
             Cardinality(Before(x, S)) < o.offset + o.limit
      PROVE  x \in ToSet(Page(q, o))
  <2>1. PICK n \in 1..Len(q) : q[n] = x
    BY <1>1
  <2>2. n \in Nat /\ n <= len /\ n - 1 >= from /\ n - 1 < from + limit
    BY <1>1, <1>2, <1>8, <2>1
  <2>3. PICK k \in Int : k = n - from
    BY <2>2
  <2>4. k \in 1..(hi - lo + 1) /\ lo + k - 1 = n /\ lo <= hi
    BY <1>3, <1>4, <2>2, <2>3
  <2>5. SubSeq(q, lo, hi)[k] = x
    BY <1>6, <2>1, <2>4
  <2>6. k \in DOMAIN SubSeq(q, lo, hi)
    BY <1>6, <2>4
  <2>7. QED  BY <1>7, <2>5, <2>6 DEF ToSet
<1>9. Len(Page(q, o)) = IF lo <= hi THEN hi - lo + 1 ELSE 0
  BY <1>6, <1>7
<1>10. PICK size \in Nat : size = Len(Page(q, o)) /\ size = IF lo <= hi THEN hi - lo + 1 ELSE 0
  <2>1. (IF lo <= hi THEN hi - lo + 1 ELSE 0) \in Nat
    BY <1>3
  <2>2. QED  BY <1>9, <2>1
<1>11. size <= limit /\ (size < limit => len < from + limit)
  BY <1>3, <1>4, <1>10
<1>12. Len(Page(q, o)) <= o.limit
  BY <1>2, <1>10, <1>11
<1>13. Len(Page(q, o)) < o.limit => Cardinality(S) < o.offset + o.limit
  BY <1>1, <1>2, <1>10, <1>11
<1>14. o.offset >= Cardinality(S) => Page(q, o) = <<>>
  <2>1. SUFFICES ASSUME from >= len  PROVE  SubSeq(q, lo, hi) = <<>>
    BY <1>1, <1>2, <1>7
  <2>2. hi < lo
    BY <1>3, <1>4, <2>1
  <2>3. QED  BY <2>2, SubSeqEmpty
<1>15. QED  BY <1>6, <1>7, <1>8, <1>12, <1>13, <1>14

--------------------------------------------------------------------------------
(***************************************************************************)
(* The types                                                               *)
(***************************************************************************)

LEMMA Matches ==
  ASSUME NEW f, NEW t, NEW u
  PROVE  /\ Matching(f, t, u) \subseteq Ids
         /\ IsFiniteSet(Matching(f, t, u))
         /\ Cardinality(Matching(f, t, u)) \in 0..Cardinality(Ids)
<1>1. Matching(f, t, u) \subseteq Ids
  BY DEF Matching
<1>2. IsFiniteSet(Ids)
  BY PagingAssumption
<1>3. QED  BY <1>1, <1>2, FS_Subset, FS_CardinalityType

LEMMA NormalizeType ==
  ASSUME NEW offset \in Int, NEW limit \in Int
  PROVE  Normalize([offset |-> offset, limit |-> limit]) \in [offset : Nat, limit : 1..MaxLimit]
BY PagingAssumption DEF Normalize

\* A row has the time, the owner and the expiry of its list.
LEMMA CreateType ==
  ASSUME TypeOK, NEW i \in Ids, Create(i)
  PROVE  rows' \in [Ids -> Row]
<1>1. PICK created \in 0..now, exp \in NewExpiries, tag \in NewTags :
        rows' = [rows EXCEPT ![i] = [st |-> "stored", created |-> created, exp |-> exp, tag |-> tag]]
  BY DEF Create
<1>2. created \in Time /\ exp \in Time /\ tag \in Tags \cup {None}
  BY PagingAssumption DEF TypeOK, Time, NewExpiries, NewTags
<1>3. QED  BY <1>1, <1>2 DEF TypeOK, Row

\* At most the row that is written leaves.
LEMMA LeavesOne ==
  ASSUME TypeOK, NEW i \in Ids, NEW row \in Row, Leaves(i, row)
  PROVE  /\ rows' = [rows EXCEPT ![i] = row] /\ rows' \in [Ids -> Row]
         /\ UNCHANGED <<backend, list, now, reader>>
         /\ \/ i \in Present /\ i \notin Present' /\ left' = left \cup {i} /\ departures' = departures + 1
            \/ (i \in Present => i \in Present') /\ left' = left /\ departures' = departures
         /\ left' \subseteq Ids /\ departures' \in 0..MaxDepartures
<1> DEFINE leaving == Present \ Present'
<1>1. /\ rows' = [rows EXCEPT ![i] = row] /\ departures < MaxDepartures
      /\ UNCHANGED <<backend, list, now, reader>>
  BY DEF Leaves
<1>2. rows' \in [Ids -> Row] /\ \A j \in Ids \ {i} : rows'[j] = rows[j]
  BY <1>1 DEF TypeOK
<1>3. filter' = filter /\ now' = now
  BY <1>1 DEF reader
<1>4. left' = left \cup leaving /\ departures' = departures + Cardinality(leaving)
  BY <1>3 DEF Leaves, Present
<1>5. leaving \subseteq {i}
  BY <1>2, <1>3 DEF Present, Matching
<1>6. CASE leaving = {}
  <2>1. Cardinality(leaving) = 0
    BY <1>6, FS_EmptySet
  <2>2. QED  BY <1>1, <1>2, <1>4, <1>6, <2>1 DEF TypeOK
<1>7. CASE leaving = {i}
  <2>1. Cardinality(leaving) = 1
    BY <1>7, FS_Singleton
  <2>2. QED  BY <1>1, <1>2, <1>4, <1>7, <2>1, PagingAssumption DEF TypeOK
<1>8. QED  BY <1>5, <1>6, <1>7

LEMMA DeleteLeaves ==
  ASSUME TypeOK, NEW i \in Ids, Delete(i)
  PROVE  Blank("gone") \in Row /\ Leaves(i, Blank("gone"))
BY PagingAssumption DEF Delete, Row, Blank, Time

LEMMA RenameLeaves ==
  ASSUME TypeOK, NEW i \in Ids, Rename(i)
  PROVE  \E t \in Tags : /\ [rows[i] EXCEPT !.tag = t] \in Row
                         /\ Leaves(i, [rows[i] EXCEPT !.tag = t])
<1>1. PICK t \in Tags : Leaves(i, [rows[i] EXCEPT !.tag = t])
  BY DEF Rename
<1>2. rows[i] \in Row
  BY DEF TypeOK
<1>3. [rows[i] EXCEPT !.tag = t] \in Row
  BY <1>2 DEF Row
<1>4. QED  BY <1>1, <1>3

\* Every read answers with a page of what is present; past the end it is empty.
LEMMA ReadsPage ==
  ASSUME TypeOK, MemoryPage \/ Select
  PROVE  /\ \E q \in Sorted(Present) : items' = Page(q, opts)
         /\ pc \in {"locked", "select"} /\ pc' = "respond"
         /\ UNCHANGED <<backend, list, table, opts, filter, began, seen>>
         /\ total' \in 0..Cardinality(Ids)
<1>1. CASE MemoryPage
  <2>1. PICK q \in Sorted(Present) :
          items' = IF opts.offset >= Cardinality(Present) THEN <<>> ELSE Page(q, opts)
    BY <1>1 DEF MemoryPage, Present
  <2>2. Present \in SUBSET Ids /\ Cardinality(Present) \in 0..Cardinality(Ids)
    BY Matches DEF Present
  <2>3. opts.offset >= Cardinality(Present) => Page(q, opts) = <<>>
    BY <2>2, PageRanks, PagingAssumption DEF TypeOK, Rows
  <2>4. QED  BY <1>1, <2>1, <2>2, <2>3 DEF MemoryPage, Present
<1>2. CASE Select
  BY <1>2 DEF Select, Present, TypeOK
<1>3. QED  BY <1>1, <1>2

LEMMA FirstType ==
  ASSUME TypeOK, NEW limit \in Limits, NEW f \in TokenFilter, First(f, limit)
  PROVE  /\ opts' \in [offset : Nat, limit : 1..MaxLimit]
         /\ pc = "idle" /\ pc' \in {"locked", "count"} /\ total' = 0 /\ items' = <<>>
         /\ filter' = f /\ began' = Present' /\ opts'.offset = 0
         /\ UNCHANGED <<backend, list, table, seen>>
<1>1. limit \in Int
  BY PagingAssumption
<1>2. opts' = Normalize([offset |-> 0, limit |-> limit])
  BY DEF First, Request
<1>3. opts' \in [offset : Nat, limit : 1..MaxLimit]
  BY <1>1, <1>2, NormalizeType
<1>4. opts'.offset = 0
  BY <1>2 DEF Normalize
<1>5. QED  BY <1>3, <1>4 DEF First, Request, Present, table

LEMMA ListIsFirst ==
  ASSUME NEW limit \in Limits,
         ListClients(limit) \/ ListUsers(limit) \/ ListAccessTokens(limit) \/ ListRefreshTokens(limit)
  PROVE  \E f \in TokenFilter : First(f, limit)
BY DEF ListClients, ListUsers, ListAccessTokens, ListRefreshTokens, TokenFilter

LEMMA RespondType ==
  ASSUME TypeOK, Respond
  PROVE  /\ pc = "respond" /\ seen' = seen \cup ToSet(items)
         /\ UNCHANGED <<backend, list, table, filter, began>>
         /\ \/ Len(items) < opts.limit /\ pc' = "done" /\ UNCHANGED <<opts, total, items>>
            \/ /\ Len(items) = opts.limit
               /\ opts' = [offset |-> opts.offset + opts.limit, limit |-> opts.limit]
               /\ pc' \in {"locked", "count"} /\ total' = 0 /\ items' = <<>>
<1>1. opts.offset \in Nat /\ opts.limit \in 1..MaxLimit /\ MaxLimit \in Nat
  BY PagingAssumption DEF TypeOK
<1>2. Normalize([offset |-> opts.offset + opts.limit, limit |-> opts.limit])
      = [offset |-> opts.offset + opts.limit, limit |-> opts.limit]
  BY <1>1 DEF Normalize
<1>3. QED  BY <1>2 DEF Respond, Request

LEMMA Elements ==
  /\ ToSet(<<>>) = {} /\ Len(<<>>) = 0 /\ \A S : <<>> \in Seq(S)
  /\ \A S : \A q \in Seq(S) : ToSet(q) \subseteq S
BY DEF ToSet

\* Every answer is a page of the list: no more rows than the limit that was granted, and a total
\* that the table can have.
THEOREM TypeCorrect == Spec => []TypeOK
<1>1. Init => TypeOK
  <2> SUFFICES ASSUME Init  PROVE  TypeOK
    OBVIOUS
  <2>2. Normalize([offset |-> 0, limit |-> 0]) \in [offset : Nat, limit : 1..MaxLimit]
    BY NormalizeType
  <2>3. rows \in [Ids -> Row]
    BY PagingAssumption DEF Init, Row, Blank, Time
  <2>4. Cardinality(Ids) \in Nat
    BY PagingAssumption, FS_CardinalityType
  <2>5. backend \in AllBackends /\ list \in AllLists /\ now \in Time
    BY PagingAssumption DEF Init, Time
  <2>6. opts.offset \in Nat /\ opts.limit \in 1..MaxLimit /\ opts.limit \in Nat
    BY <2>2, PagingAssumption DEF Init
  <2>7. items \in Seq(Ids) /\ Len(items) <= opts.limit
    BY <2>6, Elements DEF Init
  <2>8. {began, seen, left} \subseteq SUBSET Ids /\ departures \in 0..MaxDepartures
    BY PagingAssumption DEF Init
  <2>9. total \in 0..Cardinality(Ids)
    BY <2>4 DEF Init
  <2>10. QED  BY <2>3, <2>5, <2>6, <2>7, <2>8, <2>9 DEF Init, TypeOK
<1>2. TypeOK /\ [Next]_vars => TypeOK'
  <2>1. SUFFICES ASSUME TypeOK, [Next]_vars  PROVE  TypeOK'
    OBVIOUS
  <2>2. ASSUME NEW i \in Ids, NEW row \in Row, Leaves(i, row)  PROVE  TypeOK'
    BY <2>1, <2>2, LeavesOne DEF TypeOK, reader
  <2>3. CASE Tick
    BY <2>1, <2>3, PagingAssumption DEF Tick, TypeOK, reader, Time
  <2>4. ASSUME NEW i \in Ids, Create(i)  PROVE  TypeOK'
    BY <2>1, <2>4, CreateType DEF Create, TypeOK, reader
  <2>5. ASSUME NEW i \in Ids, Delete(i)  PROVE  TypeOK'
    BY <2>1, <2>2, <2>5, DeleteLeaves
  <2>6. ASSUME NEW i \in Ids, Rename(i)  PROVE  TypeOK'
    <3>1. rows[i] \in Row
      BY <2>1 DEF TypeOK
    <3>2. QED  BY <2>1, <2>2, <2>6, RenameLeaves
  <2>7. ASSUME NEW limit \in Limits, NEW f \in TokenFilter, First(f, limit)  PROVE  TypeOK'
    <3>1. Present' \subseteq Ids
      BY DEF Present, Matching
    <3>2. Cardinality(Ids) \in Nat
      BY PagingAssumption, FS_CardinalityType
    <3>3. /\ opts' \in [offset : Nat, limit : 1..MaxLimit]
          /\ total' = 0 /\ items' = <<>> /\ pc' \in {"locked", "count"} /\ began' = Present'
          /\ filter' = f /\ UNCHANGED <<backend, list, table, seen>>
      BY <2>1, <2>7, FirstType
    <3>4. opts'.offset \in Nat /\ opts'.limit \in 1..MaxLimit /\ opts'.limit \in Nat
      BY <3>3, PagingAssumption
    <3>5. /\ opts'.offset \in Nat /\ opts'.limit \in 1..MaxLimit /\ opts'.limit \in Nat
          /\ total' = 0 /\ items' = <<>> /\ pc' \in {"locked", "count"} /\ began' \subseteq Ids
          /\ filter' = f /\ UNCHANGED <<backend, list, now, rows, seen, left, departures>>
      BY <3>1, <3>3, <3>4 DEF table
    <3>6. items' \in Seq(Ids) /\ Len(items') <= opts'.limit
      BY <3>5, Elements
    <3>7. total' \in 0..Cardinality(Ids)
      BY <3>2, <3>5
    <3>8. QED  BY <2>1, <3>5, <3>6, <3>7 DEF TypeOK, TokenFilter
  <2>8. CASE MemoryPage \/ Select
    <3>1. PICK q \in Sorted(Present) : items' = Page(q, opts)
      BY <2>1, <2>8, ReadsPage
    <3>2. Present \in SUBSET Ids
      BY DEF Present, Matching
    <3>3. items' \in Seq(Ids) /\ Len(items') <= opts.limit
      BY <2>1, <3>1, <3>2, PageRanks, PagingAssumption DEF TypeOK, Rows
    <3>4. QED  BY <2>1, <2>8, <3>3, ReadsPage DEF TypeOK, table
  <2>9. CASE SqlCount \/ MongoCount
    BY <2>1, <2>9, Matches DEF SqlCount, MongoCount, TypeOK, table
  <2>10. CASE Respond
    <3>1. ToSet(items) \subseteq Ids
      BY <2>1, Elements DEF TypeOK
    <3>2. Cardinality(Ids) \in Nat
      BY PagingAssumption, FS_CardinalityType
    <3>3. /\ seen' \subseteq Ids /\ pc' \in {"locked", "count", "done"}
          /\ UNCHANGED <<backend, list, now, rows, left, departures, filter, began>>
      BY <2>1, <2>10, <3>1, RespondType DEF TypeOK, table
    <3>4. CASE UNCHANGED <<opts, total, items>>
      BY <2>1, <3>3, <3>4 DEF TypeOK
    <3>5. CASE opts' = [offset |-> opts.offset + opts.limit, limit |-> opts.limit]
               /\ total' = 0 /\ items' = <<>>
      <4>1. opts'.offset \in Nat /\ opts'.limit \in 1..MaxLimit /\ opts'.limit \in Nat
        BY <2>1, <3>5, PagingAssumption DEF TypeOK
      <4>2. items' \in Seq(Ids) /\ Len(items') <= opts'.limit
        BY <3>5, <4>1, Elements
      <4>3. total' \in 0..Cardinality(Ids)
        BY <3>2, <3>5
      <4>4. QED  BY <2>1, <3>3, <4>1, <4>2, <4>3 DEF TypeOK
    <3>6. QED  BY <2>1, <2>10, <3>4, <3>5, RespondType
  <2>11. CASE UNCHANGED vars
    BY <2>1, <2>11 DEF vars, TypeOK
  <2>12. QED
    BY <2>1, <2>3, <2>4, <2>5, <2>6, <2>7, <2>8, <2>9, <2>10, <2>11, ListIsFirst DEF Next
<1>3. QED  BY <1>1, <1>2, PTL DEF Spec

--------------------------------------------------------------------------------
(***************************************************************************)
(* The walk                                                                *)
(***************************************************************************)

\* What the reader has yet to see, and how far it has come: a row that it has yet to see and
\* whose rank is below is overlooked.
Unread == began \ (seen \cup left \cup ToSet(items))

Reached == opts.offset + Len(items)

Ended == pc = "done" \/ (pc = "respond" /\ Len(items) < opts.limit)

Skipped(S, n) == {x \in S : Cardinality(Before(x, Present)) < n}

Overlooked == IF Ended THEN Unread ELSE Skipped(Unread, Reached)

\* Each departure lets one row slip below what the reader has reached, and nothing else does.
WalkInv ==
  /\ pc \in {"locked", "count", "select"} => items = <<>>
  /\ pc = "done" => ToSet(items) \subseteq seen
  /\ pc # "idle" => began \ left \subseteq Present
  /\ pc # "idle" => Cardinality(Overlooked) <= departures

\* The table changes so that no rank falls, ...
Grows ==
  /\ Present \subseteq Present'
  /\ \A a \in Present, b \in Present : Precedes(a, b)' <=> Precedes(a, b)
  /\ left' = left /\ departures' = departures

\* ... or row i leaves.
Shrinks(i) ==
  /\ i \in Present /\ Present' = Present \ {i}
  /\ \A a \in Present \ {i}, b \in Present \ {i} : Precedes(a, b)' <=> Precedes(a, b)
  /\ left' = left \cup {i} /\ departures' = departures + 1

TableStep == Tick \/ \E i \in Ids : Create(i) \/ Delete(i) \/ Rename(i)

LEMMA TableSteps ==
  ASSUME TypeOK, TableStep
  PROVE  /\ UNCHANGED <<backend, list, reader>>
         /\ Grows \/ \E i \in Ids : Shrinks(i)
<1>1. CASE Tick
  <2>1. /\ now \in Nat /\ now' = now + 1 /\ rows' = rows
        /\ UNCHANGED <<backend, list, left, departures, reader>>
    BY <1>1, PagingAssumption DEF Tick, TypeOK, Time
  <2>2. \A i \in Ids : rows[i].exp \in Nat
    BY PagingAssumption DEF TypeOK, Row, Time
  <2>3. filter' = filter
    BY <2>1 DEF reader
  <2>4. Present \subseteq Present'
    BY <2>1, <2>2, <2>3 DEF Present, Matching
  <2>5. QED  BY <2>1, <2>4 DEF Grows, Precedes
<1>2. ASSUME NEW i \in Ids, Create(i)
      PROVE  UNCHANGED <<backend, list, reader>> /\ Grows
  <2>1. /\ rows[i].st = "none" /\ \A j \in Ids \ {i} : rows'[j] = rows[j]
        /\ UNCHANGED <<backend, list, now, left, departures, reader>>
    BY <1>2 DEF Create, TypeOK
  <2>2. filter' = filter
    BY <2>1 DEF reader
  <2>3. i \notin Present
    BY <2>1 DEF Present, Matching
  <2>4. Present \subseteq Present'
    BY <2>1, <2>2, <2>3 DEF Present, Matching
  <2>5. \A a \in Present : a \in Ids /\ rows'[a] = rows[a]
    BY <2>1, <2>3 DEF Present, Matching
  <2>6. QED  BY <2>1, <2>4, <2>5 DEF Grows, Precedes
<1>3. ASSUME NEW i \in Ids, NEW row \in Row, Leaves(i, row),
             row.created = rows[i].created \/ i \notin Present'
      PROVE  UNCHANGED <<backend, list, reader>> /\ (Grows \/ Shrinks(i))
  <2>1. /\ rows' = [rows EXCEPT ![i] = row] /\ UNCHANGED <<backend, list, now, reader>>
        /\ \/ i \in Present /\ i \notin Present' /\ left' = left \cup {i} /\ departures' = departures + 1
           \/ (i \in Present => i \in Present') /\ left' = left /\ departures' = departures
    BY <1>3, LeavesOne
  <2>2. filter' = filter /\ now' = now
    BY <2>1 DEF reader
  <2>3. \A j \in Ids \ {i} : rows'[j] = rows[j] /\ (j \in Present <=> j \in Present')
    BY <2>1, <2>2 DEF Present, Matching, TypeOK
  <2>4. i \in Present' => rows'[i].created = rows[i].created
    BY <1>3, <2>1 DEF TypeOK
  <2>5. Present \subseteq Ids /\ Present' \subseteq Ids
    BY DEF Present, Matching
  <2>6. CASE i \in Present /\ i \notin Present'
    <3>1. Present' = Present \ {i}
      BY <2>3, <2>5, <2>6
    <3>2. \A a \in Present \ {i} : rows'[a] = rows[a]
      BY <2>3, <2>5
    <3>3. QED  BY <2>1, <2>6, <3>1, <3>2 DEF Shrinks, Precedes
  <2>7. CASE i \in Present => i \in Present'
    <3>1. Present \subseteq Present'
      BY <2>3, <2>5, <2>7
    <3>2. \A a \in Present : rows'[a].created = rows[a].created
      BY <2>3, <2>4, <2>5, <2>7
    <3>3. QED  BY <2>1, <2>7, <3>1, <3>2 DEF Grows, Precedes
  <2>8. QED  BY <2>6, <2>7
<1>4. ASSUME NEW i \in Ids, Delete(i)
      PROVE  UNCHANGED <<backend, list, reader>> /\ (Grows \/ Shrinks(i))
  <2>1. Blank("gone") \in Row /\ Leaves(i, Blank("gone"))
    BY <1>4, DeleteLeaves
  <2>2. i \notin Present'
    <3>1. rows'[i].st = "gone"
      BY <2>1, LeavesOne DEF TypeOK, Blank
    <3>2. QED  BY <3>1 DEF Present, Matching
  <2>3. QED  BY <1>3, <2>1, <2>2
<1>5. ASSUME NEW i \in Ids, Rename(i)
      PROVE  UNCHANGED <<backend, list, reader>> /\ (Grows \/ Shrinks(i))
  <2>1. PICK t \in Tags : /\ [rows[i] EXCEPT !.tag = t] \in Row
                          /\ Leaves(i, [rows[i] EXCEPT !.tag = t])
    BY <1>5, RenameLeaves
  <2>2. [rows[i] EXCEPT !.tag = t].created = rows[i].created
    BY DEF TypeOK, Row
  <2>3. QED  BY <1>3, <2>1, <2>2
<1>6. QED  BY <1>1, <1>2, <1>4, <1>5 DEF TableStep

PresentRanked ==
  /\ Present \in SUBSET Ids /\ IsFiniteSet(Present)
  /\ \A x \in Present : /\ Cardinality(Before(x, Present)) \in Nat
                        /\ IsFiniteSet(Before(x, Present))
                        /\ Cardinality(Before(x, Present)) < Cardinality(Present)

LEMMA PresentRanks == Rows => PresentRanked
<1>1. Present \in SUBSET Ids /\ IsFiniteSet(Present)
  BY Matches DEF Present
<1>2. QED  BY <1>1, RankBound DEF PresentRanked

LEMMA GrowsSkips ==
  ASSUME Rows, Rows', Grows, NEW S \in SUBSET Present, NEW n \in Nat
  PROVE  Skipped(S, n)' \subseteq Skipped(S, n)
<1> DEFINE rank(x) == Cardinality(Before(x, Present))
<1>1. PresentRanked /\ PresentRanked'
  <2>1. Rows' => PresentRanked'
    BY PresentRanks, PTL
  <2>2. QED  BY <2>1, PresentRanks
<1>2. ASSUME NEW x \in S
      PROVE  rank(x) \in Nat /\ rank(x)' \in Nat /\ rank(x) <= rank(x)'
  <2>1. Before(x, Present) \subseteq Before(x, Present)'
    BY DEF Before, Grows
  <2>2. x \in Present /\ x \in Present'
    BY DEF Grows
  <2>3. IsFiniteSet(Before(x, Present)') /\ rank(x) \in Nat /\ rank(x)' \in Nat
    BY <1>1, <2>2 DEF PresentRanked
  <2>4. QED  BY <2>1, <2>3, FS_Subset
<1>3. ASSUME NEW x \in S, rank(x)' < n  PROVE  rank(x) < n
  BY <1>2, <1>3
<1>4. QED  BY <1>3 DEF Skipped

LEMMA ShrinksSkips ==
  ASSUME Rows, Rows', NEW i \in Ids, Shrinks(i), NEW S \in SUBSET Present, NEW n \in Nat
  PROVE  Cardinality(Skipped(S \ {i}, n)') <= Cardinality(Skipped(S, n)) + 1
<1> DEFINE rank(x) == Cardinality(Before(x, Present))
           edge == {x \in S : rank(x) = n}
<1>1. PresentRanked /\ PresentRanked'
  <2>1. Rows' => PresentRanked'
    BY PresentRanks, PTL
  <2>2. QED  BY <2>1, PresentRanks
<1>2. ASSUME NEW x \in S \ {i}
      PROVE  rank(x) \in Nat /\ rank(x)' \in Nat /\ rank(x) <= rank(x)' + 1
  <2> DEFINE ahead == Before(x, Present)'
  <2>1. Before(x, Present) \subseteq ahead \cup {i}
    BY DEF Before, Shrinks
  <2>2. x \in Present /\ x \in Present'
    BY DEF Shrinks
  <2>3. IsFiniteSet(ahead) /\ rank(x) \in Nat /\ rank(x)' \in Nat /\ rank(x)' = Cardinality(ahead)
    BY <1>1, <2>2 DEF PresentRanked
  <2> HIDE DEF ahead
  <2>4. IsFiniteSet(ahead \cup {i}) /\ Cardinality(ahead \cup {i}) <= Cardinality(ahead) + 1
    <3>1. IsFiniteSet(ahead \cup {i})
          /\ (Cardinality(ahead \cup {i}) = Cardinality(ahead)
              \/ Cardinality(ahead \cup {i}) = Cardinality(ahead) + 1)
      BY <2>3, FS_AddElement
    <3>2. QED  BY <2>3, <3>1
  <2>5. rank(x) <= Cardinality(ahead \cup {i}) /\ Cardinality(ahead \cup {i}) \in Nat
    BY <2>1, <2>4, FS_Subset, FS_CardinalityType
  <2>6. QED  BY <2>3, <2>4, <2>5
<1>3. Skipped(S \ {i}, n)' \subseteq Skipped(S, n) \cup edge
  <2>1. SUFFICES ASSUME NEW x \in S \ {i}, rank(x)' < n  PROVE  rank(x) < n \/ rank(x) = n
    BY DEF Skipped
  <2>2. QED  BY <1>2, <2>1
<1>4. PICK old : old = Skipped(S, n) /\ IsFiniteSet(old) /\ Cardinality(old) \in Nat
  BY <1>1, FS_Subset, FS_CardinalityType DEF Skipped, PresentRanked
<1>5. edge = {} \/ \E e : edge = {e}
  BY <1>1, RankUnique DEF PresentRanked
<1>6. PICK wide : wide = old \cup edge /\ IsFiniteSet(wide) /\ Cardinality(wide) <= Cardinality(old) + 1
  <2>1. CASE edge = {}
    BY <1>4, <2>1
  <2>2. CASE \E e : edge = {e}
    <3>1. PICK e : edge = {e}
      BY <2>2
    <3>2. IsFiniteSet(old \cup {e}) /\ (Cardinality(old \cup {e}) = Cardinality(old)
                                       \/ Cardinality(old \cup {e}) = Cardinality(old) + 1)
      BY <1>4, FS_AddElement
    <3>3. QED  BY <1>4, <3>1, <3>2
  <2>3. QED  BY <1>5, <2>1, <2>2
<1>7. /\ Cardinality(Skipped(S \ {i}, n)') \in Nat /\ Cardinality(wide) \in Nat
      /\ Cardinality(Skipped(S \ {i}, n)') <= Cardinality(wide)
  BY <1>3, <1>4, <1>6, FS_Subset, FS_CardinalityType
<1>8. QED  BY <1>4, <1>6, <1>7

LEMMA UnreadPresent ==
  ASSUME TypeOK, WalkInv, pc # "idle"
  PROVE  /\ Unread \in SUBSET Present /\ IsFiniteSet(Unread) /\ Reached \in Nat
         /\ Overlooked \subseteq Unread /\ IsFiniteSet(Overlooked) /\ Cardinality(Overlooked) \in Nat
<1>1. Unread \in SUBSET Present
  BY DEF Unread, WalkInv
<1>2. IsFiniteSet(Unread)
  BY <1>1, Matches, FS_Subset DEF Present
<1>3. Overlooked \subseteq Unread
  BY DEF Overlooked, Skipped
<1>4. Reached \in Nat
  BY DEF TypeOK, Reached
<1>5. QED  BY <1>1, <1>2, <1>3, <1>4, FS_Subset, FS_CardinalityType

LEMMA TableKeeps ==
  ASSUME TypeOK, TypeOK', WalkInv, TableStep
  PROVE  WalkInv'
<1>1. /\ UNCHANGED <<pc, opts, filter, items, began, seen>>
      /\ Grows \/ \E i \in Ids : Shrinks(i)
  BY TableSteps DEF reader
<1>2. SUFFICES ASSUME pc # "idle"
               PROVE  (began \ left \subseteq Present)' /\ Cardinality(Overlooked') <= departures'
  BY <1>1 DEF WalkInv
<1>3. /\ Unread \in SUBSET Present /\ IsFiniteSet(Unread) /\ Reached \in Nat
      /\ IsFiniteSet(Overlooked) /\ Cardinality(Overlooked) \in Nat
  BY <1>2, UnreadPresent
<1>4. departures \in Nat /\ Cardinality(Overlooked) <= departures /\ began \ left \subseteq Present
  BY <1>2, PagingAssumption DEF WalkInv, TypeOK
<1>5. Ended' = Ended /\ Reached' = Reached /\ Rows /\ Rows'
  BY <1>1 DEF Ended, Reached, Rows, TypeOK
<1>6. CASE Grows
  <2>1. Unread' = Unread /\ left' = left /\ departures' = departures /\ Present \subseteq Present'
    BY <1>1, <1>6 DEF Unread, Grows
  <2>2. Skipped(Unread, Reached)' = {x \in Unread : Cardinality(Before(x, Present))' < Reached}
    BY <1>5, <2>1 DEF Skipped
  <2>3. PICK S, n : S = Unread /\ n = Reached
    OBVIOUS
  <2>4. Skipped(S, n)' \subseteq Skipped(S, n)
    BY <1>3, <1>5, <1>6, <2>3, GrowsSkips
  <2>5. Overlooked' \subseteq Overlooked
    BY <1>5, <2>1, <2>2, <2>3, <2>4 DEF Overlooked, Skipped
  <2>6. Cardinality(Overlooked') <= Cardinality(Overlooked) /\ Cardinality(Overlooked') \in Nat
    BY <1>3, <2>5, FS_Subset, FS_CardinalityType
  <2>7. (began \ left \subseteq Present)'
    BY <1>1, <1>4, <2>1
  <2>8. QED  BY <1>3, <1>4, <2>1, <2>6, <2>7
<1>7. ASSUME NEW i \in Ids, Shrinks(i)
      PROVE  (began \ left \subseteq Present)' /\ Cardinality(Overlooked') <= departures'
  <2>1. /\ Unread' = Unread \ {i} /\ left' = left \cup {i} /\ departures' = departures + 1
        /\ Present' = Present \ {i}
    BY <1>1, <1>7 DEF Unread, Shrinks
  <2>2. (began \ left \subseteq Present)'
    BY <1>1, <1>4, <2>1
  <2>3. Cardinality(Overlooked') <= Cardinality(Overlooked) + 1
    <3>1. CASE Ended
      <4>1. Overlooked' \subseteq Overlooked
        BY <1>5, <2>1, <3>1 DEF Overlooked
      <4>2. Cardinality(Overlooked') <= Cardinality(Overlooked) /\ Cardinality(Overlooked') \in Nat
        BY <1>3, <4>1, FS_Subset, FS_CardinalityType
      <4>3. QED  BY <1>3, <4>2
    <3>2. CASE ~Ended
      <4>1. PICK S, n : S = Unread /\ n = Reached
        OBVIOUS
      <4>2. Cardinality(Skipped(S \ {i}, n)') <= Cardinality(Skipped(S, n)) + 1
        BY <1>3, <1>5, <1>7, <4>1, ShrinksSkips
      <4>3. Overlooked' = Skipped(S \ {i}, n)'
        BY <1>5, <2>1, <3>2, <4>1 DEF Overlooked, Skipped
      <4>4. Overlooked = Skipped(S, n)
        BY <3>2, <4>1 DEF Overlooked
      <4>5. QED  BY <4>2, <4>3, <4>4
    <3>3. QED  BY <3>1, <3>2
  <2>4. Cardinality(Overlooked') \in Nat
    <3>1. Overlooked' \subseteq Unread
      BY <2>1 DEF Overlooked, Skipped
    <3>2. QED  BY <1>3, <3>1, FS_Subset, FS_CardinalityType
  <2>5. QED  BY <1>3, <1>4, <2>1, <2>2, <2>3, <2>4
<1>8. QED  BY <1>1, <1>6, <1>7

\* A page leaves nothing behind but what was overlooked before.
LEMMA ReadKeeps ==
  ASSUME TypeOK, TypeOK', WalkInv, MemoryPage \/ Select
  PROVE  WalkInv'
<1>1. /\ pc \in {"locked", "select"} /\ pc' = "respond"
      /\ UNCHANGED <<now, rows, left, departures, opts, filter, began, seen>>
  BY ReadsPage DEF table
<1>2. PICK q \in Sorted(Present) : items' = Page(q, opts)
  BY ReadsPage
<1>3. PICK from, limit \in Nat : from = opts.offset /\ limit = opts.limit
  BY PagingAssumption DEF TypeOK
<1>4. /\ Len(items') <= limit /\ Len(items') \in Nat
      /\ Len(items') < limit => Cardinality(Present) < from + limit
      /\ \A x \in Present : /\ from <= Cardinality(Before(x, Present))
                            /\ Cardinality(Before(x, Present)) < from + limit
                            => x \in ToSet(items')
  <2>1. Present \in SUBSET Ids
    BY DEF Present, Matching
  <2>2. /\ items' \in Seq(Ids) /\ Len(items') <= opts.limit
        /\ Len(items') < opts.limit => Cardinality(Present) < opts.offset + opts.limit
        /\ \A x \in Present : /\ opts.offset <= Cardinality(Before(x, Present))
                              /\ Cardinality(Before(x, Present)) < opts.offset + opts.limit
                              => x \in ToSet(items')
    BY <1>2, <1>3, <2>1, PageRanks DEF TypeOK, Rows
  <2>3. Len(items') \in Nat
    BY <2>2
  <2>4. QED  BY <1>3, <2>2, <2>3
<1>5. items = <<>> /\ ToSet(items) = {} /\ Len(items) = 0 /\ ~Ended
  BY <1>1, Elements DEF WalkInv, Ended
<1>6. Present' = Present /\ Unread' = Unread \ ToSet(items')
  BY <1>1, <1>5 DEF Present, Unread
<1>7. Overlooked = Skipped(Unread, from)
  BY <1>3, <1>5 DEF Overlooked, Reached
<1>8. PresentRanked /\ Unread \in SUBSET Present
  BY <1>1, PresentRanks, UnreadPresent DEF TypeOK, Rows
<1>9. Overlooked' \subseteq Overlooked
  <2>1. ASSUME NEW x \in Overlooked'  PROVE  x \in Overlooked
    <3>1. x \in Unread /\ x \in Present /\ x \notin ToSet(items')
      BY <1>6, <1>8, <2>1 DEF Overlooked, Skipped
    <3>2. PICK rank \in Nat : rank = Cardinality(Before(x, Present)) /\ rank < Cardinality(Present)
      BY <1>8, <3>1 DEF PresentRanked
    <3>3. rank < from + limit
      <4>1. CASE Len(items') < limit
        <5>1. Cardinality(Present) \in Nat
          BY Matches, FS_CardinalityType DEF Present
        <5>2. QED  BY <1>4, <3>2, <4>1, <5>1
      <4>2. CASE Len(items') = limit
        <5>1. ~Ended' /\ Reached' = from + limit
          BY <1>1, <1>3, <1>4, <4>2 DEF Ended, Reached
        <5>2. Before(x, Present)' = Before(x, Present)
          BY <1>1, <1>6 DEF Before, Precedes
        <5>3. QED  BY <2>1, <3>2, <5>1, <5>2 DEF Overlooked, Skipped
      <4>3. QED  BY <1>4, <4>1, <4>2
    <3>4. rank < from
      BY <1>4, <3>1, <3>2, <3>3
    <3>5. QED  BY <1>7, <3>1, <3>2, <3>4 DEF Skipped
  <2>2. QED  BY <2>1
<1>10. Cardinality(Overlooked') <= Cardinality(Overlooked) /\ Cardinality(Overlooked') \in Nat
  BY <1>1, <1>9, UnreadPresent, FS_Subset, FS_CardinalityType
<1>11. Cardinality(Overlooked) \in Nat /\ departures \in Nat /\ Cardinality(Overlooked) <= departures
       /\ began \ left \subseteq Present
  BY <1>1, UnreadPresent, PagingAssumption DEF WalkInv, TypeOK
<1>12. QED  BY <1>1, <1>6, <1>10, <1>11 DEF WalkInv

\* Where the SQL stores read nothing past the end, there is nothing to read.
LEMMA CountKeeps ==
  ASSUME TypeOK, TypeOK', WalkInv, SqlCount \/ MongoCount
  PROVE  WalkInv'
<1>1. /\ pc = "count" /\ pc' \in {"select", "respond"}
      /\ UNCHANGED <<now, rows, left, departures, opts, filter, items, began, seen>>
  BY DEF SqlCount, MongoCount, table
<1>2. items = <<>> /\ Len(items) = 0 /\ ~Ended
  BY <1>1, Elements DEF WalkInv, Ended
<1>3. Present' = Present /\ Unread' = Unread /\ Reached' = Reached /\ Reached = opts.offset
      /\ opts.offset \in Nat
  BY <1>1, <1>2 DEF Present, Unread, Reached, TypeOK
<1>4. Overlooked' = Overlooked
  <2>1. CASE pc' = "select"
    <3>1. ~Ended'
      BY <2>1 DEF Ended
    <3>2. \A x : Before(x, Present)' = Before(x, Present)
      BY <1>1, <1>3 DEF Before, Precedes
    <3>3. QED  BY <1>2, <1>3, <3>1, <3>2 DEF Overlooked, Skipped
  <2>2. CASE pc' = "respond"
    <3>1. Cardinality(Present) \in Nat
      BY Matches, FS_CardinalityType DEF Present
    <3>2. Cardinality(Present) = 0 \/ opts.offset >= Cardinality(Present)
      BY <2>2 DEF SqlCount, MongoCount, Present
    <3>3. opts.offset >= Cardinality(Present)
      BY <1>3, <3>1, <3>2
    <3>4. PresentRanked /\ Unread \in SUBSET Present
      BY <1>1, PresentRanks, UnreadPresent DEF TypeOK, Rows
    <3>5. \A x \in Unread : Cardinality(Before(x, Present)) < opts.offset
      BY <1>3, <3>1, <3>3, <3>4 DEF PresentRanked
    <3>6. Overlooked = Unread
      BY <1>2, <1>3, <3>5 DEF Overlooked, Skipped
    <3>7. Ended'
      BY <1>1, <1>2, <2>2, PagingAssumption DEF Ended, TypeOK
    <3>8. QED  BY <1>3, <3>6, <3>7 DEF Overlooked
  <2>3. QED  BY <1>1, <2>1, <2>2
<1>5. QED  BY <1>1, <1>2, <1>3, <1>4 DEF WalkInv

LEMMA RespondKeeps ==
  ASSUME TypeOK, TypeOK', WalkInv, Respond
  PROVE  WalkInv'
<1>1. /\ pc = "respond" /\ seen' = seen \cup ToSet(items)
      /\ UNCHANGED <<now, rows, left, departures, filter, began>>
  BY RespondType DEF table
<1>2. Present' = Present /\ \A x : Before(x, Present)' = Before(x, Present)
  BY <1>1 DEF Present, Before, Precedes
<1>3. CASE Len(items) < opts.limit /\ pc' = "done" /\ UNCHANGED <<opts, total, items>>
  <2>1. Ended /\ Ended' /\ Unread' = Unread
    BY <1>1, <1>3 DEF Ended, Unread
  <2>2. QED  BY <1>1, <1>2, <1>3, <2>1 DEF WalkInv, Overlooked
<1>4. CASE /\ Len(items) = opts.limit
           /\ opts' = [offset |-> opts.offset + opts.limit, limit |-> opts.limit]
           /\ pc' \in {"locked", "count"} /\ items' = <<>>
  <2>1. opts.limit \in Nat /\ opts.offset \in Nat
    BY PagingAssumption DEF TypeOK
  <2>2. ~Ended /\ ~Ended'
    BY <1>1, <1>4, <2>1 DEF Ended
  <2>3. Unread' = Unread
    BY <1>1, <1>4, Elements DEF Unread
  <2>4. Reached' = Reached
    BY <1>4, <2>1, Elements DEF Reached
  <2>5. Overlooked' = Overlooked
    BY <1>2, <2>2, <2>3, <2>4 DEF Overlooked, Skipped
  <2>6. QED  BY <1>1, <1>2, <1>4, <2>5 DEF WalkInv
<1>5. QED  BY <1>3, <1>4, RespondType

LEMMA FirstKeeps ==
  ASSUME TypeOK, TypeOK', NEW limit \in Limits, NEW f \in TokenFilter, First(f, limit)
  PROVE  WalkInv'
<1>1. /\ pc' \in {"locked", "count"} /\ items' = <<>> /\ began' = Present' /\ opts'.offset = 0
  BY FirstType
<1>2. ~Ended' /\ Reached' = 0
  BY <1>1, Elements DEF Ended, Reached
<1>3. Rows' => PresentRanked'
  BY PresentRanks, PTL
<1>4. PresentRanked' /\ Unread' \subseteq Present'
  BY <1>1, <1>3 DEF TypeOK, Rows, Unread
<1>5. Overlooked' = {}
  BY <1>2, <1>4 DEF Overlooked, Skipped, PresentRanked
<1>6. Cardinality(Overlooked') = 0 /\ departures' \in Nat
  BY <1>5, FS_EmptySet, PagingAssumption DEF TypeOK
<1>7. QED  BY <1>1, <1>6 DEF WalkInv

\* However an administrator walks through the pages of a list, and whatever comes and goes
\* meanwhile, no more rows that were there all the while are missing in the end than rows left.
THEOREM NoneMissedHolds == Spec => []NoneMissed
<1>1. Init => WalkInv
  BY DEF Init, WalkInv
<1>2. TypeOK /\ TypeOK' /\ WalkInv /\ [Next]_vars => WalkInv'
  <2>1. SUFFICES ASSUME TypeOK, TypeOK', WalkInv, [Next]_vars  PROVE  WalkInv'
    OBVIOUS
  <2>2. CASE TableStep
    BY <2>1, <2>2, TableKeeps
  <2>3. ASSUME NEW limit \in Limits, NEW f \in TokenFilter, First(f, limit)  PROVE  WalkInv'
    BY <2>1, <2>3, FirstKeeps
  <2>4. CASE MemoryPage \/ Select
    BY <2>1, <2>4, ReadKeeps
  <2>5. CASE SqlCount \/ MongoCount
    BY <2>1, <2>5, CountKeeps
  <2>6. CASE Respond
    BY <2>1, <2>6, RespondKeeps
  <2>7. CASE UNCHANGED vars
    <3>1. /\ Present' = Present /\ Unread' = Unread /\ Reached' = Reached /\ Ended' = Ended
          /\ \A x : Before(x, Present)' = Before(x, Present)
      BY <2>7 DEF vars, Present, Unread, Reached, Ended, Before, Precedes
    <3>2. Overlooked' = Overlooked
      BY <3>1 DEF Overlooked, Skipped
    <3>3. QED  BY <2>1, <2>7, <3>1, <3>2 DEF vars, WalkInv
  <2>8. QED
    BY <2>1, <2>2, <2>3, <2>4, <2>5, <2>6, <2>7, ListIsFirst DEF Next, TableStep
<1>3. TypeOK /\ WalkInv => NoneMissed
  <2>1. SUFFICES ASSUME TypeOK, WalkInv, pc = "done"
                 PROVE  Cardinality(began \ (seen \cup left)) <= departures
    BY DEF NoneMissed
  <2>2. began \ (seen \cup left) = Overlooked
    BY <2>1 DEF WalkInv, Overlooked, Ended, Unread
  <2>3. QED  BY <2>1, <2>2 DEF WalkInv
<1>4. QED  BY <1>1, <1>2, <1>3, TypeCorrect, PTL DEF Spec
================================================================================
