------------------------------ MODULE MongoStore -------------------------------
(***************************************************************************)
(* store/mongo.  A change of one document is atomic, a DeleteMany is not:  *)
(* it deletes what it finds one by one.  Instants are kept to the          *)
(* millisecond.                                                            *)
(***************************************************************************)
EXTENDS StoreCalls

\* The command that each method begins with.
MongoClients ==
  [get |-> "find_one", create |-> "insert_one", update |-> "replace_one", delete |-> "delete_one"]

MongoUsers ==
  [get |-> "find_one", create |-> "insert_one", update |-> "replace_one", delete |-> "delete_one"]

MongoAccessTokens ==
  [get |-> "find_one", create |-> "insert_one", delete |-> "delete_one",
   delete_many |-> "delete_many"]

MongoRefreshTokens ==
  [get |-> "find_one", create |-> "insert_one", update |-> "replace_one", delete |-> "delete_one",
   delete_many |-> "delete_many"]

MongoAuthorizationCodes ==
  [get |-> "find_one", create |-> "insert_one", consume |-> "update_one", delete |-> "delete_one",
   delete_many |-> "delete_many"]

MongoUserTokens ==
  [get |-> "find_one", create |-> "insert_one", delete |-> "delete_one",
   delete_many |-> "delete_many"]

MongoFirst ==
  [clients |-> MongoClients, users |-> MongoUsers, access |-> MongoAccessTokens,
   refresh |-> MongoRefreshTokens, codes |-> MongoAuthorizationCodes, links |-> MongoUserTokens]

\* Deviation: the email of a user has no index.
NoEmailIndex ==
  [clients |-> {"client_id"}, users |-> {"username"}, access |-> {"hash"},
   refresh |-> {"hash"}, codes |-> {"hash"}, links |-> {"hash"}]

\* The unique indexes of EnsureIndexes.
Indexes ==
  [clients |-> {"client_id"}, users |-> {"username", "email"}, access |-> {"hash"},
   refresh |-> {"hash"}, codes |-> {"hash"}, links |-> {"hash"}]

MongoCommands == {"find_one", "insert_one", "replace_one", "update_one", "count_documents",
                  "delete_one", "delete_many", "delete_next"}

\* The document of a row.
Document(row) == [row EXCEPT !.exp = DBTime[@]]

\* The command was run, and so the call answers, unless the connection was lost meanwhile.
Returns(c, a) == Finish(c, a) \/ Answered(c, "error")

\* findOne
FindOne(c) ==
  /\ pc[c] = "find_one"
  /\ \/ \E i \in Found(c) : Returns(c, [code |-> "ok", row |-> rows[i]])
     \/ Found(c) = {} /\ Returns(c, Plain("not_found"))
  /\ UNCHANGED <<rows, scan>>

\* insert, and wrapErr
InsertOne(c) ==
  LET j == job[c]
      violation == rows[j.id].st = "stored" \/ Clash(Indexes[table], j.row.key, j.id) IN
  /\ pc[c] = "insert_one"
  /\ \/ violation /\ Returns(c, Plain("duplicate")) /\ UNCHANGED rows
     \/ ~violation /\ Returns(c, Plain("ok")) /\ Put(j.id, Document(j.row))
  /\ UNCHANGED scan

\* replace: MongoDB counts the documents it finds.
ReplaceOne(c) ==
  LET j == job[c]
      found == rows[j.id].st = "stored"
      violation == found /\ Clash(Indexes[table], j.row.key, j.id) IN
  /\ pc[c] = "replace_one"
  /\ \/ violation /\ Returns(c, Plain("duplicate")) /\ UNCHANGED rows
     \/ found /\ ~violation /\ Returns(c, Plain("ok")) /\ Put(j.id, Document(j.row))
     \/ ~found /\ Returns(c, Plain("not_found")) /\ UNCHANGED rows
  /\ UNCHANGED scan

\* The update of ConsumeAuthorizationCode.
UpdateOne(c) ==
  LET code == rows[job[c].id]
      matched == code.st = "stored" /\ ~code.used IN
  /\ pc[c] = "update_one"
  /\ \/ /\ matched
        /\ Put(job[c].id, [code EXCEPT !.used = TRUE])
        /\ Returns(c, Plain("ok"))
     \/ /\ ~matched
        /\ Goto(c, "count_documents")
        /\ UNCHANGED <<rows, answer>>
  /\ UNCHANGED scan

\* The count of ConsumeAuthorizationCode, when nothing was updated.
CountDocuments(c) ==
  /\ pc[c] = "count_documents"
  /\ Returns(c, Plain(IF rows[job[c].id].st = "stored" THEN "conflict" ELSE "not_found"))
  /\ UNCHANGED <<rows, scan>>

\* deleteById
DeleteOne(c) ==
  LET row == rows[job[c].id] IN
  /\ pc[c] = "delete_one"
  /\ \/ row.st = "stored" /\ Put(job[c].id, [row EXCEPT !.st = "gone"]) /\ Returns(c, Plain("ok"))
     \/ row.st # "stored" /\ Returns(c, Plain("not_found")) /\ UNCHANGED rows
  /\ UNCHANGED scan

\* tokenFilter
Filter(j, row) ==
  /\ row.st = "stored"
  /\ j.owner # None => row.owner = j.owner
  /\ j.before # None => row.exp <= DBTime[j.before]

DeleteMany(c) ==
  /\ pc[c] = "delete_many"
  /\ scan' = [scan EXCEPT ![c] = {i \in Ids : Filter(job[c], rows[i])}]
  /\ Goto(c, "delete_next")
  /\ UNCHANGED <<rows, answer>>

\* It comes to the next document, which it deletes if it still matches.  It may come to one
\* that was stored after it began.
DeleteNext(c) ==
  /\ pc[c] = "delete_next"
  /\ \/ /\ \E i \in scan[c] \cup {k \in Ids : Filter(job[c], rows[k])} :
             /\ Remove(IF Filter(job[c], rows[i]) THEN {i} ELSE {})
             /\ scan' = [scan EXCEPT ![c] = @ \ {i}]
        /\ UNCHANGED <<pc, answer>>
     \/ /\ scan[c] = {}
        /\ Returns(c, Plain("ok"))
        /\ UNCHANGED <<rows, scan>>

\* The command is not run, or a deletion is cut off.
MongoFailure(c) ==
  /\ pc[c] \in MongoCommands
  /\ Answered(c, "error")
  /\ scan' = [scan EXCEPT ![c] = {}]
  /\ UNCHANGED rows

MongoStep(c) ==
  /\ \/ FindOne(c) \/ InsertOne(c) \/ ReplaceOne(c) \/ UpdateOne(c) \/ CountDocuments(c)
     \/ DeleteOne(c) \/ DeleteMany(c) \/ DeleteNext(c) \/ MongoFailure(c)
  /\ Observe
  /\ UNCHANGED <<table, job>>

================================================================================
