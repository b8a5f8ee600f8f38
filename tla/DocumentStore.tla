--------------------------- MODULE DocumentStore ---------------------------
(***************************************************************************)
(* One collection in MongoDB as document_store.go writes it and watch.go   *)
(* reads it: rows with versions and tombstones, and the change stream.  A  *)
(* command of MongoDB is atomic.  log is the committed history; what a     *)
(* frame of an update carries is the row at the time it is read.           *)
(***************************************************************************)
EXTENDS Naturals, Sequences

CONSTANTS Docs,        \* document identifiers, in the order of a scan
          Values,      \* contents
          Matching,    \* the contents a replication source selects
          PreImages,   \* the deployment records pre-images
          MaxLog,      \* bound: length of the history
          MaxOthers    \* bound: writes of other clients

VARIABLES store,   \* the row of each document
          log,     \* change stream: [doc, op, val, tok], tok naming a replica's edit
          floor    \* the history up to here is gone

storage == <<store, log, floor>>

NoRow == [val |-> "none", ver |-> 0]
Tombstone(row) == row.val = "deleted"
Live(row) == row.val \notin {"none", "deleted", "absent"}

\* The history starts later than the documents.
StoreInit ==
  /\ store \in [Docs -> {NoRow} \cup [val: Values, ver: {1}]]
  /\ log = <<>> /\ floor = 0

Write(d, op, row, tok) ==
  /\ Len(log) < MaxLog
  /\ store' = [store EXCEPT ![d] = row]
  /\ log' = Append(log, [doc |-> d, op |-> op, val |-> row.val, tok |-> tok])
  /\ UNCHANGED floor

\* The commands behind Create, Update and Delete; base 0 is no precondition.
InsertOne(d, v, tok) ==
  store[d] = NoRow /\ Write(d, "insert", [val |-> v, ver |-> 1], tok)

ReplaceOne(d, v, tok) ==
  Tombstone(store[d]) /\ Write(d, "replace", [val |-> v, ver |-> 1], tok)

Matches(d, base) == Live(store[d]) /\ base \in {0, store[d].ver}

UpdateOne(d, v, base, tok) ==
  Matches(d, base) /\ Write(d, "update", [val |-> v, ver |-> store[d].ver + 1], tok)

SoftDelete(d, base, tok) ==
  Matches(d, base) /\ Write(d, "delete", [val |-> "deleted", ver |-> store[d].ver + 1], tok)

\* The expiry index removes a tombstone.
Purge(d) == Tombstone(store[d]) /\ Write(d, "purge", NoRow, 0)

\* History is retained for a while only.
Truncate == floor < Len(log) /\ floor' = Len(log) /\ UNCHANGED <<store, log>>

OtherWriter ==
  /\ Len(SelectSeq(log, LAMBDA e: e.tok = 0)) < MaxOthers
  /\ \E d \in Docs:
       \/ \E v \in Values: InsertOne(d, v, 0) \/ ReplaceOne(d, v, 0) \/ UpdateOne(d, v, 0, 0)
       \/ SoftDelete(d, 0, 0)
       \/ Purge(d)

(***************************************************************************)
(* convertChangeEvent and, for a source, project.                          *)
(***************************************************************************)
Project(d, row) ==
  CASE ~Live(row) -> [doc |-> d, type |-> "delete", val |-> "deleted", ver |-> 0]
    [] row.val \in Matching -> [doc |-> d, type |-> "upsert", val |-> row.val, ver |-> row.ver]
    [] OTHER -> [doc |-> d, type |-> "leave", val |-> "none", ver |-> 0]

NoEvent == [doc |-> 0, val |-> "none", ver |-> 0, type |-> "none"]
Lost == [NoEvent EXCEPT !.type = "lost"]

\* The frame of the i-th change.  Inserts and replacements carry their document; a
\* deletion only its identity, which the row or a pre-image tells; an update the row.
Frame(i) ==
  LET e == log[i] IN
  CASE e.op = "purge" -> NoEvent
    [] e.op \in {"insert", "replace"} -> Project(e.doc, [val |-> e.val, ver |-> 1])
    [] e.op = "delete" ->
         IF store[e.doc] = NoRow /\ ~PreImages THEN Lost
         ELSE Project(e.doc, [val |-> "deleted", ver |-> 0])
    [] OTHER ->
         IF store[e.doc] = NoRow THEN Lost ELSE Project(e.doc, store[e.doc])
=============================================================================
