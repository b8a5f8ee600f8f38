------------------------- MODULE ReplicationServer -------------------------
(***************************************************************************)
(* The server's half of replication (query/core/pull.go, push.go): a pull  *)
(* scans the collection from a captured boundary and then follows the      *)
(* change stream; a push applies its changes one by one, each against the  *)
(* row it reads.  Requests interleave with other writers, and a push goes  *)
(* on when its client has gone.                                            *)
(***************************************************************************)
EXTENDS DocumentStore, SequencesExt

CONSTANT Slots      \* identities of push requests in flight

VARIABLES pull,   \* the pull request of the replica
          reqs    \* push requests

server == <<pull, reqs>>

NoCursor == [phase |-> "none", after |-> 0, pos |-> 0, target |-> 0]
NoPull == [st |-> "idle", cur |-> NoCursor, from |-> 0, evs |-> <<>>, caught |-> FALSE]
NoReq == [st |-> "none", ops |-> <<>>, i |-> 0, conf |-> {}]

ServerInit == pull = NoPull /\ reqs = [r \in Slots |-> NoReq]

(***************************************************************************)
(* Pull.  target n stands for the stream token after change n - 1.         *)
(***************************************************************************)
Ask(cur) == pull' = [NoPull EXCEPT !.st = "asked", !.cur = cur, !.from = cur.pos]
Answer(cur, evs, caught) ==
  pull' = [NoPull EXCEPT !.st = "done", !.cur = cur, !.evs = evs, !.caught = caught]
Refuse(why) == pull' = [NoPull EXCEPT !.st = why]

\* A watch for a scan: the boundary is the last committed change, which replay repeats.
StartForScan ==
  /\ pull.st = "asked" /\ pull.cur.phase = "none"
  /\ pull' = [pull EXCEPT !.cur = [phase |-> "scan", after |-> 0, target |-> 0,
                                   pos |-> IF log = <<>> THEN 0 ELSE Len(log) - 1]]
  /\ UNCHANGED reqs

\* pullScan: as many rows as the limits admit; the last page opens the replay.
PullScan ==
  /\ pull.st = "asked" /\ pull.cur.phase = "scan"
  /\ LET rows == SetToSortSeq({d \in Docs: d > pull.cur.after /\ store[d] # NoRow},
                              LAMBDA a, b: a < b)
     IN \E k \in 0..Len(rows), exhausted \in BOOLEAN:
          /\ exhausted => k = Len(rows)
          /\ k = 0 => exhausted
          /\ LET evs == SelectSeq([i \in 1..k |-> Project(rows[i], store[rows[i]])],
                                  LAMBDA e: e.type = "upsert")
             IN IF exhausted
                THEN Answer([pull.cur EXCEPT !.phase = "replay", !.after = 0], evs, FALSE)
                ELSE Answer([pull.cur EXCEPT !.after = rows[k]], evs, FALSE)
  /\ UNCHANGED reqs

\* A watch that resumes: it keeps the target of its checkpoint, or takes the present end.
OpenStream ==
  /\ pull.st = "asked" /\ pull.cur.phase \in {"replay", "live"}
  /\ IF pull.cur.pos < floor THEN Refuse("resync")
     ELSE pull' = [pull EXCEPT !.st = "stream",
                               !.cur.target = IF @ = 0 THEN Len(log) + 1 ELSE @]
  /\ UNCHANGED reqs

PullFrame ==
  /\ pull.st = "stream" /\ pull.cur.pos < Len(log)
  /\ LET f == Frame(pull.cur.pos + 1) IN
     IF f.type = "lost" THEN Refuse("resync")
     ELSE pull' = [pull EXCEPT !.cur.pos = @ + 1,
                               !.evs = IF f.type = "none" THEN @ ELSE Append(@, f)]
  /\ UNCHANGED reqs

MutantCaughtUp ==
  /\ pull.st = "stream" /\ pull.cur.pos + 1 >= pull.cur.target
  /\ Answer([pull.cur EXCEPT !.phase = "live", !.target = 0, !.pos = Len(log)], pull.evs, TRUE)
  /\ UNCHANGED reqs

\* An empty frame at or past the target.
CaughtUp ==
  /\ pull.st = "stream" /\ pull.cur.pos + 1 >= pull.cur.target
  /\ Answer([pull.cur EXCEPT !.phase = "live", !.target = 0], pull.evs, TRUE)
  /\ UNCHANGED reqs

\* A limit, a budget or the soft deadline ends a page that has advanced.
PageFull ==
  /\ pull.st = "stream" /\ pull.cur.pos > pull.from
  /\ Answer(pull.cur, pull.evs, FALSE)
  /\ UNCHANGED reqs

\* The request fails for a reason that a repetition may cure.
PullUnavailable == pull.st \in {"asked", "stream"} /\ Refuse("unavailable") /\ UNCHANGED reqs

(***************************************************************************)
(* Push.                                                                   *)
(***************************************************************************)
NoVerdict == [val |-> "accepted", ver |-> 0]

\* The next change; a rejected one is remembered with the row it met.
NextChange(r, verdict) ==
  LET q == reqs[r]
      last == q.i = Len(q.ops)
  IN reqs' = [reqs EXCEPT ![r] =
       [q EXCEPT !.st = IF last THEN "done" ELSE "get", !.i = IF last THEN @ ELSE @ + 1,
                 !.conf = IF verdict = NoVerdict THEN @
                          ELSE @ \cup {[doc |-> q.ops[q.i].doc, row |-> verdict]}]]

Goto(r, st) == reqs' = [reqs EXCEPT ![r].st = st]

PushGet(r) ==
  /\ reqs[r].st = "get"
  /\ LET op == reqs[r].ops[reqs[r].i]
         now == store[op.doc]
         missing == ~Live(now)
         rejected == \/ op.act = "create" /\ ~missing
                     \/ op.act # "create" /\ op.base # 0 /\ missing
                     \/ ~missing /\ op.base # 0 /\ op.base # now.ver
     IN CASE rejected -> NextChange(r, now)
          [] ~rejected /\ missing /\ op.act = "delete" -> NextChange(r, NoVerdict)
          [] OTHER -> Goto(r, IF missing THEN "insert" ELSE "write")
  /\ UNCHANGED <<pull, storage>>

\* The conditional command of Update or Delete.
PushWrite(r) ==
  /\ reqs[r].st = "write"
  /\ LET op == reqs[r].ops[reqs[r].i] IN
     \/ op.act = "delete" /\ SoftDelete(op.doc, op.base, op.tok) /\ NextChange(r, NoVerdict)
     \/ op.act # "delete" /\ UpdateOne(op.doc, op.val, op.base, op.tok) /\ NextChange(r, NoVerdict)
     \/ ~Matches(op.doc, op.base) /\ Goto(r, "reread") /\ UNCHANGED storage
  /\ UNCHANGED pull

\* Create: insert; on a duplicate look at the row; replace it if it is a tombstone.
PushInsert(r) ==
  /\ reqs[r].st = "insert"
  /\ LET op == reqs[r].ops[reqs[r].i] IN
     \/ InsertOne(op.doc, op.val, op.tok) /\ NextChange(r, NoVerdict)
     \/ store[op.doc] # NoRow /\ Goto(r, "find") /\ UNCHANGED storage
  /\ UNCHANGED pull

PushFind(r) ==
  /\ reqs[r].st = "find"
  /\ Goto(r, IF Tombstone(store[reqs[r].ops[reqs[r].i].doc]) THEN "replace" ELSE "reread")
  /\ UNCHANGED <<pull, storage>>

PushReplace(r) ==
  /\ reqs[r].st = "replace"
  /\ LET op == reqs[r].ops[reqs[r].i] IN
     \/ ReplaceOne(op.doc, op.val, op.tok) /\ NextChange(r, NoVerdict)
     \/ ~Tombstone(store[op.doc]) /\ Goto(r, "reread") /\ UNCHANGED storage
  /\ UNCHANGED pull

PushReread(r) ==
  /\ reqs[r].st = "reread"
  /\ LET op == reqs[r].ops[reqs[r].i]
         now == store[op.doc]
     IN NextChange(r, IF op.act = "delete" /\ op.base = 0 /\ ~Live(now) THEN NoVerdict ELSE now)
  /\ UNCHANGED <<pull, storage>>

\* A command fails: the request ends, the changes before it stay.
PushError(r) ==
  /\ reqs[r].st \notin {"none", "done", "error"}
  /\ Goto(r, "error") /\ UNCHANGED <<pull, storage>>

PullStep ==
  /\ \/ StartForScan \/ PullScan \/ OpenStream \/ PullFrame
     \/ CaughtUp \/ PageFull
  /\ UNCHANGED storage

PushStep(r) ==
  \/ PushGet(r) \/ PushWrite(r) \/ PushInsert(r) \/ PushFind(r)
  \/ PushReplace(r) \/ PushReread(r)
=============================================================================
