---------------------------- MODULE ReplicaStore ----------------------------
(***************************************************************************)
(* What one alias of the client's replica keeps (storage.ts, records.ts):  *)
(* document rows, the states assumed of the server, membership rows, the   *)
(* saved checkpoints and the manifest; and the local operations on it.     *)
(* Every access holds the alias lock, so each is atomic.                   *)
(***************************************************************************)
EXTENDS ReplicationServer, FiniteSets

CONSTANTS MaxEdits,   \* bound: local edits and recovery decisions
          MaxFaults,  \* bound: crashes, lost answers, failed requests and writes
          MaxRounds   \* bound: rounds of following the source

VARIABLES fork,      \* the DataRecord of each document
          assumed,   \* the assumed server state of each document
          member,    \* the MemberRecord of each document
          man,       \* the manifest
          downcp,    \* the saved downstream checkpoint
          ctl,       \* the checkpoint in the progress record
          used,      \* how much of each bound is used
          edit,      \* the last edit of each document that its user has not given up
          seen,      \* contents the server has had since that edit
          repeated,  \* edits whose user has allowed a repetition
          skipped    \* documents whose last event did not reach the row

durable == <<fork, assumed, member, man, downcp, ctl>>
ghosts == <<used, edit, seen, repeated, skipped>>

NoData == [val |-> "none", ver |-> 0, tok |-> 0, pin |-> "none", lwt |-> "old", origin |-> FALSE]
NoMember == [known |-> FALSE, slots |-> {}, ver |-> 0]
NoMarker == [on |-> FALSE, may |-> FALSE, targets |-> [d \in Docs |-> 0]]
NoIntent == [doc |-> 0, current |-> NoRow, want |-> NoData]
NoCheckpoint == [cur |-> NoCursor, gen |-> 0, page |-> 0, final |-> FALSE, complete |-> FALSE]
NoEdit == [tok |-> 0, val |-> "none"]

FreshManifest ==
  [active |-> 0, staged |-> 0, ready |-> FALSE, partial |-> FALSE,
   marker |-> NoMarker, issues |-> {}, intent |-> NoIntent]

\* A replica that has followed the source up to now.
SteadyAlias ==
  LET there(d) == Live(store[d]) /\ store[d].val \in Matching IN
  /\ fork = [d \in Docs |->
       IF there(d) THEN [NoData EXCEPT !.val = store[d].val, !.ver = store[d].ver, !.origin = TRUE]
       ELSE NoData]
  /\ assumed = [d \in Docs |-> IF there(d) THEN store[d] ELSE NoRow]
  /\ member = [d \in Docs |->
       IF there(d) THEN [known |-> TRUE, slots |-> {[gen |-> 1, in |-> TRUE]}, ver |-> store[d].ver]
       ELSE NoMember]
  /\ man = [FreshManifest EXCEPT !.active = 1, !.ready = TRUE]
  /\ downcp = [cur |-> [NoCursor EXCEPT !.phase = "live"], gen |-> 1, page |-> 1,
               final |-> TRUE, complete |-> TRUE]
  /\ ctl = downcp

EmptyAlias ==
  /\ fork = [d \in Docs |-> NoData] /\ assumed = [d \in Docs |-> NoRow]
  /\ member = [d \in Docs |-> NoMember] /\ man = FreshManifest
  /\ downcp = NoCheckpoint /\ ctl = NoCheckpoint

GhostInit ==
  /\ used = [edits |-> 0, faults |-> 0, rounds |-> 0] /\ edit = [d \in Docs |-> NoEdit]
  /\ seen = [d \in Docs |-> {}] /\ repeated = {} /\ skipped = {}

(***************************************************************************)
(* Reading.                                                                *)
(***************************************************************************)
\* Absent, deleted or live with the same payload.
Business(row) == IF row.val = "none" THEN "absent" ELSE row.val

\* A row that a download wrote is not pending, even before its assumed state is written.
pending(d) ==
  /\ fork[d].val # "none" /\ ~fork[d].origin
  /\ assumed[d] = NoRow \/ Business(assumed[d]) # Business(fork[d])

InGeneration(d, g) == [gen |-> g, in |-> TRUE] \in member[d].slots

Protected(d) ==
  \/ man.marker.on /\ man.marker.targets[d] # 0
  \/ d \in man.issues

visible(d) ==
  /\ fork[d].val \notin {"none", "absent"}
  /\ \/ fork[d].pin # "none"
     \/ InGeneration(d, man.active)
     \/ Protected(d)
     \/ pending(d)

(***************************************************************************)
(* Writing.  A write stamps the row; taken marks the stamp of a row that   *)
(* an upstream phase has read, old one at or before the saved checkpoint.  *)
(***************************************************************************)
Stamp(row) == [row EXCEPT !.lwt = "new"]

Released(d) == edit' = [edit EXCEPT ![d] = NoEdit]
Edited(d, val, tok) == edit' = [edit EXCEPT ![d] = [tok |-> tok, val |-> val]]
NewToken == used.edits + 1
Spend(what) == used' = [used EXCEPT ![what] = @ + 1]

mutate(d, val) ==
  /\ used.edits < MaxEdits
  /\ man.intent.doc # d
  /\ val = "deleted" => visible(d) /\ Live(fork[d])
  /\ fork' = [fork EXCEPT ![d] =
       [val |-> val, ver |-> @.ver, tok |-> NewToken, pin |-> "settle", lwt |-> "new",
        origin |-> FALSE]]
  /\ Edited(d, val, NewToken) /\ Spend("edits")
  /\ UNCHANGED <<assumed, member, man, downcp, ctl, repeated, skipped>>

\* The pins of a round become pins of an earlier round when the round's identity changes.
EndRound(rows) ==
  [d \in Docs |-> IF rows[d].pin = "sourceNow" THEN [rows[d] EXCEPT !.pin = "source"] ELSE rows[d]]

\* Stamps that a phase has read and not checkpointed are still after the checkpoint.
Untake(rows) == [d \in Docs |-> IF rows[d].lwt = "taken" THEN Stamp(rows[d]) ELSE rows[d]]

Settled(d) ==
  /\ fork[d].tok # 0 /\ assumed[d] # NoRow
  /\ Business(fork[d]) = Business(assumed[d])

\* scanPins with settle: rows at or before the frontier whose edit the server has.
SettlePins ==
  [d \in Docs |-> IF fork[d].pin = "settle" /\ Settled(d) /\ fork[d].lwt = "old"
                  THEN [Stamp(fork[d]) EXCEPT !.pin = "sourceNow", !.origin = FALSE]
                  ELSE fork[d]]

\* scanPins with clear: pins that an earlier round settled.
ClearPins ==
  [d \in Docs |-> IF fork[d].pin = "source" /\ Settled(d)
                  THEN [Stamp(fork[d]) EXCEPT !.pin = "none", !.origin = FALSE]
                  ELSE fork[d]]
=============================================================================
