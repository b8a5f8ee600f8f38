-------------------------- MODULE ReplicaUpstream --------------------------
(***************************************************************************)
(* Pushing local edits (upstream.ts, upstream-transport.ts) inside one     *)
(* persistence phase of RxDB's upstream, which the package's patch brackets *)
(* with begin, complete and failed: read the rows after the checkpoint,    *)
(* register a durable marker, push in bounded requests, record the assumed *)
(* states, save the checkpoint, settle the pins and clear the marker.      *)
(***************************************************************************)
EXTENDS ReplicaStore

CONSTANTS GroupLimit,    \* changes per push request
          MaxAttempts    \* version attempts of one change

VARIABLE up

NoPhase ==
  [st |-> "idle", row |-> [d \in Docs |-> NoData], ass |-> [d \in Docs |-> NoRow],
   todo |-> {}, base |-> [d \in Docs |-> 0], tries |-> [d \in Docs |-> 0], again |-> {},
   group |-> {}, slot |-> 0, reg |-> FALSE, accepted |-> FALSE, satisfied |-> FALSE,
   possible |-> FALSE, conflict |-> FALSE, unknown |-> FALSE, kind |-> "none"]

ownsPhase == up.st \notin {"idle", "failed"} /\ up.reg

\* An error ends the phase; what it knows of its requests decides what remains.
Abandon(kind) == up' = [up EXCEPT !.st = "failed", !.kind = kind]

(***************************************************************************)
(* begin, and RxDB's choice of the rows that differ from the assumed ones. *)
(***************************************************************************)
Begin ==
  LET docs == {d \in Docs: fork[d].lwt = "new"}
      rows == {d \in docs: pending(d)}
  IN
  /\ up.st = "idle" /\ docs # {}
  /\ up' = [NoPhase EXCEPT !.st = IF rows = {} THEN "checkpoint" ELSE "register",
                           !.row = [d \in Docs |-> IF d \in docs THEN fork[d] ELSE NoData],
                           !.ass = [d \in Docs |-> IF d \in rows THEN assumed[d] ELSE NoRow],
                           !.todo = rows]
  /\ fork' = [d \in Docs |-> IF d \in docs THEN [fork[d] EXCEPT !.lwt = "taken"] ELSE fork[d]]
  /\ UNCHANGED <<assumed, member, man, downcp, ctl, server, storage, used, edit, repeated, skipped>>

Rows == {d \in Docs: up.row[d] # NoData /\ up.row[d].tok # 0}
Marker(may) ==
  [on |-> TRUE, may |-> may,
   targets |-> [d \in Docs |-> IF d \in Rows THEN up.row[d].tok ELSE 0]]
Clean(m) == ~m.marker.on /\ m.intent.doc = 0 /\ m.issues = {}

\* register: the marker precedes every request.
Register ==
  /\ up.st = "register"
  /\ IF Clean(man)
     THEN man' = [man EXCEPT !.marker = Marker(FALSE)]
          /\ up' = [up EXCEPT !.st = "build", !.reg = TRUE]
     ELSE Abandon("blocked") /\ UNCHANGED man
  /\ UNCHANGED <<fork, assumed, member, downcp, ctl, server, storage, used, edit, repeated, skipped>>

\* The write of the manifest fails, whether or not it is on disk.
RegisterFails ==
  /\ up.st = "register" /\ Clean(man) /\ used.faults < MaxFaults
  /\ \/ UNCHANGED man \/ man' = [man EXCEPT !.marker = Marker(FALSE)]
  /\ up' = [up EXCEPT !.st = "failed", !.unknown = TRUE, !.kind = "blocked"]
  /\ Spend("faults")
  /\ UNCHANGED <<fork, assumed, member, downcp, ctl, server, storage, edit, repeated, skipped>>

(***************************************************************************)
(* The changes.  Rows that need no request are dropped; a live assumed     *)
(* state without a version is looked up first.                             *)
(***************************************************************************)
NoOperation(d) ==
  \/ up.ass[d] # NoRow /\ Business(up.ass[d]) = Business(up.row[d])
  \/ ~Live(up.ass[d]) /\ up.row[d].val = "deleted"

Action(d) ==
  CASE ~Live(up.ass[d]) -> "create"
    [] up.row[d].val = "deleted" -> "delete"
    [] OTHER -> "update"

\* conflict: an issue joins the marker and the phase is over.
Conflict(d) ==
  /\ man' = [man EXCEPT !.issues = @ \cup {d}]
  /\ up' = [up EXCEPT !.st = "failed", !.conflict = TRUE, !.kind = "blocked"]

Least(S) == CHOOSE d \in S: \A e \in S: d <= e
NeedsVersion(d) == ~NoOperation(d) /\ Live(up.ass[d]) /\ up.ass[d].ver = 0 /\ up.base[d] = 0

Build ==
  /\ up.st = "build"
  /\ LET lookup == {d \in up.todo: NeedsVersion(d)} IN
     IF lookup = {}
     THEN LET rows == {d \in up.todo: ~NoOperation(d)} IN
          /\ up' = [up EXCEPT !.st = IF rows = {} THEN "meta" ELSE "send", !.todo = rows,
                              !.base = [d \in Docs |-> IF d \in rows /\ @[d] = 0 THEN up.ass[d].ver
                                                       ELSE @[d]]]
          /\ UNCHANGED man
     ELSE LET d == Least(lookup) IN
          IF Live(store[d]) /\ Business(store[d]) = Business(up.ass[d])
          THEN up' = [up EXCEPT !.base[d] = store[d].ver] /\ UNCHANGED man
          ELSE Conflict(d)
  /\ UNCHANGED <<fork, assumed, member, downcp, ctl, server, storage, used, edit, repeated, skipped>>

(***************************************************************************)
(* Requests.                                                               *)
(***************************************************************************)
Group == IF Cardinality(up.todo) <= GroupLimit THEN up.todo ELSE {Least(up.todo)}

Operations(docs) ==
  [i \in 1..Cardinality(docs) |->
     LET d == SetToSortSeq(docs, LAMBDA a, b: a < b)[i] IN
     [doc |-> d, act |-> Action(d), val |-> up.row[d].val,
      base |-> IF Action(d) = "create" THEN 0 ELSE up.base[d], tok |-> up.row[d].tok]]

MutantSend ==
  /\ up.st = "send"
  /\ \E r \in Slots:
       /\ reqs[r].st = "none"
       /\ reqs' = [reqs EXCEPT ![r] = [NoReq EXCEPT !.st = "get", !.i = 1, !.ops = Operations(Group)]]
       /\ up' = [up EXCEPT !.st = "wait", !.group = Group, !.slot = r,
                           !.tries = [d \in Docs |-> IF d \in Group THEN @[d] + 1 ELSE @[d]]]
  /\ UNCHANGED <<fork, assumed, member, man, downcp, ctl, pull, storage, used, edit, repeated, skipped>>

\* push, up to the dispatch: the marker says so first.
Send ==
  /\ up.st = "send"
  /\ \E r \in Slots:
       /\ reqs[r].st = "none" /\ \A q \in Slots: q < r => reqs[q].st # "none"
       /\ reqs' = [reqs EXCEPT ![r] = [NoReq EXCEPT !.st = "get", !.i = 1, !.ops = Operations(Group)]]
       /\ up' = [up EXCEPT !.st = "wait", !.group = Group, !.slot = r, !.possible = TRUE,
                           !.tries = [d \in Docs |-> IF d \in Group THEN @[d] + 1 ELSE @[d]]]
  /\ man' = [man EXCEPT !.marker = Marker(TRUE)]
  /\ UNCHANGED <<fork, assumed, member, downcp, ctl, pull, storage, used, edit, repeated, skipped>>

\* The marker cannot be written, so nothing is sent.
SendFails ==
  /\ up.st = "send" /\ used.faults < MaxFaults
  /\ \/ UNCHANGED man \/ man' = [man EXCEPT !.marker = Marker(TRUE)]
  /\ up' = [up EXCEPT !.st = "failed", !.unknown = TRUE, !.kind = "blocked"]
  /\ Spend("faults")
  /\ UNCHANGED <<fork, assumed, member, downcp, ctl, server, storage, edit, repeated, skipped>>

Verdict(d) ==
  IF \E c \in reqs[up.slot].conf: c.doc = d
  THEN (CHOOSE c \in reqs[up.slot].conf: c.doc = d).row ELSE NoVerdict

\* What the answer means for one change.
Outcome(d) ==
  LET row == Verdict(d) IN
  CASE row = NoVerdict -> "accepted"
    [] row # NoVerdict /\ Business(row) = Business(up.row[d]) -> "satisfied"
    [] Action(d) # "create" /\ Live(row) /\ Business(row) = Business(up.ass[d])
         /\ row # NoVerdict /\ Business(row) # Business(up.row[d]) ->
           IF up.tries[d] >= MaxAttempts THEN "contended" ELSE "again"
    [] OTHER -> "conflict"

\* The answer: the first change that cannot go on ends the phase.
PushAnswered ==
  /\ up.st = "wait" /\ reqs[up.slot].st = "done"
  /\ LET bad == {d \in up.group: Outcome(d) \in {"contended", "conflict"}}
         todo == up.todo \ up.group
         again == up.again \cup {d \in up.group: Outcome(d) = "again"}
         after == [up EXCEPT !.possible = FALSE, !.group = {}, !.slot = 0,
                     !.accepted = @ \/ \E d \in up.group: Outcome(d) = "accepted",
                     !.satisfied = @ \/ \E d \in up.group: Outcome(d) = "satisfied",
                     !.base = [d \in Docs |-> IF d \in up.group /\ Outcome(d) = "again"
                                              THEN Verdict(d).ver ELSE @[d]]]
     IN IF bad = {}
        THEN /\ up' = [after EXCEPT !.st = IF todo \cup again = {} THEN "meta" ELSE "send",
                                    !.todo = IF todo # {} THEN todo ELSE again,
                                    !.again = IF todo # {} THEN again ELSE {}]
             /\ UNCHANGED man
        ELSE IF Outcome(Least(bad)) = "contended"
        THEN up' = [after EXCEPT !.st = "failed", !.kind = "retry"] /\ UNCHANGED man
        ELSE /\ up' = [after EXCEPT !.st = "failed", !.conflict = TRUE, !.kind = "blocked"]
             /\ man' = [man EXCEPT !.issues = @ \cup {Least(bad)}]
  /\ reqs' = [reqs EXCEPT ![up.slot] = NoReq]
  /\ UNCHANGED <<fork, assumed, member, downcp, ctl, pull, storage, used, edit, repeated, skipped>>

\* No usable answer: the request failed or goes on without its client.
PushUnknown ==
  /\ up.st = "wait" /\ used.faults < MaxFaults
  /\ up' = [up EXCEPT !.st = "failed", !.group = {}, !.slot = 0, !.kind = "uncertain"]
  /\ Spend("faults")
  /\ UNCHANGED <<durable, server, storage, edit, repeated, skipped>>

\* The server refused the request before executing any of it.
PushRefused ==
  /\ up.st = "wait" /\ used.faults < MaxFaults
  /\ reqs[up.slot].st = "get" /\ reqs[up.slot].i = 1
  /\ reqs' = [reqs EXCEPT ![up.slot] = NoReq]
  /\ \E kind \in {"retry", "blocked"}:
       up' = [up EXCEPT !.st = "failed", !.group = {}, !.slot = 0, !.possible = FALSE, !.kind = kind]
  /\ Spend("faults")
  /\ UNCHANGED <<durable, pull, storage, edit, repeated, skipped>>

\* An abandoned request that has ended leaves nothing behind.
RequestEnds(r) ==
  /\ reqs[r].st \in {"done", "error"} /\ ~(up.st = "wait" /\ up.slot = r)
  /\ reqs' = [reqs EXCEPT ![r] = NoReq]
  /\ UNCHANGED <<durable, up, pull, storage, used, edit, repeated, skipped>>

(***************************************************************************)
(* Completion: assumed states, checkpoint, pins, marker.                   *)
(***************************************************************************)
Wrote == {d \in Docs: up.row[d] # NoData /\ ~up.row[d].origin
                       /\ (up.ass[d] = NoRow \/ Business(up.ass[d]) # Business(up.row[d]))}

WriteMeta ==
  /\ up.st = "meta"
  /\ IF \E d \in Wrote: assumed[d] # up.ass[d]
     THEN Abandon("blocked") /\ UNCHANGED assumed
     ELSE /\ assumed' = [d \in Docs |-> IF d \in Wrote
                                        THEN [val |-> up.row[d].val, ver |-> up.row[d].ver]
                                        ELSE assumed[d]]
          /\ up' = [up EXCEPT !.st = "checkpoint"]
  /\ UNCHANGED <<fork, member, man, downcp, ctl, server, storage, used, edit, repeated, skipped>>

SetUpCheckpoint ==
  /\ up.st = "checkpoint"
  /\ fork' = [d \in Docs |-> IF fork[d].lwt = "taken" THEN [fork[d] EXCEPT !.lwt = "old"] ELSE fork[d]]
  /\ up' = [up EXCEPT !.st = "settle"]
  /\ UNCHANGED <<assumed, member, man, downcp, ctl, server, storage, used, edit, repeated, skipped>>

Settle ==
  /\ up.st = "settle"
  /\ fork' = SettlePins
  /\ up' = [up EXCEPT !.st = "complete"]
  /\ UNCHANGED <<assumed, member, man, downcp, ctl, server, storage, used, edit, repeated, skipped>>

Complete ==
  /\ up.st = "complete"
  /\ IF up.reg THEN man' = [man EXCEPT !.marker = NoMarker] ELSE UNCHANGED man
  /\ up' = NoPhase
  /\ UNCHANGED <<fork, assumed, member, downcp, ctl, server, storage, used, edit, repeated, skipped>>

(***************************************************************************)
(* failed: the marker stays unless every request is known to have had no   *)
(* effect.                                                                 *)
(***************************************************************************)
uncertain == up.accepted \/ up.satisfied \/ up.possible
Retain == uncertain \/ up.conflict \/ up.unknown

failed == man' = IF up.reg /\ ~Retain THEN [man EXCEPT !.marker = NoMarker] ELSE man

UpstreamStep ==
  \/ Begin \/ Register \/ RegisterFails \/ Build \/ Send \/ SendFails
  \/ PushAnswered \/ PushUnknown \/ PushRefused \/ (\E r \in Slots: RequestEnds(r))
  \/ WriteMeta \/ SetUpCheckpoint \/ Settle \/ Complete
=============================================================================
