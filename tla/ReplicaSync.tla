---------------------------- MODULE ReplicaSync ----------------------------
(***************************************************************************)
(* One alias of the client's replica against the server: both directions   *)
(* under the elected coordinator (coordinator.ts, runtime.ts), its crashes *)
(* and failures, and the decisions by which a user resolves what it cannot *)
(* (recovery.ts).                                                          *)
(***************************************************************************)
EXTENDS ReplicaDownstream

VARIABLE co   \* the coordinator: state, reset, and the decision being carried out

NoDecision == [doc |-> 0, row |-> NoRow, tok |-> 0, val |-> "none"]

vars == <<storage, server, durable, ghosts, up, down, co>>

NotLeading == [st |-> "off", reset |-> FALSE, res |-> NoDecision, back |-> "wait"]

Init ==
  /\ StoreInit /\ ServerInit /\ EmptyAlias /\ GhostInit
  /\ up = NoPhase /\ down = Resting /\ co = NotLeading

\* Later: the replica leads, has caught up and rests.
SteadyInit ==
  /\ StoreInit /\ ServerInit /\ SteadyAlias /\ GhostInit
  /\ up = NoPhase /\ down = [Resting EXCEPT !.ready = TRUE]
  /\ co = [NotLeading EXCEPT !.st = "run"]

(***************************************************************************)
(* Election and start.                                                     *)
(***************************************************************************)
\* initializeLeader: replay a recorded decision, then refuse to run over unresolved work.
Leading == IF man.intent.doc # 0 THEN "replay" ELSE IF Clean(man) THEN "wait" ELSE "blocked"

Elect ==
  /\ co.st = "off" /\ co' = [co EXCEPT !.st = Leading, !.back = "wait"]
  /\ UNCHANGED <<storage, server, durable, used, edit, repeated, skipped, up, down>>

\* createNative and the two halves of recover; the first round follows.
createNative ==
  /\ co.st = "wait"
  /\ man' = IF Clean(man) /\ downcp.final /\ ctl = downcp THEN Finished(downcp) ELSE man
  /\ co' = [co EXCEPT !.st = IF Clean(man) THEN "settle" ELSE "blocked"]
  /\ UNCHANGED <<storage, server, fork, assumed, member, downcp, ctl, used, edit, repeated, skipped, up, down>>

FirstRound ==
  /\ co.st = "settle" /\ used.rounds < MaxRounds /\ Spend("rounds")
  /\ fork' = EndRound(SettlePins)
  /\ down' = [Resting EXCEPT !.st = "want", !.reset = co.reset]
  /\ co' = [co EXCEPT !.st = "run", !.reset = FALSE]
  /\ UNCHANGED <<storage, server, assumed, member, man, downcp, ctl, edit, repeated, skipped, up>>

(***************************************************************************)
(* The end of a session: both directions stop where they are, and a phase  *)
(* that was under way fails.                                               *)
(***************************************************************************)
EndSession(st, reset) ==
  /\ failed
  /\ fork' = EndRound(Untake(fork))
  /\ up' = NoPhase /\ down' = Resting /\ pull' = NoPull
  /\ co' = [co EXCEPT !.st = st, !.reset = reset]
  /\ UNCHANGED <<storage, reqs, assumed, member, downcp, ctl, edit, repeated, skipped>>

InPhase == up.st # "idle"

UpstreamFailed ==
  /\ co.st = "run" /\ up.st = "failed"
  /\ EndSession(IF uncertain \/ up.kind # "retry" THEN "blocked" ELSE "wait", FALSE)
  /\ UNCHANGED used

DownstreamFailed ==
  /\ co.st = "run" /\ DownstreamFails
  /\ EndSession("blocked", FALSE)
  /\ UNCHANGED used

\* A failed read is retried, from the beginning if the server asks for it; a phase
\* that it interrupts blocks unless its marker could be cleared.
SourceReadFailure ==
  /\ co.st = "run" /\ down.st = "asked" /\ pull.st \in {"resync", "unavailable"}
  /\ EndSession(IF InPhase /\ Retain THEN "blocked" ELSE "wait", pull.st = "resync")
  /\ UNCHANGED used

Unavailable ==
  /\ used.faults < MaxFaults /\ PullUnavailable /\ Spend("faults")
  /\ UNCHANGED <<storage, durable, edit, repeated, skipped, up, down, co>>

PushBreaks(r) ==
  /\ used.faults < MaxFaults /\ PushError(r) /\ Spend("faults")
  /\ UNCHANGED <<durable, edit, repeated, skipped, up, down, co>>

pause == co.st = "run" /\ used.faults < MaxFaults /\ Spend("faults") /\ EndSession("paused", FALSE)

resume ==
  /\ co.st \in {"paused", "blocked"} /\ co.res = NoDecision
  /\ co' = [co EXCEPT !.st = Leading, !.back = "wait"]
  /\ UNCHANGED <<storage, server, durable, used, edit, repeated, skipped, up, down>>

\* The tab or the process dies; requests on their way stay on their way.
Crash ==
  /\ co.st # "off" /\ used.faults < MaxFaults /\ Spend("faults")
  /\ fork' = EndRound(Untake(fork))
  /\ up' = NoPhase /\ down' = Resting /\ pull' = NoPull
  /\ co' = NotLeading
  /\ UNCHANGED <<storage, reqs, assumed, member, man, downcp, ctl, edit, repeated, skipped>>

(***************************************************************************)
(* resolveReplica.  The server's document is read outside the lock; the    *)
(* decision is recorded, then carried out step by step.                    *)
(***************************************************************************)
Resolvable(d) == Protected(d) /\ man.intent.doc = 0

ResolveRead(d, val) ==
  /\ co.st \in {"paused", "blocked"} /\ co.res = NoDecision
  /\ Resolvable(d) /\ used.edits < MaxEdits
  /\ co' = [co EXCEPT !.res = [doc |-> d, row |-> store[d], tok |-> fork[d].tok, val |-> val]]
  /\ UNCHANGED <<storage, server, durable, used, edit, repeated, skipped, up, down>>

\* val "server" adopts what the server has; any other merges the user's content.
ResolveWrite ==
  LET r == co.res
      now == [val |-> Business(r.row), ver |-> r.row.ver]
      adopt == r.val = "server"
      want == [val |-> IF adopt THEN now.val ELSE r.val, ver |-> now.ver, tok |-> NewToken,
               pin |-> IF adopt THEN "none" ELSE "settle", lwt |-> "new", origin |-> FALSE]
  IN
  /\ r # NoDecision /\ Resolvable(r.doc) /\ fork[r.doc].tok = r.tok /\ used.edits < MaxEdits
  /\ man' = [man EXCEPT !.intent = [doc |-> r.doc, current |-> now, want |-> want]]
  /\ IF adopt THEN Released(r.doc) ELSE Edited(r.doc, r.val, NewToken)
  /\ Spend("edits")
  /\ co' = [co EXCEPT !.st = "replay", !.back = "paused", !.res = NoDecision]
  /\ UNCHANGED <<storage, server, fork, assumed, member, downcp, ctl, repeated, skipped, up, down>>

\* The document or the issue changed during the read.
ResolveStale ==
  /\ co.res # NoDecision
  /\ ~(Resolvable(co.res.doc) /\ fork[co.res.doc].tok = co.res.tok) \/ used.edits = MaxEdits
  /\ co' = [co EXCEPT !.res = NoDecision]
  /\ UNCHANGED <<storage, server, durable, used, edit, repeated, skipped, up, down>>

replayFork ==
  /\ co.st = "replay"
  /\ fork' = [fork EXCEPT ![man.intent.doc] = man.intent.want]
  /\ skipped' = skipped \ {man.intent.doc}
  /\ co' = [co EXCEPT !.st = "replayMeta"]
  /\ UNCHANGED <<storage, server, assumed, member, man, downcp, ctl, used, edit, repeated, up, down>>

replayMeta ==
  /\ co.st = "replayMeta"
  /\ assumed' = [assumed EXCEPT ![man.intent.doc] = man.intent.current]
  /\ co' = [co EXCEPT !.st = "replayDone"]
  /\ UNCHANGED <<storage, server, fork, member, man, downcp, ctl, used, edit, repeated, skipped, up, down>>

\* finishIntent: the document leaves the marker, which goes with its last target.
finishIntent ==
  /\ co.st = "replayDone"
  /\ LET left == [man.marker.targets EXCEPT ![man.intent.doc] = 0] IN
     man' = [man EXCEPT !.intent = NoIntent, !.issues = @ \ {man.intent.doc},
               !.marker = IF @.on /\ \E d \in Docs: left[d] # 0
                          THEN [@ EXCEPT !.targets = left] ELSE NoMarker]
  /\ co' = [co EXCEPT !.st = co.back]
  /\ UNCHANGED <<storage, server, fork, assumed, member, downcp, ctl, used, edit, repeated, skipped, up, down>>

\* retry-uncertain: the user accepts that changes may be applied again.
RetryUncertain ==
  /\ co.st \in {"paused", "blocked"} /\ co.res = NoDecision
  /\ man.marker.on /\ man.intent.doc = 0
  /\ man' = [man EXCEPT !.marker = NoMarker]
  /\ repeated' = repeated \cup {man.marker.targets[d]: d \in Docs}
  /\ co' = [co EXCEPT !.st = "paused"]
  /\ UNCHANGED <<storage, server, fork, assumed, member, downcp, ctl, used, edit, skipped, up, down>>

\* reset-alias: an empty epoch takes over.
ResetAlias ==
  /\ co.st \in {"paused", "blocked"} /\ co.res = NoDecision
  /\ man.marker.on \/ man.issues # {}
  /\ fork' = [d \in Docs |-> NoData] /\ assumed' = [d \in Docs |-> NoRow]
  /\ member' = [d \in Docs |-> NoMember] /\ man' = FreshManifest
  /\ downcp' = NoCheckpoint /\ ctl' = NoCheckpoint
  /\ edit' = [d \in Docs |-> NoEdit] /\ skipped' = {}
  /\ co' = [co EXCEPT !.st = "paused"]
  /\ UNCHANGED <<storage, server, used, repeated, up, down>>

(***************************************************************************)
(* The whole.                                                              *)
(***************************************************************************)
Edits ==
  /\ \E d \in Docs: \E val \in Values \cup {"deleted"}: mutate(d, val)
  /\ UNCHANGED <<storage, server, up, down, co>>

Resolves ==
  \/ \E d \in Docs: \E val \in {"server"} \cup Values: ResolveRead(d, val)
  \/ ResolveWrite \/ ResolveStale \/ RetryUncertain \/ ResetAlias

Others ==
  /\ (OtherWriter \/ Truncate)
  /\ UNCHANGED <<server, durable, used, edit, repeated, skipped, up, down, co>>

Coordinates ==
  \/ Elect \/ createNative \/ FirstRound
  \/ UpstreamFailed \/ DownstreamFailed \/ SourceReadFailure \/ Unavailable
  \/ (\E r \in Slots: PushBreaks(r)) \/ pause \/ resume \/ Crash
  \/ replayFork \/ replayMeta \/ finishIntent

Serves == (PullStep \/ \E r \in Slots: PushStep(r)) /\ UNCHANGED <<durable, used, edit, repeated, skipped, up, down, co>>

Pushes == co.st = "run" /\ (up.st = "idle" => down.ready) /\ UpstreamStep /\ UNCHANGED <<down, co>>
Pulls == co.st = "run" /\ up.st # "failed" /\ DownstreamStep /\ UNCHANGED co

Received(d) ==
  {assumed[d].val} \cup (IF fork[d].origin THEN {fork[d].val} ELSE {})
    \cup (IF d \in down.part.meta THEN {down.part.data[d].val} ELSE {})

\* What the server has had since the edit that each document holds; what the replica
\* had of the server when it was made counts, and so does what an edit only repeats.
Witness ==
  seen' = [d \in Docs |->
    CASE edit'[d].tok = 0 -> {}
      [] edit'[d].tok # 0 /\ edit'[d] = edit[d] -> seen[d] \cup {store'[d].val}
      [] OTHER -> {store[d].val} \cup (IF edit'[d].val = edit[d].val THEN seen[d] ELSE {}) \cup
                    (IF man'.intent.doc = d THEN {man'.intent.current.val} ELSE Received(d))]

Next ==
  /\ \/ Edits \/ Resolves \/ Others \/ Coordinates \/ Serves \/ Pushes \/ Pulls
  /\ Witness

Spec == Init /\ [][Next]_vars

(***************************************************************************)
(* Properties.                                                             *)
(***************************************************************************)
Gone == {"none", "deleted", "absent"}
Reached(d) == \/ edit[d].val \in seen[d]
              \/ edit[d].val = "deleted" /\ seen[d] \cap Gone # {}

\* No edit is lost: until the server has held its content, or its user has given it up,
\* the edit is the replica's own row and still differs from what the replica assumes of
\* the server, whatever is pulled, retried, recovered or cut short.
EditKept ==
  \A d \in Docs:
    edit[d].tok # 0 /\ ~Reached(d) =>
      \/ fork[d].tok = edit[d].tok /\ fork[d].val = edit[d].val
         /\ (man.intent.doc # d => Business(assumed[d]) # Business(fork[d]) \/ assumed[d] = NoRow)
      \/ man.intent.doc = d /\ man.intent.want.tok = edit[d].tok

\* No edit is applied twice unless its user allowed it, though requests outlive the
\* client and answers are lost.
AppliedOnce ==
  \A i, j \in 1..Len(log):
    i < j /\ log[i].tok = log[j].tok /\ log[i].tok # 0 => log[i].tok \in repeated

Untouched(d) == \A i \in 1..Len(log): i > downcp.cur.pos => log[i].doc # d
Covered(d) == fork[d].pin # "none" \/ pending(d) \/ Protected(d) \/ man.intent.doc = d
CaughtUpView == man.ready /\ ~man.partial /\ man.staged = 0 /\ downcp.gen = man.active

Exact(d) ==
  LET there == Live(store[d]) /\ store[d].val \in Matching IN
  /\ InGeneration(d, man.active) = there
  /\ there => fork[d].val = store[d].val
  /\ ~there => ~visible(d) \/ fork[d].val = "deleted"

\* A ready replica shows the source: a document that has not changed since the saved
\* cursor, and that no local edit covers, is shown exactly as the server has it, unless
\* its last event met a local edit and was left out.
ViewExact ==
  CaughtUpView => \A d \in Docs: Untouched(d) /\ ~Covered(d) /\ d \notin skipped => Exact(d)

\* The same without the exception: nothing that convergence still needs is left out.
ViewConverges ==
  CaughtUpView => \A d \in Docs: Untouched(d) /\ ~Covered(d) => Exact(d)
=============================================================================
