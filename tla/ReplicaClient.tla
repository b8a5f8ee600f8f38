--------------------------- MODULE ReplicaClient ---------------------------
(***************************************************************************)
(* One replica connection of the realtime gateway (replica_client.go,      *)
(* replica_requests.go) and the server's ledger it draws on                *)
(* (replica_budget.go): authentication generations, source registrations,  *)
(* change notices, pages and their acknowledgement, retirement and close.  *)
(* Error frames are left out, as they change no state.                     *)
(***************************************************************************)
EXTENDS Naturals, Sequences, FiniteSets

CONSTANTS Sources,       \* subscription identifiers of the connection
          Requests,      \* page request identifiers
          MaxAuth,       \* bound: authentications
          PendingCap,    \* ledger: pending registrations
          SourceCap,     \* ledger: subscriptions
          Credits,       \* page credits of a connection
          DataCap,       \* capacity of the data queue
          ControlCap     \* capacity of the control queue

VARIABLES auth,      \* authGen and whether it is running, current, expired or over
          closed,    \* c.closed
          sub,       \* the replicaSubscription of each identifier
          page,      \* the replicaPendingPage of each request
          pages,     \* c.pages: credits in use
          control,   \* frames queued ahead of data: acknowledgements and notices
          data,      \* page frames queued
          writing,   \* the frame writePump holds
          writer,    \* writePump: running, draining or done
          used,      \* the ledger: pending, subscriptions, reads, page buffers
          notice     \* how far one chosen change of a source has come: none, heard
                     \* (the source was marked dirty), covered (by a flush), told

clientState == <<auth, closed, sub, page, pages, control, data, writing, writer, used, notice>>

NoFrame == [kind |-> "none", of |-> 0]
NewSub == [st |-> "new", gen |-> 0, retired |-> FALSE, charged |-> FALSE, backend |-> FALSE,
           dirty |-> FALSE, flushing |-> FALSE, queued |-> FALSE, page |-> 0, last |-> 0]
NewPage == [st |-> "new", src |-> 0, sent |-> FALSE, acked |-> FALSE, retired |-> FALSE,
            workDone |-> FALSE, held |-> FALSE, credit |-> FALSE]

ClientInit ==
  /\ auth = [gen |-> 0, st |-> "none"] /\ closed = FALSE
  /\ sub = [s \in Sources |-> NewSub] /\ page = [r \in Requests |-> NewPage]
  /\ pages = 0 /\ control = <<>> /\ data = <<>>
  /\ writing = NoFrame /\ writer = "run"
  /\ used = [pending |-> 0, subs |-> 0, reads |-> 0, buffers |-> 0]
  /\ notice = [s \in Sources |-> "none"]

authCurrent(g) == ~closed /\ auth.st = "current" /\ auth.gen = g
subCurrent(s) == sub[s].st # "new" /\ ~sub[s].retired /\ authCurrent(sub[s].gen)
Registering(v) == v.st \in {"authorizing", "subscribing", "acking"}
Registered(s) == sub[s].st \in {"acking", "registered"}

(***************************************************************************)
(* Retirement.  A page gives back its credit and its buffer once it is     *)
(* settled and nobody works on it or holds its bytes; a source once its    *)
(* registration has ended.                                                 *)
(***************************************************************************)
releasePage(p) ==
  [p EXCEPT !.credit = @ /\ ~((p.acked \/ p.retired) /\ p.workDone /\ ~p.held)]

MutantFinishSource(v) == [v EXCEPT !.charged = @ /\ ~v.retired]

finishSource(v) == [v EXCEPT !.charged = @ /\ ~(v.retired /\ ~Registering(v))]

RetiredSub(v) ==
  finishSource([v EXCEPT !.retired = TRUE, !.page = 0, !.backend = FALSE, !.dirty = FALSE])

Freed(q) == Cardinality({r \in Requests: page[r].credit /\ ~q[r].credit})
Uncharged(v) == Cardinality({s \in Sources: sub[s].charged /\ ~v[s].charged})

\* The sources become v and the pages q; what they no longer need is given back.
Settle(v, q, u) ==
  /\ sub' = v /\ page' = q
  /\ pages' = pages - Freed(q)
  /\ used' = [u EXCEPT !.subs = @ - Uncharged(v), !.buffers = @ - Freed(q)]

\* retireSubLocked for each source of R, after the step's own change of the
\* sources to v and of the ledger to u.
retireSub(R, v, u) ==
  LET gone == {s \in R: v[s].st # "new" /\ ~v[s].retired}
  IN Settle([s \in Sources |-> IF s \in gone THEN RetiredSub(v[s]) ELSE v[s]],
            [r \in Requests |-> IF \E s \in gone: v[s].page = r
                                THEN releasePage([page[r] EXCEPT !.retired = TRUE])
                                ELSE page[r]],
            u)

\* sendControl: a full queue closes the connection.
sendControl(f, v, u) ==
  IF closed \/ sub[f.of].gen # auth.gen
  THEN retireSub({}, v, u) /\ UNCHANGED <<closed, control>>
  ELSE IF Len(control) < ControlCap
  THEN /\ control' = Append(control, f)
       /\ retireSub({}, v, u) /\ UNCHANGED closed
  ELSE closed' = TRUE /\ retireSub(Sources, v, u) /\ UNCHANGED control

(***************************************************************************)
(* Authentication and close.                                               *)
(***************************************************************************)
startAuth ==
  /\ ~closed /\ auth.st # "running" /\ auth.gen < MaxAuth /\ used.pending < PendingCap
  /\ auth' = [gen |-> auth.gen + 1, st |-> "running"]
  /\ retireSub(Sources, sub, [used EXCEPT !.pending = @ + 1])
  /\ UNCHANGED <<closed, control, data, writing, writer, notice>>

\* The verification returns; only the current generation of an open connection
\* becomes authenticated.
AuthReturns ==
  /\ auth.st = "running"
  /\ \E ok \in BOOLEAN:
       auth' = [auth EXCEPT !.st = IF ok /\ ~closed THEN "current" ELSE "none"]
  /\ used' = [used EXCEPT !.pending = @ - 1]
  /\ UNCHANGED <<closed, sub, page, pages, control, data, writing, writer, notice>>

\* The credentials' time has passed; the timer closes the connection after it.
Expire ==
  /\ auth.st = "current" /\ ~closed
  /\ auth' = [auth EXCEPT !.st = "expired"]
  /\ UNCHANGED <<closed, sub, page, pages, control, data, writing, writer, used, notice>>

\* closeIf: the peer, a timer or the hub ends the connection.
close ==
  /\ ~closed /\ closed' = TRUE
  /\ retireSub(Sources, sub, used)
  /\ UNCHANGED <<auth, control, data, writing, writer, notice>>

(***************************************************************************)
(* Registration of a source.                                               *)
(***************************************************************************)
startSubscribe(s) ==
  /\ authCurrent(auth.gen) /\ sub[s].st = "new"
  /\ IF used.subs < SourceCap /\ used.pending < PendingCap
     THEN /\ sub' = [sub EXCEPT ![s].st = "authorizing", ![s].gen = auth.gen, ![s].charged = TRUE]
          /\ used' = [used EXCEPT !.pending = @ + 1, !.subs = @ + 1]
     ELSE sub' = [sub EXCEPT ![s].st = "over", ![s].retired = TRUE] /\ UNCHANGED used
  /\ UNCHANGED <<auth, closed, page, pages, control, data, writing, writer, notice>>

\* The registering goroutine ends with the source in state st; R: retired by it.
EndRegistration(s, st, R) ==
  /\ retireSub(R, [sub EXCEPT ![s] = finishSource([@ EXCEPT !.st = st])],
               [used EXCEPT !.pending = @ - 1])
  /\ UNCHANGED <<auth, closed, control, data, writing, writer, notice>>

RegistrationFails(s) ==
  /\ sub[s].st \in {"authorizing", "subscribing"}
  /\ EndRegistration(s, "over", {s})

\* Authorised: the goroutine goes on to the hub if the source is still current and
\* its deadline has not passed.
Authorized(s) ==
  /\ sub[s].st = "authorizing"
  /\ \/ /\ subCurrent(s)
        /\ sub' = [sub EXCEPT ![s].st = "subscribing"]
        /\ UNCHANGED <<auth, closed, page, pages, control, data, writing, writer, used, notice>>
     \/ EndRegistration(s, "lapsed", {})

BackendGranted(s) ==
  /\ sub[s].st = "subscribing"
  /\ \/ /\ subCurrent(s)
        /\ sub' = [sub EXCEPT ![s].st = "acking", ![s].backend = TRUE]
        /\ UNCHANGED <<auth, closed, page, pages, control, data, writing, writer, used, notice>>
     \/ EndRegistration(s, "lapsed", {})

SubscribeAck(s) ==
  /\ sub[s].st = "acking"
  /\ sendControl([kind |-> "ack", of |-> s],
                 [sub EXCEPT ![s] = finishSource([@ EXCEPT !.st = "registered"])],
                 [used EXCEPT !.pending = @ - 1])
  /\ UNCHANGED <<auth, data, writing, writer, notice>>

\* retireSubLocked on behalf of the peer, the hub, the registration timer (which may
\* have read a registration that has since succeeded) or a failed notice.
RetireSource(s) ==
  /\ sub[s].st # "new" /\ ~sub[s].retired
  /\ retireSub({s}, sub, used)
  /\ UNCHANGED <<auth, closed, control, data, writing, writer, notice>>

RegistrationTimeout(s) ==
  sub[s].st \in {"authorizing", "subscribing", "acking", "lapsed"} /\ RetireSource(s)

unsubscribe(s) == authCurrent(auth.gen) /\ RetireSource(s)
invalidateSub(s) == RetireSource(s)

(***************************************************************************)
(* Change notices: dirty, one flush at a time, one queued frame at a time. *)
(***************************************************************************)
Advance(s, from, to) == IF notice[s] = from THEN to ELSE notice[s]

\* S: the sources told of a change; chosen: it is the one notice follows.
changed(S, chosen) ==
  /\ sub' = [s \in Sources |-> IF s \in S /\ subCurrent(s) THEN [sub[s] EXCEPT !.dirty = TRUE]
                               ELSE sub[s]]
  /\ notice' = [s \in Sources |-> IF s \in S /\ subCurrent(s) /\ chosen
                                THEN Advance(s, "none", "heard") ELSE notice[s]]
  /\ UNCHANGED <<auth, closed, page, pages, control, data, writing, writer, used>>

flushPump(s) ==
  /\ subCurrent(s) /\ Registered(s)
  /\ sub[s].dirty /\ ~sub[s].flushing /\ ~sub[s].queued
  /\ used.pending < PendingCap
  /\ sub' = [sub EXCEPT ![s].flushing = TRUE, ![s].dirty = FALSE]
  /\ used' = [used EXCEPT !.pending = @ + 1]
  /\ notice' = [notice EXCEPT ![s] = Advance(s, "heard", "covered")]
  /\ UNCHANGED <<auth, closed, page, pages, control, data, writing, writer>>

MutantFlushChanged(s) ==
  LET u == [used EXCEPT !.pending = @ - 1]
      v == [sub EXCEPT ![s].flushing = FALSE]
  IN
  /\ sub[s].flushing
  /\ \/ /\ subCurrent(s)
        /\ sendControl([kind |-> "changed", of |-> s], [v EXCEPT ![s].queued = TRUE], u)
        /\ UNCHANGED notice
     \/ /\ retireSub({}, v, u)
        /\ notice' = [notice EXCEPT ![s] = Advance(s, "covered", "heard")]
        /\ UNCHANGED <<closed, control>>
  /\ UNCHANGED <<auth, data, writing, writer>>

\* The flush ends: the notice is queued; or the authorisation was busy and the source
\* is dirty again; or it failed and the source is retired; or the source is over.
flushChanged(s) ==
  LET u == [used EXCEPT !.pending = @ - 1]
      v == [sub EXCEPT ![s].flushing = FALSE]
  IN
  /\ sub[s].flushing
  /\ \/ /\ subCurrent(s)
        /\ sendControl([kind |-> "changed", of |-> s], [v EXCEPT ![s].queued = TRUE], u)
        /\ UNCHANGED notice
     \/ /\ retireSub({}, [v EXCEPT ![s].dirty = @ \/ subCurrent(s)], u)
        /\ notice' = [notice EXCEPT ![s] = Advance(s, "covered", "heard")]
        /\ UNCHANGED <<closed, control>>
     \/ retireSub({s}, v, u) /\ UNCHANGED <<closed, control, notice>>
     \/ ~subCurrent(s) /\ retireSub({}, v, u) /\ UNCHANGED <<closed, control, notice>>
  /\ UNCHANGED <<auth, data, writing, writer>>

(***************************************************************************)
(* Pages: one outstanding per source, each with a credit and a buffer.     *)
(***************************************************************************)
startRead(s, r) ==
  /\ subCurrent(s) /\ Registered(s) /\ sub[s].page = 0 /\ sub[s].last # r
  /\ page[r].st = "new" /\ pages < Credits
  /\ page' = [page EXCEPT ![r].st = "reading", ![r].src = s, ![r].credit = TRUE]
  /\ sub' = [sub EXCEPT ![s].page = r]
  /\ pages' = pages + 1
  /\ used' = [used EXCEPT !.reads = @ + 1, !.buffers = @ + 1]
  /\ UNCHANGED <<auth, closed, control, data, writing, writer, notice>>

Outstanding(r) == page[r].src \in Sources /\ sub[page[r].src].page = r
WithoutPage(r) == IF Outstanding(r) THEN [sub EXCEPT ![page[r].src].page = 0] ELSE sub

\* The page is over for its source.
DropPage(r, p, u) == Settle(WithoutPage(r), [page EXCEPT ![r] = releasePage(p)], u)

pageFailure(r) ==
  /\ page[r].st = "reading"
  /\ DropPage(r, [page[r] EXCEPT !.retired = TRUE, !.st = "ending"], used)
  /\ UNCHANGED <<auth, closed, control, data, writing, writer, notice>>

\* The page has been read and encoded; a source no longer current ends the read.
readPage(r) ==
  LET s == page[r].src
  IN
  /\ page[r].st = "reading"
  /\ IF ~(subCurrent(s) /\ Outstanding(r) /\ ~page[r].retired)
     THEN Settle(sub, [page EXCEPT ![r].st = "ending"], used) /\ UNCHANGED <<closed, data>>
     ELSE IF Len(data) < DataCap
     THEN /\ Settle(sub, [page EXCEPT ![r].st = "ending", ![r].held = TRUE], used)
          /\ data' = Append(data, r) /\ UNCHANGED closed
     ELSE /\ closed' = TRUE /\ retireSub(Sources, sub, used) /\ UNCHANGED data
  /\ UNCHANGED <<auth, control, writing, writer, notice>>

\* The reader's deferred function.
ReadEnds(r) ==
  LET p == [page[r] EXCEPT !.st = "done", !.workDone = TRUE]
      u == [used EXCEPT !.reads = @ - 1]
  IN
  /\ page[r].st = "ending"
  /\ IF ~p.held /\ ~p.sent /\ ~p.acked
     THEN DropPage(r, [p EXCEPT !.retired = TRUE], u)
     ELSE Settle(sub, [page EXCEPT ![r] = releasePage(p)], u)
  /\ UNCHANGED <<auth, closed, control, data, writing, writer, notice>>

\* The peer may acknowledge as soon as the frame is on its way.
acknowledge(r) ==
  LET s == page[r].src
  IN
  /\ Outstanding(r) /\ subCurrent(s) /\ Registered(s) /\ sub[s].last # r /\ page[r].sent
  /\ Settle([sub EXCEPT ![s].page = 0, ![s].last = r],
            [page EXCEPT ![r] = releasePage([@ EXCEPT !.acked = TRUE])], used)
  /\ UNCHANGED <<auth, closed, control, data, writing, writer, notice>>

expirePage(r) ==
  LET s == page[r].src
  IN
  /\ Outstanding(r) /\ subCurrent(s)
  /\ page[r].sent /\ ~page[r].held /\ ~page[r].acked /\ ~page[r].retired
  /\ RetireSource(s)

(***************************************************************************)
(* The writer.                                                             *)
(***************************************************************************)
discard(r, u) == DropPage(r, [page[r] EXCEPT !.held = FALSE, !.retired = TRUE], u)

WriteControl ==
  LET f == Head(control)
  IN
  /\ writer = "run" /\ writing = NoFrame /\ control # <<>>
  /\ control' = Tail(control)
  /\ writing' = IF subCurrent(f.of) THEN f ELSE NoFrame
  /\ UNCHANGED <<auth, closed, sub, page, pages, data, writer, used, notice>>

WritePage ==
  LET r == Head(data)
      s == page[r].src
  IN
  /\ writer = "run" /\ writing = NoFrame /\ data # <<>>
  /\ data' = Tail(data)
  /\ IF subCurrent(s) /\ Outstanding(r) /\ ~page[r].retired
     THEN /\ page' = [page EXCEPT ![r].sent = TRUE]
          /\ writing' = [kind |-> "page", of |-> r]
          /\ UNCHANGED <<sub, pages, used>>
     ELSE discard(r, used) /\ UNCHANGED writing
  /\ UNCHANGED <<auth, closed, control, writer, notice>>

\* WriteMessage returns; an error ends the writer and closes the connection.
WriteReturns(ok) ==
  LET f == writing
      v == IF f.kind = "changed" THEN [sub EXCEPT ![f.of].queued = FALSE] ELSE sub
      q == IF f.kind = "page"
           THEN [page EXCEPT ![f.of] = releasePage([@ EXCEPT !.held = FALSE])] ELSE page
  IN
  /\ writing # NoFrame /\ writing' = NoFrame
  /\ Settle(v, q, used)
  /\ notice' = IF f.kind = "changed" /\ ok
             THEN [notice EXCEPT ![f.of] = Advance(f.of, "covered", "told")] ELSE notice
  /\ writer' = IF ok THEN writer ELSE "draining"
  /\ UNCHANGED <<auth, closed, control, data>>

\* The context is done, or a write failed: close, and give back the queued pages.
WriterStops ==
  /\ writing = NoFrame
  /\ \/ writer = "run" /\ closed /\ writer' = "draining"
        /\ UNCHANGED <<closed, sub, page, pages, used, data>>
     \/ writer = "draining" /\ ~closed /\ closed' = TRUE
        /\ retireSub(Sources, sub, used) /\ UNCHANGED <<writer, data>>
     \/ writer = "draining" /\ closed /\ data # <<>>
        /\ discard(Head(data), used) /\ data' = Tail(data) /\ UNCHANGED <<closed, writer>>
     \/ writer = "draining" /\ closed /\ data = <<>> /\ writer' = "done"
        /\ UNCHANGED <<closed, sub, page, pages, used, data>>
  /\ UNCHANGED <<auth, control, writing, notice>>

(***************************************************************************)
(* The connection, with a hub that may grant, refuse, notify, invalidate   *)
(* or close at any time.                                                   *)
(***************************************************************************)
\* hub.SubscribeReplica returns, in one of the two ways.
SubscribeReturned(s) == BackendGranted(s) \/ (sub[s].st = "subscribing" /\ RegistrationFails(s))

onChanged(s) ==
  \E followed \in BOOLEAN:
    /\ sub[s].backend /\ ~sub[s].dirty
    /\ changed({s}, followed)

SourceStep(s) ==
  \/ startSubscribe(s) \/ Authorized(s) \/ SubscribeReturned(s) \/ SubscribeAck(s)
  \/ RegistrationTimeout(s) \/ unsubscribe(s) \/ invalidateSub(s)
  \/ sub[s].st = "authorizing" /\ RegistrationFails(s)

PageStep(r) ==
  \/ \E s \in Sources: startRead(s, r)
  \/ pageFailure(r) \/ readPage(r) \/ ReadEnds(r) \/ acknowledge(r) \/ expirePage(r)

WriterStep == WriteControl \/ WritePage \/ (\E ok \in BOOLEAN: WriteReturns(ok)) \/ WriterStops

ClientNext ==
  \/ startAuth \/ AuthReturns \/ Expire \/ close \/ WriterStep
  \/ \E s \in Sources: SourceStep(s) \/ onChanged(s) \/ flushPump(s) \/ flushChanged(s)
  \/ \E r \in Requests: PageStep(r)

\* The goroutines of the connection run; the peer and the hub promise nothing.
ClientFairness ==
  /\ WF_clientState(WriterStep)
  /\ \A s \in Sources: WF_clientState(flushPump(s)) /\ WF_clientState(flushChanged(s))

ClientSpec == ClientInit /\ [][ClientNext]_clientState /\ ClientFairness

(***************************************************************************)
(* Properties.                                                             *)
(***************************************************************************)
\* A change that reached a source is never forgotten: until the client is told, the
\* source is dirty again, or a notice that began after the change is being authorised
\* or written, or the connection is going down (flushPump, flushChanged, writePump).
NoticeKept ==
  \A s \in Sources:
    subCurrent(s) /\ writer = "run" =>
      /\ notice[s] = "heard" => sub[s].dirty
      /\ notice[s] = "covered" => sub[s].flushing \/ sub[s].queued

\* The ledger is exact: what is reserved is what work and buffers still hold, so a
\* closed connection returns all of it when its goroutines have ended
\* (releasePageLocked, finishSourceLocked, discard).
BudgetExact ==
  /\ used.subs = Cardinality({s \in Sources:
                    sub[s].st # "new" /\ (~sub[s].retired \/ Registering(sub[s]))})
  /\ used.pending = (IF auth.st = "running" THEN 1 ELSE 0)
       + Cardinality({s \in Sources: Registering(sub[s])})
       + Cardinality({s \in Sources: sub[s].flushing})
  /\ writer = "done" /\ (\A r \in Requests: page[r].st \in {"new", "done"}) =>
       pages = 0 /\ used.buffers = 0 /\ used.reads = 0
=============================================================================
