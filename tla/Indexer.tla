------------------------------- MODULE Indexer -------------------------------
(***************************************************************************)
(* The indexer service (indexer/service.go, bootstrap.go) over its         *)
(* persistent store, the source it scans and the Puller it subscribes to.  *)
(*                                                                         *)
(* The source is a log of changes of which head have happened. A change    *)
(* stands for its own progress marker; the first has happened before       *)
(* anything else, so 0 is only the empty marker. The Puller is modelled by *)
(* what PullerSubscription promises: changes in order without a gap, and a *)
(* readiness barrier once those known when it attached are delivered.      *)
(***************************************************************************)
EXTENDS PebbleStore, Sequences

CONSTANTS
  Log,              \* the source: [doc, op] with op "put", "tombstone", "physical"
  Unprojectable,    \* <<change, template>> that BuildDocumentProjection refuses
  IncludeDeleted,   \* templates that keep postings of tombstones
  ScanOrder,        \* the documents, as enumeration and scan return them
  MaxRetries,       \* attempts of reconnect (10 in the code)
  MaxFaults         \* bound: stream faults

ASSUME LogAssumption ==
  /\ Last = Len(Log) /\ Last > 0
  /\ \A i \in 1..Last : Log[i].doc \in Docs /\ Log[i].op \in {"put", "tombstone", "physical"}
  /\ ScanOrder \in Seq(Docs)
  /\ \A x \in Docs : \E n \in 1..Len(ScanOrder) : ScanOrder[n] = x

VARIABLES
  head,       \* changes the source has made
  op,         \* Bootstrap or Start in progress: "off", "scan", "flush", "publish", "start"
  mark,       \* its boundary or loaded progress
  scanned,    \* documents its scan has projected
  gen,        \* generations drawn so far
  running, closed, ready, retrying, failed,   \* service fields; failed: lifecycleErr
  progress,   \* service field: progress applied
  loop,       \* subscriptionLoop: "off", "attach", "recv", "fail", "barrier",
              \* "reconnect", "retry"
  failing,    \* partitions failEvent has yet to mark
  retries,
  pos, fence, \* the stream: last change delivered, head when it attached
  faults

opVars == <<op, mark, scanned, gen>>
flagVars == <<running, closed, ready, retrying, failed>>
loopVars == <<progress, loop, failing, retries, pos, fence>>
vars == <<pebbleVars, head, opVars, flagVars, loopVars, faults>>

-----------------------------------------------------------------------------
(* Projections.                                                            *)

\* The last change of x among the first n, 0 if there is none.
LastChange(x, n) ==
  CHOOSE i \in 0..n : (i # 0 => Log[i].doc = x) /\ \A j \in (i + 1)..n : Log[j].doc # x

\* BuildDocumentProjection: the postings of change i under template t.
Projection(i, t) ==
  IF Log[i].op = "tombstone" /\ t \notin IncludeDeleted THEN 0 ELSE i

\* The source holds a document, or its tombstone, after its change i.
Stored(i) == i # 0 /\ Log[i].op # "physical"

TemplatesFor(x) == TemplatesOf(DocDb[x])

Projectable(i) == \A t \in TemplatesFor(Log[i].doc) : <<i, t>> \notin Unprojectable

\* The replacements for change i in generation g.
Projections(i, g) ==
  [c \in {<<t, g>> : t \in TemplatesFor(Log[i].doc)} \X {Log[i].doc} |->
     Projection(i, c[1][1])]

-----------------------------------------------------------------------------
(* Bootstrap, in maintenance: writers are quiesced until it returns.       *)

Idle == storeState = "open" /\ op = "off" /\ ~running /\ ~closed

Bootstrap ==
  /\ Idle /\ ~flushErr /\ gen < MaxGen
  /\ \A d \in Databases : meta.catalogs[d] = 0
  /\ View.parts = {}
  /\ op' = "scan" /\ mark' = head /\ scanned' = 0 /\ gen' = gen + 1
  /\ ready' = FALSE
  /\ UNCHANGED <<pebbleVars, head, running, closed, retrying, failed, loopVars, faults>>

OpEnds ==
  /\ op' = "off" /\ mark' = 0 /\ scanned' = 0
  /\ UNCHANGED <<head, gen, flagVars, loopVars, faults>>

\* One document of the scan. A document removed for good is not returned.
BootstrapDocument ==
  /\ op = "scan" /\ ~closed
  /\ scanned < Len(ScanOrder)
  /\ LET i == LastChange(ScanOrder[scanned + 1], head)
     IN \/ ~Stored(i) /\ UNCHANGED pebbleVars
        \/ /\ Stored(i) /\ Projectable(i)
           /\ ApplyDocumentProjection(Projections(i, gen), 0)
  /\ scanned' = scanned + 1
  /\ UNCHANGED <<head, op, mark, gen, flagVars, loopVars, faults>>

\* A source error, a document that cannot be projected, a store error, a
\* boundary or an inventory found changed, or a cancelled context.
BootstrapFails ==
  /\ op \in {"scan", "flush", "publish"}
  /\ UNCHANGED pebbleVars
  /\ OpEnds

BootstrapScanned ==
  /\ op = "scan" /\ scanned = Len(ScanOrder)
  /\ op' = "flush"
  /\ UNCHANGED <<pebbleVars, head, mark, scanned, gen, flagVars, loopVars, faults>>

\* store.Flush has returned, the boundary and the inventory are unchanged.
BootstrapFlushed ==
  /\ op = "flush" /\ ~HasPending /\ ~flushErr
  /\ op' = "publish"
  /\ UNCHANGED <<pebbleVars, head, mark, scanned, gen, flagVars, loopVars, faults>>

BootstrapPublish ==
  /\ op = "publish" /\ ~closed
  /\ PublishBootstrapCatalogs(Databases, gen, mark)
  /\ progress' = mark
  /\ op' = "off" /\ mark' = 0 /\ scanned' = 0
  /\ UNCHANGED <<head, gen, flagVars, loop, failing, retries, pos, fence, faults>>

BootstrapPublishFails ==
  /\ op = "publish" /\ ~closed
  /\ WriteFails
  /\ OpEnds

-----------------------------------------------------------------------------
(* Start.                                                                  *)

\* validateCatalogs: a database without a catalog must be retired.
CatalogsValid == \A d \in Databases : meta.catalogs[d] # 0 \/ d \in meta.retired

StartWithValidationContext ==
  /\ Idle /\ ~flushErr
  /\ CatalogsValid /\ LoadProgress # 0
  /\ op' = "start" /\ mark' = LoadProgress
  /\ UNCHANGED <<pebbleVars, head, scanned, gen, flagVars, loopVars, faults>>

\* The boundary is not replayable any more, or the service was stopped.
StartFails ==
  /\ op = "start"
  /\ UNCHANGED pebbleVars
  /\ OpEnds

StartCompletes ==
  /\ op = "start" /\ ~closed
  /\ progress' = mark
  /\ running' = TRUE /\ ready' = FALSE /\ retrying' = FALSE /\ failed' = FALSE
  /\ loop' = "attach" /\ retries' = 0
  /\ op' = "off" /\ mark' = 0
  /\ UNCHANGED <<pebbleVars, head, scanned, gen, closed, failing, pos, fence, faults>>

-----------------------------------------------------------------------------
(* subscriptionLoop.                                                       *)

\* The loop returns with an error, or on a cancelled context. running stays.
LoopEnds ==
  /\ loop' = "off" /\ failing' = {} /\ retries' = 0 /\ pos' = 0 /\ fence' = 0
  /\ ready' = FALSE /\ retrying' = FALSE /\ failed' = TRUE
  /\ UNCHANGED <<head, opVars, running, closed, progress, faults>>

LoopCancelled ==
  /\ closed
  /\ \/ loop \in {"attach", "recv", "retry"}
     \/ loop = "barrier" /\ ~HasPending
  /\ UNCHANGED pebbleVars
  /\ LoopEnds

Attach ==
  /\ loop = "attach"
  /\ loop' = "recv" /\ pos' = progress /\ fence' = head
  /\ UNCHANGED <<pebbleVars, head, opVars, flagVars, progress, failing, retries, faults>>

\* commitProjection, and the stream one change further.
Committed(i) ==
  /\ progress' = i /\ pos' = i
  /\ UNCHANGED <<head, opVars, flagVars, loop, failing, retries, fence, faults>>

Delivered == loop = "recv" /\ ~closed /\ pos < head

\* A physical delete has no document, and a retired database no index: only
\* the progress moves.
ApplyProgressOnly ==
  LET i == pos + 1
  IN /\ Delivered
     /\ Log[i].op = "physical" \/ DocDb[Log[i].doc] \in meta.retired
     /\ ApplyDocumentProjection(Nothing, i)
     /\ Committed(i)

NeedsProjection(i) == Log[i].op # "physical" /\ DocDb[Log[i].doc] \notin meta.retired

Available(i) == \A t \in TemplatesFor(Log[i].doc) : Generation(meta, t) # 0

ApplyEvent ==
  LET i == pos + 1
  IN /\ Delivered
     /\ NeedsProjection(i) /\ Available(i) /\ Projectable(i)
     /\ ApplyDocumentProjection(Projections(i, meta.catalogs[DocDb[Log[i].doc]]), i)
     /\ Committed(i)

ApplyUnprojectable ==
  LET i == pos + 1
  IN /\ Delivered /\ ~writeError
     /\ NeedsProjection(i) /\ Available(i) /\ ~Projectable(i)
     /\ loop' = "fail"
     /\ failing' = {<<t, Generation(meta, t)>> : t \in TemplatesFor(Log[i].doc)}
     /\ UNCHANGED <<pebbleVars, head, opVars, flagVars, progress, retries, pos, fence, faults>>

\* A generation that has failed before, or a store that has.
ApplyRefused ==
  LET i == pos + 1
  IN /\ Delivered
     /\ writeError \/ (NeedsProjection(i) /\ ~Available(i))
     /\ UNCHANGED pebbleVars
     /\ LoopEnds

\* failEvent, under projectionMu: one synchronous commit per partition.
FailEvent ==
  /\ loop = "fail"
  /\ \E r \in failing :
       /\ SetFailure(r) \/ WriteFails \/ (writeError /\ UNCHANGED pebbleVars)
       /\ failing' = failing \ {r}
  /\ UNCHANGED <<head, opVars, flagVars, progress, loop, retries, pos, fence, faults>>

FailedEvent ==
  /\ loop = "fail" /\ failing = {}
  /\ UNCHANGED pebbleVars
  /\ LoopEnds

MutantReadyEvent ==
  /\ loop = "recv" /\ ~closed /\ progress = pos
  /\ loop' = "barrier"
  /\ UNCHANGED <<pebbleVars, head, opVars, flagVars, progress, failing, retries, pos, fence, faults>>

\* The readiness barrier: everything applied must be durable first.
ReadyEvent ==
  /\ loop = "recv" /\ ~closed /\ pos >= fence /\ progress = pos
  /\ loop' = "barrier"
  /\ UNCHANGED <<pebbleVars, head, opVars, flagVars, progress, failing, retries, pos, fence, faults>>

BarrierFlushed ==
  /\ loop = "barrier" /\ ~closed
  /\ ~HasPending /\ ~flushErr
  /\ loop' = "recv" /\ retries' = 0
  /\ ready' = TRUE /\ retrying' = FALSE /\ failed' = FALSE
  /\ UNCHANGED <<pebbleVars, head, opVars, running, closed, progress, failing, pos, fence, faults>>

\* The flush fails or takes longer than its deadline.
FlushFails ==
  /\ loop \in {"barrier", "reconnect"}
  /\ HasPending \/ flushErr
  /\ UNCHANGED pebbleVars
  /\ LoopEnds

\* The stream closes or reports a retryable error.
StreamBreaks ==
  /\ loop = "recv" /\ ~closed /\ faults < MaxFaults
  /\ loop' = "reconnect" /\ faults' = faults + 1
  /\ retrying' = TRUE /\ ready' = FALSE /\ failed' = TRUE
  /\ UNCHANGED <<pebbleVars, head, opVars, running, closed, progress, failing, retries, pos, fence>>

\* The stream reports an error that is not retryable.
StreamFails ==
  /\ loop = "recv" /\ ~closed
  /\ UNCHANGED pebbleVars
  /\ LoopEnds

ReconnectFlushed ==
  /\ loop = "reconnect" /\ ~HasPending /\ ~flushErr
  /\ progress' = LoadProgress
  /\ loop' = "retry" /\ pos' = 0 /\ fence' = 0
  /\ UNCHANGED <<pebbleVars, head, opVars, flagVars, failing, retries, faults>>

\* One attempt: the boundary is replayable, temporarily not, or not any more.
Retry ==
  /\ loop = "retry" /\ ~closed /\ retries < MaxRetries
  /\ retries' = retries + 1
  /\ loop' \in {"attach", "retry"}
  /\ UNCHANGED <<pebbleVars, head, opVars, flagVars, progress, failing, pos, fence, faults>>

RetryFails ==
  /\ loop = "retry" /\ ~closed
  /\ UNCHANGED pebbleVars
  /\ LoopEnds

-----------------------------------------------------------------------------
(* The other callers.                                                      *)

\* Under projectionMu, so not within an event.
InvalidateDatabase(d) ==
  /\ op \in {"off", "start"} /\ loop # "fail"
  /\ d \notin meta.retired
  /\ \/ DeleteDatabase(d)
     \/ flushPc = "idle" /\ WriteFails
  /\ UNCHANGED <<head, opVars, flagVars, loopVars, faults>>

Stop ==
  /\ storeState = "open" /\ ~closed
  /\ closed' = TRUE /\ running' = FALSE /\ ready' = FALSE /\ retrying' = FALSE
  /\ UNCHANGED <<pebbleVars, head, opVars, failed, loopVars, faults>>

\* Stop waits for the goroutines before it closes the store.
StopCloses ==
  /\ closed /\ op = "off" /\ loop = "off"
  /\ CloseStore
  /\ UNCHANGED <<head, opVars, flagVars, loopVars, faults>>

SourceChange ==
  /\ head < Last /\ op \notin {"scan", "flush", "publish"}
  /\ head' = head + 1
  /\ UNCHANGED <<pebbleVars, opVars, flagVars, loopVars, faults>>

Boot ==
  /\ OpenStore
  /\ UNCHANGED <<head, opVars, flagVars, loopVars, faults>>

\* The process ends: a crash, or after the store is closed.
ProcessEnds ==
  /\ storeState # "none"
  /\ LoseStore
  /\ op' = "off" /\ mark' = 0 /\ scanned' = 0
  /\ running' = FALSE /\ closed' = FALSE /\ ready' = FALSE /\ retrying' = FALSE
  /\ failed' = FALSE
  /\ progress' = 0 /\ loop' = "off" /\ failing' = {} /\ retries' = 0
  /\ pos' = 0 /\ fence' = 0
  /\ UNCHANGED <<head, gen, faults>>

\* --reset-derived: a generation drawn before the reset is known nowhere.
ResetDerived ==
  /\ ArchiveStore
  /\ gen' = 0
  /\ UNCHANGED <<head, op, mark, scanned, flagVars, loopVars, faults>>

-----------------------------------------------------------------------------

Init ==
  /\ PebbleInit
  /\ head = 1 /\ op = "off" /\ mark = 0 /\ scanned = 0 /\ gen = 0
  /\ running = FALSE /\ closed = FALSE /\ ready = FALSE /\ retrying = FALSE
  /\ failed = FALSE /\ progress = 0 /\ loop = "off" /\ failing = {}
  /\ retries = 0 /\ pos = 0 /\ fence = 0 /\ faults = 0

BatcherStep ==
  /\ Batcher
  /\ UNCHANGED <<head, opVars, flagVars, loopVars, faults>>

Operation ==
  \/ Bootstrap \/ BootstrapDocument \/ BootstrapFails \/ BootstrapScanned
  \/ BootstrapFlushed \/ BootstrapPublish \/ BootstrapPublishFails
  \/ StartWithValidationContext \/ StartFails \/ StartCompletes

SubscriptionLoop ==
  \/ LoopCancelled \/ Attach \/ ApplyProgressOnly \/ ApplyEvent
  \/ ApplyUnprojectable \/ ApplyRefused \/ FailEvent \/ FailedEvent
  \/ ReadyEvent \/ BarrierFlushed \/ FlushFails \/ StreamBreaks \/ StreamFails
  \/ ReconnectFlushed \/ Retry \/ RetryFails

Next ==
  \/ BatcherStep \/ Operation \/ SubscriptionLoop
  \/ \E d \in Databases : InvalidateDatabase(d)
  \/ Stop \/ StopCloses \/ SourceChange \/ Boot \/ ProcessEnds \/ ResetDerived

Spec == Init /\ [][Next]_vars

-----------------------------------------------------------------------------
(* Properties.                                                             *)

Ops == {"off", "scan", "flush", "publish", "start"}

Loops == {"off", "attach", "recv", "fail", "barrier", "reconnect", "retry"}

\* The store's fields and the service's fields have their types.
TypeOK ==
  /\ disk \in Data /\ meta \in Meta
  /\ DOMAIN projectionPending \subseteq Cells /\ DOMAIN projectionFlushing \subseteq Cells
  /\ pendingProgress \in 0..Last /\ flushingProgress \in 0..Last
  /\ flushPc \in {"idle", "taken", "committed"}
  /\ storeState \in {"none", "open", "closing", "closed"}
  /\ head \in 1..Last /\ op \in Ops /\ mark \in 0..Last /\ gen \in 0..MaxGen
  /\ scanned \in 0..Len(ScanOrder)
  /\ <<running, closed, ready, retrying, failed, flushErr>> \in
       BOOLEAN \X BOOLEAN \X BOOLEAN \X BOOLEAN \X BOOLEAN \X BOOLEAN
  /\ progress \in 0..Last /\ loop \in Loops /\ failing \subseteq Refs
  /\ retries \in 0..MaxRetries /\ pos \in 0..Last /\ fence \in 0..Last
  /\ faults \in 0..MaxFaults

\* Postings v of document x under template t are those of the source after p
\* changes. Postings of a document removed for good may be left from an earlier
\* version, never from a later one.
Current(t, x, v, p) ==
  LET k == LastChange(x, p)
  IN IF k = 0 THEN v = 0
     ELSE IF Log[k].op # "physical" THEN v = Projection(k, t)
     ELSE v \in {0} \cup {Projection(j, t) : j \in {j \in 1..k : Log[j].doc = x}}

\* An index generation that serves is the image of the source at one point.
IndexAt(dat, p) ==
  \A c \in Cells :
    c[1][2] = Generation(meta, c[1][1]) => Current(c[1][1], c[2], dat.post[c], p)

\* What a crash leaves of every serving generation is the source's state at the
\* progress saved with it: a batch never holds a marker without its postings
\* (flushLocked), and replay from that marker repairs everything after it.
DurableExact == IndexAt(disk, disk.progress)

\* Queries are answered (queryReady) only from an index that holds exactly the
\* changes applied so far, all those known when the stream attached among them,
\* and these are durable.
ServedExact ==
  running /\ ready =>
    /\ IndexAt(View, progress)
    /\ View.progress = progress
    /\ disk.progress >= fence

=============================================================================
