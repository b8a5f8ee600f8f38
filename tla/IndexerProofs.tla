---------------------------- MODULE IndexerProofs ----------------------------
(***************************************************************************)
(* StoreContract, DurableExact and ServedExact of Indexer for every set of *)
(* databases, templates and documents, every history of the source and     *)
(* every bound.                                                            *)
(*                                                                         *)
(* Each of the three versions of the index is the image of the source at   *)
(* its own progress marker (Sound), they are ordered by their markers, and *)
(* every step of the batcher only replaces one of them by the next.        *)
(***************************************************************************)
EXTENDS IndexVersionsProofs

-----------------------------------------------------------------------------
LEMMA BootstrapDocumentKeeps ==
  ASSUME IInv, Known, BootstrapDocument
  PROVE  IInv' /\ AbstractStep
<1> DEFINE x == ScanOrder[scanned + 1]
           i == LastChange(x, head)
           ops == Projections(i, gen)
<1>1. /\ op = "scan" /\ scanned < Len(ScanOrder) /\ scanned' = scanned + 1
      /\ head' = head /\ op' = op /\ mark' = mark /\ gen' = gen
      /\ running' = running /\ closed' = closed /\ ready' = ready
      /\ progress' = progress /\ loop' = loop /\ failing' = failing
      /\ pos' = pos /\ fence' = fence
  BY DEF BootstrapDocument, flagVars, loopVars
<1>2. /\ StoreInv /\ VersionsSound /\ Bootstrapping
      /\ gen \in 1..MaxGen /\ mark = head /\ (\A d \in Databases : meta.catalogs[d] = 0)
      /\ head \in 1..Last /\ scanned \in Nat /\ scanned + 1 \in 1..Len(ScanOrder)
  <2>1. /\ StoreInv /\ VersionsSound /\ Bootstrapping
        /\ gen \in 1..MaxGen /\ mark = head /\ (\A d \in Databases : meta.catalogs[d] = 0)
        /\ head \in 1..Last /\ scanned \in 0..Len(ScanOrder)
    BY <1>1 DEF IInv, ScanSound, Bootstrapping, ServiceTyped
  <2>2. scanned \in Nat /\ scanned + 1 \in 1..Len(ScanOrder)
    BY <1>1, <2>1, ScanLength
  <2>3. QED
    BY <2>1, <2>2
<1>3. \A c \in Cells : c[1][2] = gen =>
         View.post[c] = IF \E n \in 1..scanned : ScanOrder[n] = c[2]
                        THEN ScanValue(c[1][1], c[2], head) ELSE 0
  BY <1>2 DEF IInv, ScanSound
<1>4. x \in Docs
  BY <1>2, LogAssumption
<1>5. i \in 0..head /\ (i # 0 => Log[i].doc = x)
  <2>1. head \in 0..head
    BY <1>2, LastIsPositive
  <2>2. HasLast(head)
    BY <2>1 DEF Known
  <2>3. QED
    BY <2>2 DEF HasLast, IsLast
<1>6. \A y : (\E n \in 1..(scanned + 1) : ScanOrder[n] = y) <=>
             y = x \/ \E n \in 1..scanned : ScanOrder[n] = y
  <2>1. \A n : n \in 1..(scanned + 1) <=> n = scanned + 1 \/ n \in 1..scanned
    BY <1>2
  <2>2. QED
    BY <2>1
<1>7. ServiceTyped'
  <2>1. scanned' \in 0..Len(ScanOrder)
    BY <1>1, <1>2
  <2>2. QED
    BY <1>1, <2>1 DEF IInv, ServiceTyped
<1>8. ASSUME StoreInv', AbstractStep, VersionsSound', disk' = disk, meta' = meta,
             View'.progress = View.progress, storeState' = storeState,
             \A c \in Cells : c[1][2] = gen =>
               View'.post[c] = IF c[2] = x THEN ScanValue(c[1][1], x, head) ELSE View.post[c]
      PROVE  IInv' /\ AbstractStep
  <2>1. ASSUME NEW c \in Cells, c[1][2] = gen
        PROVE  View'.post[c] = IF \E n \in 1..(scanned + 1) : ScanOrder[n] = c[2]
                               THEN ScanValue(c[1][1], c[2], head) ELSE 0
    <3>1. CASE c[2] = x
      BY <1>6, <1>8, <2>1, <3>1
    <3>2. CASE c[2] # x
      BY <1>3, <1>6, <1>8, <2>1, <3>2
    <3>3. QED
      BY <3>1, <3>2
  <2>2. ScanSound'
    BY <1>1, <1>2, <1>8, <2>1 DEF ScanSound
  <2>3. ServiceOrder'
    BY <1>1, <1>8 DEF IInv, ServiceOrder
  <2>4. QED
    BY <1>7, <1>8, <2>2, <2>3 DEF IInv
<1>9. CASE ~Stored(i) /\ UNCHANGED pebbleVars
  <2>1. /\ StoreInv' /\ AbstractStep /\ VersionsSound'
        /\ disk' = disk /\ View' = View /\ meta' = meta /\ storeState' = storeState
    BY <1>9, SameStore
  <2>2. \A t : ScanValue(t, x, head) = 0
    BY <1>9 DEF ScanValue
  <2>3. \A c \in Cells : c[1][2] = gen /\ c[2] = x => View.post[c] = 0
    BY <1>3, <2>2
  <2> HIDE DEF x
  <2>4. QED
    BY <1>8, <2>1, <2>2, <2>3
<1>10. CASE Stored(i) /\ ApplyDocumentProjection(ops, 0)
  <2>2. \A t : ScanValue(t, x, head) = Projection(i, t)
    BY <1>10 DEF ScanValue
  <2> HIDE DEF x, i
  <2>1. i \in 1..Last /\ Log[i].doc = x /\ 0 \in 0..Last /\ gen \in 1..MaxGen
    <3>1. i # 0
      BY <1>10 DEF Stored
    <3>2. i \in 0..head /\ Log[i].doc = x
      BY <1>5, <3>1
    <3>3. head \in 1..Last /\ gen \in 1..MaxGen
      BY <1>2
    <3>4. i \in 1..Last
      BY <3>1, <3>2, <3>3, LastIsPositive
    <3>5. 0 \in 0..Last
      BY LastIsPositive
    <3>6. QED
      BY <3>2, <3>3, <3>4, <3>5
  <2>3. /\ ops \in Batches
        /\ \A c \in DOMAIN ops : c[2] = x
        /\ \A c \in Cells : c \in DOMAIN ops <=> c[1][2] = gen /\ c[2] = x
        /\ \A c \in DOMAIN ops : ops[c] = Projection(i, c[1][1])
    BY <2>1, ProjectionsShape
  <2> HIDE DEF ops
  <2>4. /\ StoreInv' /\ AbstractStep
        /\ disk' = disk /\ Flushed' = Flushed /\ View' = Replaced(View, ops, 0) /\ meta' = meta
    BY <1>2, <1>4, <1>10, <2>1, <2>3, ApplyStep
  <2>5. /\ View'.post = [c \in Cells |-> IF c \in DOMAIN ops THEN ops[c] ELSE View.post[c]]
        /\ View'.progress = View.progress
    <3>1. View' = Replaced(View, ops, 0)
      BY <2>4
    <3>2. Replaced(View, ops, 0).post =
            [c \in Cells |-> IF c \in DOMAIN ops THEN ops[c] ELSE View.post[c]]
      BY ReplacedFields
    <3>3. Replaced(View, ops, 0).progress = View.progress
      BY ReplacedFields
    <3>4. QED
      BY <3>1, <3>2, <3>3
  <2>6. View \in Data /\ meta \in Meta
    BY ProgressTyped
  <2>7. Listed(View')
    BY <1>2, <2>1, <2>3, <2>4, <2>6, ListedReplaced DEF VersionsSound, Sound
  <2>8. Sound(meta, View')
    BY <1>2, <2>6, <2>7, SoundUnpublished
  <2>9. VersionsSound'
    BY <1>2, <2>4, <2>5, <2>8 DEF VersionsSound
  <2>10. storeState' = storeState
    BY <1>10 DEF ApplyDocumentProjection
  <2>11. \A c \in Cells : c[1][2] = gen =>
           View'.post[c] = IF c[2] = x THEN ScanValue(c[1][1], x, head) ELSE View.post[c]
    <3>1. ASSUME NEW c \in Cells
          PROVE  View'.post[c] = IF c \in DOMAIN ops THEN ops[c] ELSE View.post[c]
      BY <2>5
    <3>2. ASSUME NEW c \in Cells, c[1][2] = gen
          PROVE  /\ c \in DOMAIN ops <=> c[2] = x
                 /\ c \in DOMAIN ops => ops[c] = ScanValue(c[1][1], x, head)
      BY <2>2, <2>3, <3>2
    <3>3. QED
      BY <3>1, <3>2
  <2>12. QED
    BY <1>8, <2>4, <2>5, <2>9, <2>10, <2>11
<1>11. QED
  BY <1>9, <1>10 DEF BootstrapDocument

LEMMA BootstrapPublishKeeps ==
  ASSUME IInv, BootstrapPublish
  PROVE  IInv' /\ AbstractStep
<1>1. /\ op = "publish" /\ PublishBootstrapCatalogs(Databases, gen, mark)
      /\ progress' = mark /\ op' = "off" /\ scanned' = 0 /\ head' = head /\ gen' = gen
      /\ running' = running /\ closed' = closed /\ ready' = ready
      /\ loop' = loop /\ failing' = failing /\ pos' = pos /\ fence' = fence
      /\ storeState' = storeState
  BY DEF BootstrapPublish, PublishBootstrapCatalogs, flagVars
<1>2. /\ StoreInv /\ VersionsSound /\ gen \in 1..MaxGen /\ mark = head /\ head \in 1..Last
      /\ scanned = Len(ScanOrder)
      /\ \A c \in Cells : c[1][2] = gen =>
           View.post[c] = IF \E n \in 1..scanned : ScanOrder[n] = c[2]
                          THEN ScanValue(c[1][1], c[2], head) ELSE 0
  BY <1>1 DEF IInv, ScanSound, Bootstrapping, ServiceTyped
<1>3. /\ StoreInv' /\ AbstractStep
      /\ disk' = At(View, head) /\ Flushed' = At(View, head) /\ View' = At(View, head)
      /\ meta' = Published(meta, Databases, gen, head)
  BY <1>1, <1>2, PublishStep
<1>4. View \in Data /\ meta \in Meta
  BY ProgressTyped
<1>5. \A c \in Cells : c[1][2] = gen => View.post[c] = ScanValue(c[1][1], c[2], head)
  <2>1. \A c \in Cells : \E n \in 1..scanned : ScanOrder[n] = c[2]
    BY <1>2, CellShape, LogAssumption
  <2>2. QED
    BY <1>2, <2>1
<1>6. Sound(meta', At(View, head))
  BY <1>2, <1>3, <1>4, <1>5, SoundPublished DEF VersionsSound, Sound
<1> DEFINE new == At(View, head)
<1>7. new.progress = head /\ head <= head
  BY <1>2, <1>4, LastIsPositive DEF At, Data
<1> HIDE DEF new
<1>8. VersionsSound'
  <2>1. disk' = new /\ Flushed' = new /\ View' = new /\ Sound(meta', new)
    BY <1>3, <1>6 DEF new
  <2>2. QED
    BY <1>7, <2>1 DEF VersionsSound
<1>9. ServiceTyped' /\ ScanSound'
  <2>1. scanned' \in 0..Len(ScanOrder)
    BY <1>1 DEF IInv, ServiceTyped
  <2>2. QED
    BY <1>1, <2>1 DEF IInv, ServiceTyped, ScanSound, Bootstrapping
<1>10. loop = "off" /\ ~ready
  BY <1>1 DEF IInv, ServiceOrder
<1>11. ServiceOrder'
  BY <1>1, <1>10 DEF ServiceOrder
<1>12. QED
  BY <1>3, <1>8, <1>9, <1>11 DEF IInv

LEMMA WriteFailsStep ==
  ASSUME IInv, WriteFails
  PROVE  /\ StoreInv' /\ AbstractStep /\ VersionsSound'
         /\ disk' = disk /\ View' = View /\ meta' = meta /\ storeState' = storeState
         /\ storeState = "open"
<1>1. /\ UNCHANGED <<disk, meta, queueVars, flushPc>> /\ flushErr' = TRUE
      /\ storeState' = storeState /\ storeState = "open"
  BY DEF WriteFails, writeError
<1>2. StoreInv
  BY DEF IInv
<1>3. /\ StoreInv' /\ AbstractStep
      /\ disk' = disk /\ Flushed' = Flushed /\ View' = View /\ meta' = meta
  BY <1>1, <1>2, StoreAsideStep
<1>4. QED
  BY <1>1, <1>3, SameVersions DEF IInv

LEMMA BootstrapPublishFailsKeeps ==
  ASSUME IInv, BootstrapPublishFails
  PROVE  IInv' /\ AbstractStep
<1>1. /\ StoreInv' /\ AbstractStep /\ VersionsSound'
      /\ disk' = disk /\ View' = View /\ meta' = meta /\ storeState' = storeState
  BY WriteFailsStep DEF BootstrapPublishFails
<1>2. /\ op' = "off" /\ scanned' = 0 /\ gen' = gen /\ head' = head
      /\ running' = running /\ closed' = closed /\ ready' = ready
      /\ progress' = progress /\ loop' = loop /\ failing' = failing
      /\ pos' = pos /\ fence' = fence
  BY DEF BootstrapPublishFails, OpEnds, flagVars, loopVars
<1>3. ServiceTyped'
  <2>1. scanned' \in 0..Len(ScanOrder)
    BY <1>2 DEF IInv, ServiceTyped
  <2>2. QED
    BY <1>2, <2>1 DEF IInv, ServiceTyped
<1>4. ServiceOrder' /\ ScanSound'
  BY <1>1, <1>2 DEF IInv, ServiceOrder, ScanSound, Bootstrapping
<1>5. QED
  BY <1>1, <1>3, <1>4 DEF IInv

LEMMA OperationKeeps ==
  ASSUME IInv, Known, Operation
  PROVE  IInv' /\ AbstractStep
<1>1. CASE BootstrapFails \/ StartFails
  BY <1>1, OpEndsKeeps DEF BootstrapFails, StartFails
<1>2. QED
  BY <1>1, BootstrapKeeps, BootstrapDocumentKeeps, ScanKeeps, BootstrapPublishKeeps,
     BootstrapPublishFailsKeeps, StartKeeps DEF Operation

-----------------------------------------------------------------------------
(* subscriptionLoop.                                                       *)
LEMMA LoopEndsKeeps ==
  ASSUME IInv, UNCHANGED pebbleVars, LoopEnds
  PROVE  IInv' /\ AbstractStep
<1>1. /\ StoreInv' /\ AbstractStep /\ VersionsSound'
      /\ disk' = disk /\ View' = View /\ meta' = meta /\ storeState' = storeState
  BY SameStore
<1>2. /\ loop' = "off" /\ failing' = {} /\ pos' = 0 /\ fence' = 0 /\ ~ready'
      /\ head' = head /\ op' = op /\ mark' = mark /\ scanned' = scanned /\ gen' = gen
      /\ running' = running /\ closed' = closed /\ progress' = progress
  BY DEF LoopEnds, opVars
<1>3. ServiceTyped'
  BY <1>2, LastIsPositive DEF IInv, ServiceTyped
<1>4. ServiceOrder' /\ ScanSound'
  BY <1>1, <1>2 DEF IInv, ServiceOrder, ScanSound, Bootstrapping
<1>5. QED
  BY <1>1, <1>3, <1>4 DEF IInv

(* The steps between changes that only move the loop.                      *)
LEMMA LoopMovesKeeps ==
  ASSUME IInv,
         \/ Attach \/ ReadyEvent \/ BarrierFlushed \/ StreamBreaks \/ ReconnectFlushed \/ Retry
         \/ ApplyUnprojectable
  PROVE  IInv' /\ AbstractStep
<1>1. /\ UNCHANGED pebbleVars /\ UNCHANGED opVars
      /\ head' = head /\ running' = running /\ closed' = closed /\ loop # "off"
  BY DEF Attach, ReadyEvent, BarrierFlushed, StreamBreaks, ReconnectFlushed, Retry,
         ApplyUnprojectable, Delivered, flagVars
<1>2. /\ StoreInv' /\ AbstractStep /\ VersionsSound'
      /\ disk' = disk /\ View' = View /\ meta' = meta /\ storeState' = storeState
  BY <1>1, SameStore
<1>3. /\ op' = op /\ mark' = mark /\ scanned' = scanned /\ gen' = gen
      /\ op = "off" /\ storeState = "open" /\ (running \/ closed) /\ progress = View.progress
  BY <1>1 DEF IInv, ServiceOrder, opVars
<1>4. ScanSound'
  BY <1>3 DEF ScanSound, Bootstrapping
<1>5. View.progress \in 0..Last /\ 0 \in 0..Last /\ head \in 0..Last
  BY ProgressTyped, LastIsPositive DEF IInv, ServiceTyped
<1>6. ServiceTyped' /\ ServiceOrder'
  <2>1. CASE Attach
    <3>1. /\ loop = "attach" /\ loop' = "recv" /\ pos' = progress /\ fence' = head
          /\ ready' = ready /\ progress' = progress /\ failing' = failing
      BY <2>1 DEF Attach, flagVars
    <3>2. ~ready
      BY <3>1 DEF IInv, ServiceOrder
    <3>3. QED
      BY <1>1, <1>2, <1>3, <1>5, <3>1, <3>2 DEF IInv, ServiceTyped, ServiceOrder
  <2>2. CASE ReadyEvent
    <3>1. /\ loop = "recv" /\ pos >= fence /\ progress = pos /\ loop' = "barrier"
          /\ pos' = pos /\ fence' = fence
          /\ ready' = ready /\ progress' = progress /\ failing' = failing
      BY <2>2 DEF ReadyEvent, flagVars
    <3>2. QED
      BY <1>1, <1>2, <1>3, <3>1 DEF IInv, ServiceTyped, ServiceOrder
  <2>3. CASE BarrierFlushed
    <3>1. /\ loop = "barrier" /\ loop' = "recv" /\ ~HasPending
          /\ pos' = pos /\ fence' = fence /\ progress' = progress /\ failing' = failing
      BY <2>3 DEF BarrierFlushed
    <3>2. projectionPending = Nothing /\ projectionFlushing = Nothing
          /\ pendingProgress = 0 /\ flushingProgress = 0
      BY <3>1, NothingShape DEF HasPending, IInv, StoreInv, StoreTyped
    <3>3. Flushed = disk /\ View = disk
      BY <3>2, ReplacedByNothing DEF Flushed, View, IInv, StoreInv, StoreTyped
    <3>4. disk.progress >= fence /\ pos = progress
      BY <1>3, <3>1, <3>3 DEF IInv, ServiceOrder
    <3>5. QED
      BY <1>1, <1>2, <1>3, <3>1, <3>4 DEF IInv, ServiceTyped, ServiceOrder
  <2>4. CASE StreamBreaks
    <3>1. /\ loop = "recv" /\ loop' = "reconnect" /\ ~ready'
          /\ pos' = pos /\ fence' = fence /\ progress' = progress /\ failing' = failing
      BY <2>4 DEF StreamBreaks
    <3>2. QED
      BY <1>1, <1>2, <1>3, <3>1 DEF IInv, ServiceTyped, ServiceOrder
  <2>5. CASE ReconnectFlushed
    <3>1. /\ loop = "reconnect" /\ loop' = "retry" /\ progress' = View.progress
          /\ pos' = 0 /\ fence' = 0 /\ ready' = ready /\ failing' = failing
      BY <2>5 DEF ReconnectFlushed, LoadProgress, flagVars
    <3>2. ~ready
      BY <3>1 DEF IInv, ServiceOrder
    <3>3. QED
      BY <1>1, <1>2, <1>3, <1>5, <3>1, <3>2 DEF IInv, ServiceTyped, ServiceOrder
  <2>6. CASE Retry
    <3>1. /\ loop = "retry" /\ loop' \in {"attach", "retry"} /\ progress' = progress
          /\ pos' = pos /\ fence' = fence /\ ready' = ready /\ failing' = failing
      BY <2>6 DEF Retry, flagVars
    <3>2. ~ready
      BY <3>1 DEF IInv, ServiceOrder
    <3>3. QED
      BY <1>1, <1>2, <1>3, <3>1, <3>2 DEF IInv, ServiceTyped, ServiceOrder
  <2>7. CASE ApplyUnprojectable
    <3> DEFINE i == pos + 1
    <3>1. /\ loop = "recv" /\ loop' = "fail" /\ progress' = progress
          /\ pos' = pos /\ fence' = fence /\ ready' = ready
          /\ failing' = {<<t, Generation(meta, t)>> : t \in TemplatesFor(Log[i].doc)}
          /\ \A t \in TemplatesFor(Log[i].doc) : Generation(meta, t) # 0
      BY <2>7 DEF ApplyUnprojectable, Delivered, Available, flagVars
    <3>2. \A t \in Templates : Generation(meta, t) \in 0..MaxGen
      BY ProgressTyped, ShapeAssumption DEF Generation, Meta
    <3> HIDE DEF i
    <3>3. failing' \subseteq Refs
      <4>1. \A t \in TemplatesFor(Log[i].doc) : t \in Templates
        BY DEF TemplatesFor, TemplatesOf
      <4>2. \A t \in TemplatesFor(Log[i].doc) : Generation(meta, t) \in 1..MaxGen
        <5>1. \A t \in TemplatesFor(Log[i].doc) : Generation(meta, t) # 0
          BY <3>1
        <5>2. \A n \in 0..MaxGen : n # 0 => n \in 1..MaxGen
          BY MaxGenIsNatural
        <5>3. QED
          BY <3>2, <4>1, <5>1, <5>2
      <4>3. \A t \in TemplatesFor(Log[i].doc) : <<t, Generation(meta, t)>> \in Refs
        BY <4>1, <4>2 DEF Refs
      <4>4. QED
        BY <3>1, <4>3
    <3>4. QED
      BY <1>1, <1>2, <1>3, <3>1, <3>3 DEF IInv, ServiceTyped, ServiceOrder
  <2>8. QED
    BY <2>1, <2>2, <2>3, <2>4, <2>5, <2>6, <2>7
<1>7. QED
  BY <1>2, <1>4, <1>6 DEF IInv

(* One change delivered and applied: the view moves one change on.         *)
LEMMA AppliedKeeps ==
  ASSUME IInv, Delivered, NEW ops \in Batches, NEW x \in Docs, \A c \in DOMAIN ops : c[2] = x,
         ApplyDocumentProjection(ops, pos + 1), Committed(pos + 1),
         Sound(meta, Replaced(View, ops, View.progress + 1))
  PROVE  IInv' /\ AbstractStep
<1> DEFINE i == pos + 1
<1>1. /\ loop = "recv" /\ progress' = i /\ pos' = i
      /\ head' = head /\ op' = op /\ scanned' = scanned /\ gen' = gen
      /\ running' = running /\ closed' = closed /\ ready' = ready
      /\ loop' = loop /\ failing' = failing /\ fence' = fence
      /\ storeState' = storeState
  BY DEF Delivered, Committed, ApplyDocumentProjection, opVars, flagVars
<1>2. /\ pos = progress /\ progress = View.progress /\ op = "off" /\ storeState = "open"
      /\ (running \/ closed) /\ pos \in Nat /\ i \in 1..Last /\ i # 0 /\ i \in 0..Last
  <2>1. /\ pos = progress /\ progress = View.progress /\ op = "off" /\ storeState = "open"
        /\ (running \/ closed)
    BY <1>1 DEF IInv, ServiceOrder
  <2>2. pos \in 0..Last /\ pos < head /\ head \in 1..Last
    BY DEF IInv, ServiceTyped, Delivered
  <2>3. pos \in Nat /\ i \in 1..Last /\ i # 0 /\ i \in 0..Last
    BY <2>2, LastIsPositive
  <2>4. QED
    BY <2>1, <2>3
<1>3. StoreInv /\ VersionsSound /\ i \in 0..Last
  BY <1>2 DEF IInv
<1>4. /\ StoreInv' /\ AbstractStep
      /\ disk' = disk /\ Flushed' = Flushed /\ View' = Replaced(View, ops, i) /\ meta' = meta
  BY <1>3, ApplyStep
<1>5. View'.progress = i
  <2>1. View'.progress = IF i # 0 THEN i ELSE View.progress
    BY <1>4, ReplacedFields
  <2>2. QED
    BY <1>2, <2>1
<1>6. VersionsSound'
  <2>1. Sound(meta', View')
    BY <1>2, <1>4
  <2>2. Flushed.progress <= i
    <3>1. Flushed.progress \in Nat /\ Flushed.progress <= pos
      BY <1>2, <1>3, ProgressTyped DEF VersionsSound
    <3>2. pos \in Nat
      BY <1>2
    <3>3. QED
      BY <3>1, <3>2
  <2>3. QED
    BY <1>3, <1>4, <1>5, <2>1, <2>2 DEF VersionsSound
<1>7. ServiceTyped'
  BY <1>1, <1>3 DEF IInv, ServiceTyped
<1>8. ServiceOrder' /\ ScanSound'
  <2>1. ready => disk'.progress >= fence
    BY <1>4 DEF IInv, ServiceOrder
  <2>2. QED
    BY <1>1, <1>2, <1>5, <2>1 DEF IInv, ServiceOrder, ScanSound, Bootstrapping
<1>9. QED
  BY <1>4, <1>6, <1>7, <1>8 DEF IInv

LEMMA ApplyKeeps ==
  ASSUME IInv, Known, ApplyProgressOnly \/ ApplyEvent
  PROVE  IInv' /\ AbstractStep
<1> DEFINE i == pos + 1
           x == Log[i].doc
<1>1. Delivered /\ Committed(i)
  BY DEF ApplyProgressOnly, ApplyEvent
<1>2. View.progress = pos /\ i \in 1..Last /\ i <= Last
  BY <1>1, LastIsPositive DEF IInv, ServiceOrder, ServiceTyped, Delivered
<1>3. /\ x \in Docs /\ View \in Data /\ meta \in Meta /\ Sound(meta, View)
      /\ HasLast(View.progress)
  <2>1. x \in Docs /\ View \in Data /\ meta \in Meta /\ Sound(meta, View)
    BY <1>2, LogAssumption, ProgressTyped DEF IInv, VersionsSound
  <2>2. pos \in 0..head
    BY <1>1, LastIsPositive DEF Delivered, IInv, ServiceTyped
  <2>3. QED
    BY <1>2, <2>1, <2>2 DEF Known
<1>4. CASE ApplyProgressOnly
  <2>1. /\ Log[i].op = "physical" \/ DocDb[Log[i].doc] \in meta.retired
        /\ ApplyDocumentProjection(Nothing, i)
    BY <1>4 DEF ApplyProgressOnly
  <2>2. Sound(meta, Replaced(View, Nothing, View.progress + 1))
    BY <1>2, <1>3, <2>1, SoundProgress
  <2>3. Nothing \in Batches /\ \A c \in DOMAIN Nothing : c[2] = x
    BY NothingShape
  <2>4. QED
    BY <1>1, <1>3, <2>1, <2>2, <2>3, AppliedKeeps
<1>5. CASE ApplyEvent
  <2> DEFINE g == meta.catalogs[DocDb[x]]
             ops == Projections(i, g)
  <2>1. /\ Log[i].op # "physical" /\ DocDb[x] \notin meta.retired
        /\ \A t \in TemplatesFor(x) : Generation(meta, t) # 0
        /\ ApplyDocumentProjection(ops, i)
    BY <1>5 DEF ApplyEvent, NeedsProjection, Available
  <2>2. \A t \in TemplatesFor(x) : Generation(meta, t) = g
    BY <2>1 DEF TemplatesFor, TemplatesOf, Generation
  <2>3. CASE TemplatesFor(x) = {}
    <3>1. ops = Nothing /\ \A c \in Cells : c[2] # x
      <4>1. {<<t, g>> : t \in TemplatesFor(x)} \X {x} = {}
        BY <2>3
      <4>2. ops = Nothing
        BY <4>1 DEF Projections, Nothing
      <4>3. \A c \in Cells : c[2] # x
        BY <2>3, CellShape DEF TemplatesFor, TemplatesOf
      <4>4. QED
        BY <4>2, <4>3
    <3>2. Sound(meta, Replaced(View, Nothing, View.progress + 1))
      <4>1. Nothing \in Batches /\ DOMAIN Nothing = {} /\ View.progress + 1 # 0
            /\ View.progress \in Nat /\ View.progress + 1 \in 0..Last
        BY <1>2, NothingShape, ProgressTyped
      <4> DEFINE q == View.progress + 1
                 new == Replaced(View, Nothing, q)
      <4> HIDE DEF q
      <4>2. Listed(new)
        BY <1>3, <4>1, ListedReplaced DEF Sound, q
      <4>3. /\ new.progress = (IF q # 0 THEN q ELSE View.progress)
            /\ new.post = [c \in Cells |-> IF c \in DOMAIN Nothing THEN Nothing[c] ELSE View.post[c]]
        BY ReplacedFields
      <4> HIDE DEF new
      <4>4. new.progress = View.progress + 1 /\ \A c \in Cells : new.post[c] = View.post[c]
        BY <4>1, <4>3 DEF q
      <4>5. \A c \in Cells : Log[View.progress + 1].doc # c[2]
        BY <1>2, <3>1
      <4>6. \A c \in Cells :
              c[1][2] = Generation(meta, c[1][1]) =>
                Current(c[1][1], c[2], new.post[c], View.progress + 1)
        BY <1>2, <1>3, <4>1, <4>4, <4>5, CurrentOther DEF Sound
      <4>7. QED
        BY <4>2, <4>4, <4>6 DEF Sound, new, q
    <3>3. Nothing \in Batches /\ \A c \in DOMAIN Nothing : c[2] = x
      BY NothingShape
    <3>4. ApplyDocumentProjection(Nothing, i)
      BY <2>1, <3>1
    <3>5. QED
      BY <1>1, <1>3, <3>2, <3>3, <3>4, AppliedKeeps
  <2>4. CASE TemplatesFor(x) # {}
    <3>1. g \in 1..MaxGen
      <4>1. g # 0
        BY <2>1, <2>2, <2>4
      <4>2. g \in 0..MaxGen
        BY <1>3, ShapeAssumption DEF Meta
      <4> HIDE DEF g
      <4>3. QED
        BY <4>1, <4>2, MaxGenIsNatural
    <3>2. ops \in Batches /\ \A c \in DOMAIN ops : c[2] = x
      BY <1>2, <3>1, ProjectionsShape
    <3>3. Sound(meta, Replaced(View, ops, View.progress + 1))
      BY <1>2, <1>3, <2>1, <2>2, <3>1, SoundEvent
    <3>4. QED
      BY <1>1, <1>3, <2>1, <3>2, <3>3, AppliedKeeps
  <2>5. QED
    BY <2>3, <2>4
<1>6. QED
  BY <1>4, <1>5

LEMMA FailEventKeeps ==
  ASSUME IInv, FailEvent
  PROVE  IInv' /\ AbstractStep
<1>1. PICK r \in failing :
        /\ SetFailure(r) \/ WriteFails \/ (writeError /\ UNCHANGED pebbleVars)
        /\ failing' = failing \ {r}
  BY DEF FailEvent
<1>2. /\ loop = "fail" /\ head' = head /\ op' = op /\ scanned' = scanned /\ gen' = gen
      /\ running' = running /\ closed' = closed /\ ready' = ready
      /\ progress' = progress /\ loop' = loop /\ pos' = pos /\ fence' = fence
  BY DEF FailEvent, opVars, flagVars
<1>3. /\ StoreInv /\ VersionsSound /\ op = "off" /\ r \in Refs
      /\ disk \in Data /\ Flushed \in Data /\ View \in Data /\ meta \in Meta
  BY <1>1, <1>2, ProgressTyped DEF IInv, ServiceOrder, ServiceTyped
<1>4. /\ StoreInv' /\ AbstractStep /\ VersionsSound' /\ storeState' = storeState
      /\ disk'.progress = disk.progress /\ View'.progress = View.progress
  <2>1. CASE SetFailure(r)
    <3>1. /\ StoreInv' /\ AbstractStep
          /\ \/ /\ disk' = Marked(disk, r) /\ Flushed' = Marked(Flushed, r)
                /\ View' = Marked(View, r) /\ Recorded(meta, r) /\ meta' = Failed(meta, r)
             \/ disk' = disk /\ Flushed' = Flushed /\ View' = View /\ meta' = meta
      BY <1>3, <2>1, SetFailureStep
    <3>2. storeState' = storeState
      BY <2>1 DEF SetFailure
    <3>3. CASE disk' = disk /\ Flushed' = Flushed /\ View' = View /\ meta' = meta
      BY <1>3, <3>1, <3>2, <3>3, SameVersions
    <3>4. CASE /\ disk' = Marked(disk, r) /\ Flushed' = Marked(Flushed, r)
               /\ View' = Marked(View, r) /\ Recorded(meta, r) /\ meta' = Failed(meta, r)
      <4>1. /\ disk'.progress = disk.progress /\ Flushed'.progress = Flushed.progress
            /\ View'.progress = View.progress
        BY <1>3, <3>4, MarkedFields
      <4>2. Sound(meta', disk') /\ Sound(meta', Flushed') /\ Sound(meta', View')
        BY <1>3, <3>4, SoundMarked DEF VersionsSound
      <4>3. VersionsSound'
        BY <1>3, <4>1, <4>2 DEF VersionsSound
      <4>4. QED
        BY <3>1, <3>2, <4>1, <4>3
    <3>5. QED
      BY <3>1, <3>3, <3>4
  <2>2. CASE WriteFails
    BY <2>2, WriteFailsStep
  <2>3. CASE UNCHANGED pebbleVars
    BY <2>3, SameStore
  <2>4. QED
    BY <1>1, <2>1, <2>2, <2>3
<1>5. ServiceTyped'
  BY <1>1, <1>2 DEF IInv, ServiceTyped
<1>6. ServiceOrder' /\ ScanSound'
  BY <1>2, <1>3, <1>4 DEF IInv, ServiceOrder, ScanSound, Bootstrapping
<1>7. QED
  BY <1>4, <1>5, <1>6 DEF IInv

LEMMA LoopKeeps ==
  ASSUME IInv, Known, SubscriptionLoop
  PROVE  IInv' /\ AbstractStep
<1>1. CASE \/ LoopCancelled \/ ApplyRefused \/ FailedEvent \/ FlushFails \/ StreamFails
           \/ RetryFails
  BY <1>1, LoopEndsKeeps
     DEF LoopCancelled, ApplyRefused, FailedEvent, FlushFails, StreamFails, RetryFails
<1>2. QED
  BY <1>1, LoopMovesKeeps, ApplyKeeps, FailEventKeeps DEF SubscriptionLoop

-----------------------------------------------------------------------------
(* The other callers.                                                      *)
LEMMA InvalidateKeeps ==
  ASSUME IInv, NEW d \in Databases, InvalidateDatabase(d)
  PROVE  IInv' /\ AbstractStep
<1>1. /\ op \in {"off", "start"} /\ (DeleteDatabase(d) \/ WriteFails)
      /\ UNCHANGED <<head, opVars, flagVars, loopVars>>
  BY DEF InvalidateDatabase
<1>2. /\ head' = head /\ op' = op /\ mark' = mark /\ scanned' = scanned /\ gen' = gen
      /\ running' = running /\ closed' = closed /\ ready' = ready
      /\ progress' = progress /\ loop' = loop /\ failing' = failing
      /\ pos' = pos /\ fence' = fence
  BY <1>1 DEF opVars, flagVars, loopVars
<1>3. /\ StoreInv /\ VersionsSound
      /\ disk \in Data /\ Flushed \in Data /\ View \in Data /\ meta \in Meta
  BY ProgressTyped DEF IInv
<1>4. /\ StoreInv' /\ AbstractStep /\ VersionsSound' /\ storeState' = storeState
      /\ disk'.progress = disk.progress /\ View'.progress = View.progress
  <2>1. CASE DeleteDatabase(d)
    <3>1. /\ StoreInv' /\ AbstractStep
          /\ disk' = Purged(disk, d) /\ Flushed' = Purged(Flushed, d) /\ View' = Purged(View, d)
          /\ meta' = Retired(meta, d)
      BY <1>3, <2>1, DeleteDatabaseStep
    <3>2. /\ disk'.progress = disk.progress /\ Flushed'.progress = Flushed.progress
          /\ View'.progress = View.progress
      BY <1>3, <3>1, PurgedFields
    <3>3. Sound(meta', disk') /\ Sound(meta', Flushed') /\ Sound(meta', View')
      BY <1>3, <3>1, SoundPurged DEF VersionsSound
    <3>4. VersionsSound'
      BY <1>3, <3>2, <3>3 DEF VersionsSound
    <3>5. storeState' = storeState
      BY <2>1 DEF DeleteDatabase
    <3>6. QED
      BY <3>1, <3>2, <3>4, <3>5
  <2>2. CASE WriteFails
    BY <2>2, WriteFailsStep
  <2>3. QED
    BY <1>1, <2>1, <2>2
<1>5. ServiceTyped'
  BY <1>2 DEF IInv, ServiceTyped
<1>6. ServiceOrder' /\ ScanSound'
  BY <1>1, <1>2, <1>4 DEF IInv, ServiceOrder, ScanSound, Bootstrapping
<1>7. QED
  BY <1>4, <1>5, <1>6 DEF IInv

(* Stop, and the source, with the store left alone.                        *)
LEMMA StopKeeps ==
  ASSUME IInv, Stop \/ SourceChange
  PROVE  IInv' /\ AbstractStep
<1>1. UNCHANGED pebbleVars
  BY DEF Stop, SourceChange
<1>2. /\ StoreInv' /\ AbstractStep /\ VersionsSound'
      /\ disk' = disk /\ View' = View /\ meta' = meta /\ storeState' = storeState
  BY <1>1, SameStore
<1>3. CASE Stop
  <2>1. /\ closed' /\ ~running' /\ ~ready' /\ head' = head
        /\ op' = op /\ mark' = mark /\ scanned' = scanned /\ gen' = gen
        /\ progress' = progress /\ loop' = loop /\ failing' = failing
        /\ pos' = pos /\ fence' = fence
    BY <1>3 DEF Stop, opVars, loopVars
  <2>2. ServiceTyped' /\ ServiceOrder'
    BY <1>2, <2>1 DEF IInv, ServiceTyped, ServiceOrder
  <2>3. ScanSound'
    BY <1>2, <2>1 DEF IInv, ScanSound, Bootstrapping
  <2>4. QED
    BY <1>2, <2>2, <2>3 DEF IInv
<1>4. CASE SourceChange
  <2>1. /\ head < Last /\ head' = head + 1 /\ op \notin {"scan", "flush", "publish"}
        /\ op' = op /\ mark' = mark /\ scanned' = scanned /\ gen' = gen
        /\ running' = running /\ closed' = closed /\ ready' = ready
        /\ progress' = progress /\ loop' = loop /\ failing' = failing
        /\ pos' = pos /\ fence' = fence
    BY <1>4 DEF SourceChange, opVars, flagVars, loopVars
  <2>2. head' \in 1..Last
    BY <2>1, LastIsPositive DEF IInv, ServiceTyped
  <2>3. ServiceTyped' /\ ServiceOrder' /\ ScanSound'
    BY <1>2, <2>1, <2>2 DEF IInv, ServiceTyped, ServiceOrder, ScanSound, Bootstrapping
  <2>4. QED
    BY <1>2, <2>3 DEF IInv
<1>5. QED
  BY <1>3, <1>4

LEMMA StoreOpensKeeps ==
  ASSUME IInv, StopCloses \/ Boot
  PROVE  IInv' /\ AbstractStep
<1>1. /\ UNCHANGED <<disk, meta, queueVars, flushPc>> /\ flushErr' = flushErr
      /\ storeState' \in {"closing", "open"}
      /\ storeState' = "closing" => op = "off" /\ loop = "off"
      /\ UNCHANGED <<head, opVars, flagVars, loopVars>>
  BY DEF StopCloses, Boot, CloseStore, OpenStore
<1>2. StoreInv /\ VersionsSound /\ disk \in Data /\ disk.progress \in Nat
  BY ProgressTyped DEF IInv
<1>3. /\ StoreInv' /\ AbstractStep
      /\ disk' = disk /\ Flushed' = Flushed /\ View' = View /\ meta' = meta
  BY <1>1, <1>2, StoreAsideStep
<1>4. VersionsSound'
  BY <1>2, <1>3, SameVersions
<1>5. ScanSound' /\ ServiceTyped' /\ ServiceOrder'
  BY <1>1, <1>2, <1>3, SameService
<1>6. QED
  BY <1>3, <1>4, <1>5 DEF IInv

LEMMA ProcessEndsKeeps ==
  ASSUME IInv, ProcessEnds
  PROVE  IInv' /\ AbstractStep
<1>1. /\ LoseStore /\ op' = "off" /\ scanned' = 0 /\ ~ready' /\ loop' = "off"
      /\ failing' = {} /\ pos' = 0 /\ fence' = 0 /\ head' = head /\ gen' = gen
  BY DEF ProcessEnds
<1>2. StoreInv /\ VersionsSound /\ disk.progress \in Nat
  BY ProgressTyped DEF IInv
<1>3. /\ StoreInv' /\ AbstractStep
      /\ disk' = disk /\ Flushed' = disk /\ View' = disk /\ meta' = meta
  BY <1>1, <1>2, LoseStoreStep
<1>4. VersionsSound'
  BY <1>2, <1>3 DEF VersionsSound
<1>5. ServiceTyped'
  <2>1. scanned' \in 0..Len(ScanOrder)
    BY <1>1 DEF IInv, ServiceTyped
  <2>2. QED
    BY <1>1, <2>1, LastIsPositive DEF IInv, ServiceTyped
<1>6. ServiceOrder' /\ ScanSound'
  BY <1>1 DEF ServiceOrder, ScanSound, Bootstrapping
<1>7. QED
  BY <1>3, <1>4, <1>5, <1>6 DEF IInv

LEMMA ResetKeeps ==
  ASSUME IInv, ResetDerived
  PROVE  IInv' /\ AbstractStep
<1>1. /\ ArchiveStore /\ gen' = 0 /\ storeState = "none" /\ storeState' = "none"
      /\ head' = head /\ op' = op /\ mark' = mark /\ scanned' = scanned
      /\ running' = running /\ closed' = closed /\ ready' = ready
      /\ progress' = progress /\ loop' = loop /\ failing' = failing
      /\ pos' = pos /\ fence' = fence
  BY DEF ResetDerived, ArchiveStore, flagVars, loopVars
<1>2. StoreInv /\ op = "off" /\ loop = "off" /\ ~ready
  BY <1>1 DEF IInv, ServiceOrder
<1>3. /\ StoreInv' /\ AbstractStep
      /\ disk' = EmptyData /\ Flushed' = EmptyData /\ View' = EmptyData /\ meta' = EmptyMeta
  BY <1>1, <1>2, ArchiveStep
<1>4. VersionsSound'
  BY <1>3, EmptySound DEF VersionsSound
<1>5. ServiceTyped'
  BY <1>1, ShapeAssumption DEF IInv, ServiceTyped
<1>6. ServiceOrder' /\ ScanSound'
  BY <1>1, <1>2 DEF ServiceOrder, ScanSound, Bootstrapping
<1>7. QED
  BY <1>3, <1>4, <1>5, <1>6 DEF IInv

-----------------------------------------------------------------------------
(* The theorems.                                                           *)
LEMMA InitHolds ==
  ASSUME Init
  PROVE  IInv /\ Store!StoreInit
<1>1. /\ disk = EmptyData /\ meta = EmptyMeta
      /\ projectionPending = Nothing /\ pendingProgress = 0
      /\ projectionFlushing = Nothing /\ flushingProgress = 0
      /\ flushPc = "idle" /\ flushErr = FALSE /\ storeState = "none"
      /\ head = 1 /\ op = "off" /\ scanned = 0 /\ gen = 0 /\ ready = FALSE
      /\ loop = "off" /\ failing = {} /\ pos = 0 /\ fence = 0
  BY DEF Init, PebbleInit
<1>2. Flushed = EmptyData /\ View = EmptyData
  BY <1>1, EmptyTyped, ReplacedByNothing DEF Flushed, View
<1>3. StoreInv
  <2>1. 0 \in 0..Last
    BY LastIsPositive
  <2>2. QED
    BY <1>1, <2>1, EmptyTyped, NothingShape DEF StoreInv, StoreTyped, StoreOrder
<1>4. VersionsSound
  BY <1>1, <1>2, EmptySound DEF VersionsSound
<1>5. ServiceTyped
  <2>1. Len(ScanOrder) \in Nat
    BY LogAssumption
  <2>2. QED
    BY <1>1, <2>1, LastIsPositive, ShapeAssumption DEF ServiceTyped
<1>6. ServiceOrder /\ ScanSound
  BY <1>1 DEF ServiceOrder, ScanSound, Bootstrapping
<1>7. Store!StoreInit
  BY <1>1, <1>2, SameShapes DEF Store!StoreInit
<1>8. QED
  BY <1>3, <1>4, <1>5, <1>6, <1>7 DEF IInv

LEMMA NextKeeps ==
  ASSUME IInv, Known, [Next]_vars
  PROVE  IInv' /\ AbstractStep
<1>1. CASE UNCHANGED vars
  <2>1. UNCHANGED pebbleVars /\ UNCHANGED <<head, opVars, flagVars, loopVars>>
    BY <1>1 DEF vars
  <2>2. /\ StoreInv' /\ AbstractStep /\ VersionsSound'
        /\ disk' = disk /\ View' = View /\ meta' = meta /\ storeState' = storeState
    BY <2>1, SameStore
  <2>3. disk \in Data /\ disk.progress \in Nat
    BY ProgressTyped
  <2>4. storeState' # "open" => op = "off" /\ loop = "off"
    BY <2>2 DEF IInv, ServiceOrder
  <2>5. ScanSound' /\ ServiceTyped' /\ ServiceOrder'
    BY <2>1, <2>2, <2>3, <2>4, SameService
  <2>6. QED
    BY <2>2, <2>5 DEF IInv
<1>2. CASE Next
  BY <1>2, BatcherKeeps, OperationKeeps, LoopKeeps, InvalidateKeeps, StopKeeps,
     StoreOpensKeeps, ProcessEndsKeeps, ResetKeeps DEF Next
<1>3. QED
  BY <1>1, <1>2

LEMMA AlwaysIInv == Spec => []IInv
<1>1. Init => IInv
  BY InitHolds
<1>2. IInv /\ Known /\ [Next]_vars => IInv'
  BY NextKeeps
<1>3. QED
  BY <1>1, <1>2, AlwaysKnown, PTL DEF Spec

(* persist_store implements the store that indexer/store describes: every  *)
(* step of the service, of the batcher, of a crash and of a reset is a     *)
(* step of the abstract store or changes nothing that it shows.            *)
THEOREM StoreImplemented == Spec => StoreContract
<1>1. Init => Store!StoreInit
  BY InitHolds
<1>2. IInv /\ Known /\ [Next]_vars => [Store!StoreNext]_(Store!storeVars)
  BY NextKeeps DEF AbstractStep, Store!storeVars
<1>3. QED
  BY <1>1, <1>2, AlwaysIInv, AlwaysKnown, PTL DEF Spec, StoreContract, Store!StoreSpec

(* flushLocked: whatever a crash leaves of a serving generation is the     *)
(* source's state at the progress saved with it.                           *)
THEOREM DurableSafe == Spec => []DurableExact
<1>1. IInv => DurableExact
  BY DEF IInv, VersionsSound, Sound, DurableExact, IndexAt
<1>2. QED
  BY <1>1, AlwaysIInv, PTL

(* queryReady: an index that answers queries holds exactly the changes     *)
(* applied so far, and what was known when the stream attached is durable. *)
THEOREM ServedSafe == Spec => []ServedExact
<1>1. ASSUME IInv
      PROVE  ServedExact
  <2>1. SUFFICES ASSUME running, ready
                 PROVE  IndexAt(View, progress) /\ View.progress = progress /\ disk.progress >= fence
    BY DEF ServedExact
  <2>2. loop # "off" /\ disk.progress >= fence
    BY <1>1, <2>1 DEF IInv, ServiceOrder
  <2>3. View.progress = progress
    BY <1>1, <2>2 DEF IInv, ServiceOrder
  <2>4. IndexAt(View, progress)
    BY <1>1, <2>3 DEF IInv, VersionsSound, Sound, IndexAt
  <2>5. QED
    BY <2>2, <2>3, <2>4
<1>2. QED
  BY <1>1, AlwaysIInv, PTL
=============================================================================
