-------------------------- MODULE PebbleStoreProofs --------------------------
(***************************************************************************)
(* Every step of the persistent index store is a step of the abstract one. *)
(*                                                                         *)
(* Three versions of the index exist at any time: what is on disk, what    *)
(* the batch in flight makes of it (Flushed), and what readers see (View). *)
(* For every operation of PebbleStore a lemma says what it makes of each   *)
(* of them, and that the same operation of IndexStore makes it too.        *)
(***************************************************************************)
EXTENDS PebbleStore, TLAPS

Batches == UNION {[S -> Values] : S \in SUBSET Cells}

-----------------------------------------------------------------------------
(* What a replacement does to one version of the index.                    *)
LEMMA ReplacedFields ==
  ASSUME NEW dat, NEW ops, NEW p
  PROVE  /\ Replaced(dat, ops, p).post =
              [c \in Cells |-> IF c \in DOMAIN ops THEN ops[c] ELSE dat.post[c]]
         /\ Replaced(dat, ops, p).progress = IF p # 0 THEN p ELSE dat.progress
         /\ Replaced(dat, ops, p).parts = dat.parts \cup {c[1] : c \in DOMAIN ops}
BY DEF Replaced

(* Two versions with the same fields are the same version.                 *)
LEMMA SameData ==
  ASSUME NEW a \in Data, NEW b \in Data, \A c \in Cells : a.post[c] = b.post[c],
         a.progress = b.progress, a.parts = b.parts
  PROVE  a = b
<1>1. a.post = b.post
  BY DEF Data
<1>2. QED
  BY <1>1 DEF Data

LEMMA BatchShape ==
  ASSUME NEW f \in Batches
  PROVE  DOMAIN f \subseteq Cells /\ \A c \in DOMAIN f : f[c] \in Values
BY DEF Batches

LEMMA NothingShape ==
  /\ Nothing \in Batches /\ DOMAIN Nothing = {}
  /\ \A f \in Batches : DOMAIN f = {} => f = Nothing
BY DEF Batches, Nothing, Values

LEMMA CellShape ==
  ASSUME NEW c \in Cells
  PROVE  c[1] \in Refs /\ c[2] \in Docs /\ TemplateDb[c[1][1]] = DocDb[c[2]]
         /\ c[1][1] \in Templates /\ c[1][2] \in 1..MaxGen
BY DEF Cells, Refs

LEMMA ReplacedType ==
  ASSUME NEW dat \in Data, NEW ops \in Batches, NEW p \in 0..Last
  PROVE  Replaced(dat, ops, p) \in Data
<1>1. \A c \in Cells : (IF c \in DOMAIN ops THEN ops[c] ELSE dat.post[c]) \in Values
  BY BatchShape DEF Data
<1>2. (IF p # 0 THEN p ELSE dat.progress) \in 0..Last
  BY DEF Data
<1>3. dat.parts \cup {c[1] : c \in DOMAIN ops} \in SUBSET Refs
  BY BatchShape, CellShape DEF Data
<1>4. [c \in Cells |-> IF c \in DOMAIN ops THEN ops[c] ELSE dat.post[c]] \in [Cells -> Values]
  BY <1>1
<1>5. QED
  BY <1>2, <1>3, <1>4 DEF Replaced, Data

LEMMA ReplacedByNothing ==
  ASSUME NEW dat \in Data
  PROVE  Replaced(dat, Nothing, 0) = dat
<1> DEFINE new == Replaced(dat, Nothing, 0)
<1>1. new \in Data
  BY NothingShape, ReplacedType, ShapeAssumption
<1>2. /\ new.progress = (IF 0 # 0 THEN 0 ELSE dat.progress)
      /\ new.parts = dat.parts \cup {c[1] : c \in DOMAIN Nothing}
      /\ new.post = [c \in Cells |-> IF c \in DOMAIN Nothing THEN Nothing[c] ELSE dat.post[c]]
  BY ReplacedFields
<1> HIDE DEF new
<1>3. DOMAIN Nothing = {}
  BY NothingShape
<1>4. new.progress = dat.progress /\ new.parts = dat.parts
  BY <1>2, <1>3
<1>5. \A c \in Cells : new.post[c] = dat.post[c]
  BY <1>2, <1>3
<1>6. QED
  BY <1>1, <1>4, <1>5, SameData DEF new

(* A batch replayed over itself changes nothing.                           *)
LEMMA ReplacedTwice ==
  ASSUME NEW dat \in Data, NEW ops \in Batches, NEW p \in 0..Last
  PROVE  Replaced(Replaced(dat, ops, p), ops, p) = Replaced(dat, ops, p)
<1> DEFINE one == Replaced(dat, ops, p)
           two == Replaced(one, ops, p)
<1>1. one \in Data /\ two \in Data
  BY ReplacedType
<1>2. /\ one.progress = (IF p # 0 THEN p ELSE dat.progress)
      /\ one.parts = dat.parts \cup {c[1] : c \in DOMAIN ops}
      /\ one.post = [c \in Cells |-> IF c \in DOMAIN ops THEN ops[c] ELSE dat.post[c]]
  BY ReplacedFields
<1> HIDE DEF one
<1>3. /\ two.progress = (IF p # 0 THEN p ELSE one.progress)
      /\ two.parts = one.parts \cup {c[1] : c \in DOMAIN ops}
      /\ two.post = [c \in Cells |-> IF c \in DOMAIN ops THEN ops[c] ELSE one.post[c]]
  BY ReplacedFields
<1> HIDE DEF two
<1>4. two.progress = one.progress /\ two.parts = one.parts
  BY <1>2, <1>3
<1>5. \A c \in Cells : two.post[c] = one.post[c]
  BY <1>2, <1>3
<1>6. two = one
  BY <1>1, <1>4, <1>5, SameData
<1>7. QED
  BY <1>6 DEF one, two

(* Replacements merged with those waiting are replacements after them.     *)
LEMMA ReplacedMerged ==
  ASSUME NEW dat \in Data, NEW f \in Batches, NEW p \in 0..Last,
         NEW ops \in Batches, NEW q \in 0..Last
  PROVE  LET both == [c \in DOMAIN f \cup DOMAIN ops |->
                        IF c \in DOMAIN ops THEN ops[c] ELSE f[c]]
             last == IF q # 0 THEN q ELSE p
         IN /\ both \in Batches /\ last \in 0..Last
            /\ Replaced(dat, both, last) = Replaced(Replaced(dat, f, p), ops, q)
<1> DEFINE both == [c \in DOMAIN f \cup DOMAIN ops |->
                      IF c \in DOMAIN ops THEN ops[c] ELSE f[c]]
           last == IF q # 0 THEN q ELSE p
           one == Replaced(dat, f, p)
           two == Replaced(one, ops, q)
           new == Replaced(dat, both, last)
<1>1. both \in Batches /\ last \in 0..Last /\ DOMAIN both = DOMAIN f \cup DOMAIN ops
  <2>1. \A c \in DOMAIN f \cup DOMAIN ops : (IF c \in DOMAIN ops THEN ops[c] ELSE f[c]) \in Values
    BY BatchShape
  <2>2. both \in [DOMAIN f \cup DOMAIN ops -> Values]
    BY <2>1
  <2>3. DOMAIN f \cup DOMAIN ops \in SUBSET Cells
    BY BatchShape
  <2>4. QED
    BY <2>2, <2>3 DEF Batches
<1>2. \A c \in DOMAIN both : both[c] = IF c \in DOMAIN ops THEN ops[c] ELSE f[c]
  OBVIOUS
<1> HIDE DEF both
<1>3. one \in Data /\ two \in Data /\ new \in Data
  BY <1>1, ReplacedType
<1>4. /\ one.progress = (IF p # 0 THEN p ELSE dat.progress)
      /\ one.parts = dat.parts \cup {c[1] : c \in DOMAIN f}
      /\ one.post = [c \in Cells |-> IF c \in DOMAIN f THEN f[c] ELSE dat.post[c]]
  BY ReplacedFields
<1>5. /\ new.progress = (IF last # 0 THEN last ELSE dat.progress)
      /\ new.parts = dat.parts \cup {c[1] : c \in DOMAIN both}
      /\ new.post = [c \in Cells |-> IF c \in DOMAIN both THEN both[c] ELSE dat.post[c]]
  BY ReplacedFields
<1> HIDE DEF one
<1>6. /\ two.progress = (IF q # 0 THEN q ELSE one.progress)
      /\ two.parts = one.parts \cup {c[1] : c \in DOMAIN ops}
      /\ two.post = [c \in Cells |-> IF c \in DOMAIN ops THEN ops[c] ELSE one.post[c]]
  BY ReplacedFields
<1> HIDE DEF two, new
<1>7. new.progress = two.progress
  BY <1>4, <1>5, <1>6
<1>8. new.parts = two.parts
  BY <1>1, <1>4, <1>5, <1>6
<1>9. \A c \in Cells : new.post[c] = two.post[c]
  BY <1>1, <1>2, <1>4, <1>5, <1>6
<1>10. new = two
  BY <1>3, <1>7, <1>8, <1>9, SameData
<1>11. QED
  BY <1>1, <1>10 DEF both, new, two, one

(* Purging a database from a batch and from what it is applied to purges   *)
(* it from the result.                                                     *)
LEMMA PurgedFields ==
  ASSUME NEW dat \in Data, NEW d
  PROVE  /\ Purged(dat, d) \in Data
         /\ Purged(dat, d).post = [c \in Cells |-> IF DocDb[c[2]] = d THEN 0 ELSE dat.post[c]]
         /\ Purged(dat, d).progress = dat.progress
         /\ Purged(dat, d).parts = dat.parts \ RefsOf(d)
<1>1. [c \in Cells |-> IF DocDb[c[2]] = d THEN 0 ELSE dat.post[c]] \in [Cells -> Values]
  BY ShapeAssumption DEF Data, Values
<1>2. dat.parts \ RefsOf(d) \in SUBSET Refs
  BY DEF Data
<1>3. QED
  BY <1>1, <1>2 DEF Purged, Data

LEMMA RefsOfCell ==
  ASSUME NEW c \in Cells, NEW d
  PROVE  c[1] \in RefsOf(d) <=> DocDb[c[2]] = d
BY CellShape DEF RefsOf, TemplatesOf, Refs, Cells

LEMMA ReplacedPurged ==
  ASSUME NEW dat \in Data, NEW f \in Batches, NEW p \in 0..Last, NEW d
  PROVE  LET kept == [c \in {c \in DOMAIN f : DocDb[c[2]] # d} |-> f[c]]
         IN /\ kept \in Batches
            /\ Replaced(Purged(dat, d), kept, p) = Purged(Replaced(dat, f, p), d)
<1> DEFINE kept == [c \in {c \in DOMAIN f : DocDb[c[2]] # d} |-> f[c]]
           low == Purged(dat, d)
           one == Replaced(dat, f, p)
           new == Replaced(low, kept, p)
           old == Purged(one, d)
<1>1. kept \in Batches /\ DOMAIN kept = {c \in DOMAIN f : DocDb[c[2]] # d}
  <2>1. kept \in [{c \in DOMAIN f : DocDb[c[2]] # d} -> Values]
    BY BatchShape
  <2>2. {c \in DOMAIN f : DocDb[c[2]] # d} \in SUBSET Cells
    BY BatchShape
  <2>3. QED
    BY <2>1, <2>2 DEF Batches
<1>2. \A c \in DOMAIN kept : kept[c] = f[c]
  OBVIOUS
<1> HIDE DEF kept
<1>3. low \in Data /\ one \in Data /\ new \in Data /\ old \in Data
  BY <1>1, ReplacedType, PurgedFields
<1>4. /\ low.post = [c \in Cells |-> IF DocDb[c[2]] = d THEN 0 ELSE dat.post[c]]
      /\ low.progress = dat.progress /\ low.parts = dat.parts \ RefsOf(d)
  BY PurgedFields
<1>5. /\ one.progress = (IF p # 0 THEN p ELSE dat.progress)
      /\ one.parts = dat.parts \cup {c[1] : c \in DOMAIN f}
      /\ one.post = [c \in Cells |-> IF c \in DOMAIN f THEN f[c] ELSE dat.post[c]]
  BY ReplacedFields
<1> HIDE DEF low, one
<1>6. /\ old.post = [c \in Cells |-> IF DocDb[c[2]] = d THEN 0 ELSE one.post[c]]
      /\ old.progress = one.progress /\ old.parts = one.parts \ RefsOf(d)
  <2>1. one \in Data
    BY <1>3
  <2>2. QED
    BY <2>1, PurgedFields
<1>7. /\ new.progress = (IF p # 0 THEN p ELSE low.progress)
      /\ new.parts = low.parts \cup {c[1] : c \in DOMAIN kept}
      /\ new.post = [c \in Cells |-> IF c \in DOMAIN kept THEN kept[c] ELSE low.post[c]]
  BY ReplacedFields
<1> HIDE DEF old, new
<1>8. new.progress = old.progress
  BY <1>4, <1>5, <1>6, <1>7
<1>9. new.parts = old.parts
  <2>1. \A c \in DOMAIN f : c[1] \in RefsOf(d) <=> DocDb[c[2]] = d
    BY BatchShape, RefsOfCell
  <2>2. {c[1] : c \in DOMAIN kept} = {c[1] : c \in DOMAIN f} \ RefsOf(d)
    BY <1>1, <2>1
  <2>3. QED
    BY <1>4, <1>5, <1>6, <1>7, <2>2
<1>10. \A c \in Cells : new.post[c] = old.post[c]
  BY <1>1, <1>2, <1>4, <1>5, <1>6, <1>7
<1>11. new = old
  BY <1>3, <1>8, <1>9, <1>10, SameData
<1>12. QED
  BY <1>1, <1>11 DEF kept, new, old, one, low

(* A partition that is marked shows through a batch.                       *)
Marked(dat, r) == [dat EXCEPT !.parts = @ \cup {r}]

LEMMA MarkedFields ==
  ASSUME NEW dat \in Data, NEW r \in Refs
  PROVE  /\ Marked(dat, r) \in Data /\ Marked(dat, r).post = dat.post
         /\ Marked(dat, r).progress = dat.progress /\ Marked(dat, r).parts = dat.parts \cup {r}
BY DEF Marked, Data

LEMMA ReplacedMarked ==
  ASSUME NEW dat \in Data, NEW f \in Batches, NEW p \in 0..Last, NEW r \in Refs
  PROVE  Replaced(Marked(dat, r), f, p) = Marked(Replaced(dat, f, p), r)
<1> DEFINE low == Marked(dat, r)
           one == Replaced(dat, f, p)
           new == Replaced(low, f, p)
           old == Marked(one, r)
<1>1. low \in Data /\ one \in Data /\ new \in Data /\ old \in Data
  BY ReplacedType, MarkedFields
<1>2. low.post = dat.post /\ low.progress = dat.progress /\ low.parts = dat.parts \cup {r}
  BY MarkedFields
<1>3. /\ one.progress = (IF p # 0 THEN p ELSE dat.progress)
      /\ one.parts = dat.parts \cup {c[1] : c \in DOMAIN f}
      /\ one.post = [c \in Cells |-> IF c \in DOMAIN f THEN f[c] ELSE dat.post[c]]
  BY ReplacedFields
<1> HIDE DEF low, one
<1>4. old.post = one.post /\ old.progress = one.progress /\ old.parts = one.parts \cup {r}
  BY <1>1, MarkedFields
<1>5. /\ new.progress = (IF p # 0 THEN p ELSE low.progress)
      /\ new.parts = low.parts \cup {c[1] : c \in DOMAIN f}
      /\ new.post = [c \in Cells |-> IF c \in DOMAIN f THEN f[c] ELSE low.post[c]]
  BY ReplacedFields
<1> HIDE DEF old, new
<1>6. new.progress = old.progress /\ new.parts = old.parts
  BY <1>2, <1>3, <1>4, <1>5
<1>7. \A c \in Cells : new.post[c] = old.post[c]
  BY <1>2, <1>3, <1>4, <1>5
<1>8. new = old
  BY <1>1, <1>6, <1>7, SameData
<1>9. QED
  BY <1>8 DEF new, old, one, low

-----------------------------------------------------------------------------
(* The store.  A step of it is a step of the abstract store, and moves the *)
(* three versions in one of a few ways.                                    *)
StoreTyped ==
  /\ disk \in Data /\ meta \in Meta
  /\ projectionPending \in Batches /\ projectionFlushing \in Batches
  /\ pendingProgress \in 0..Last /\ flushingProgress \in 0..Last

StoreOrder ==
  /\ flushPc = "idle" /\ ~flushErr => projectionFlushing = Nothing /\ flushingProgress = 0
  /\ flushPc = "committed" => disk = Flushed
  /\ storeState = "none" =>
       /\ projectionPending = Nothing /\ pendingProgress = 0
       /\ projectionFlushing = Nothing /\ flushingProgress = 0
       /\ flushPc = "idle" /\ ~flushErr

StoreInv == StoreTyped /\ StoreOrder

AbstractStep == [Store!StoreNext]_<<View, disk, IF flushPc = "taken" THEN {Flushed} ELSE {}, meta>>

LEMMA VersionsTyped ==
  ASSUME StoreInv
  PROVE  Flushed \in Data /\ View \in Data
<1>1. Flushed \in Data
  BY ReplacedType DEF StoreInv, StoreTyped, Flushed
<1>2. QED
  BY <1>1, ReplacedType DEF StoreInv, StoreTyped, View

LEMMA FlushTakeStep ==
  ASSUME StoreInv, FlushTake
  PROVE  /\ StoreInv' /\ AbstractStep
         /\ disk' = disk /\ Flushed' = View /\ View' = View /\ meta' = meta
<1>1. /\ disk' = disk /\ meta' = meta
      /\ projectionFlushing' = projectionPending /\ projectionPending' = Nothing
      /\ flushingProgress' = pendingProgress /\ pendingProgress' = 0
      /\ flushPc' = "taken" /\ flushPc = "idle" /\ storeState' \in {"open", "closing"}
  BY DEF FlushTake
<1>2. projectionFlushing = Nothing /\ flushingProgress = 0
  BY DEF FlushTake, StoreInv, StoreOrder
<1>3. Flushed = disk
  BY <1>2, ReplacedByNothing DEF Flushed, StoreInv, StoreTyped
<1>4. Flushed' = View
  BY <1>1, <1>3 DEF Flushed, View
<1>5. View' = View
  BY <1>1, <1>4, VersionsTyped, ReplacedByNothing DEF View
<1>6. StoreInv'
  BY <1>1, NothingShape, ShapeAssumption DEF StoreInv, StoreTyped, StoreOrder
<1>7. Store!BeginSave
  BY <1>1, <1>4, <1>5 DEF Store!BeginSave
<1>8. QED
  BY <1>1, <1>4, <1>5, <1>6, <1>7 DEF AbstractStep, Store!StoreNext

LEMMA FlushCommitStep ==
  ASSUME StoreInv, FlushCommit
  PROVE  /\ StoreInv' /\ AbstractStep
         /\ disk' = Flushed /\ Flushed' = Flushed /\ View' = View /\ meta' = meta
<1>1. /\ disk' = Flushed /\ meta' = meta /\ storeState' = storeState /\ flushErr' = flushErr
      /\ projectionFlushing' = projectionFlushing /\ projectionPending' = projectionPending
      /\ flushingProgress' = flushingProgress /\ pendingProgress' = pendingProgress
      /\ flushPc = "taken" /\ flushPc' = "committed"
  BY DEF FlushCommit, queueVars
<1>2. Flushed' = Flushed
  BY <1>1, ReplacedTwice DEF Flushed, StoreInv, StoreTyped
<1>3. View' = View
  BY <1>1, <1>2 DEF View
<1>4. StoreInv'
  BY <1>1, <1>2, VersionsTyped DEF StoreInv, StoreTyped, StoreOrder
<1>5. Store!EndSave
  BY <1>1, <1>2, <1>3 DEF Store!EndSave
<1>6. QED
  BY <1>1, <1>2, <1>3, <1>4, <1>5 DEF AbstractStep, Store!StoreNext

LEMMA FlushFailStep ==
  ASSUME StoreInv, FlushFail
  PROVE  /\ StoreInv' /\ AbstractStep
         /\ disk' \in {disk, Flushed} /\ Flushed' = Flushed /\ View' = View /\ meta' = meta
<1>1. /\ disk' \in {disk, Flushed} /\ meta' = meta /\ storeState' = storeState /\ flushErr'
      /\ projectionFlushing' = projectionFlushing /\ projectionPending' = projectionPending
      /\ flushingProgress' = flushingProgress /\ pendingProgress' = pendingProgress
      /\ flushPc = "taken" /\ flushPc' = "idle"
  BY DEF FlushFail, queueVars
<1>2. Flushed' = Flushed
  BY <1>1, ReplacedTwice DEF Flushed, StoreInv, StoreTyped
<1>3. View' = View
  BY <1>1, <1>2 DEF View
<1>4. disk' \in Data
  BY <1>1, VersionsTyped DEF StoreInv, StoreTyped
<1>5. StoreInv'
  BY <1>1, <1>4 DEF StoreInv, StoreTyped, StoreOrder
<1>6. CASE disk' = disk
  <2>1. Store!AbandonSave
    BY <1>1, <1>2, <1>3, <1>6 DEF Store!AbandonSave
  <2>2. QED
    BY <1>1, <1>2, <1>3, <1>5, <2>1 DEF AbstractStep, Store!StoreNext
<1>7. CASE disk' = Flushed
  <2>1. Store!EndSave
    BY <1>1, <1>2, <1>3, <1>7 DEF Store!EndSave
  <2>2. QED
    BY <1>1, <1>2, <1>3, <1>5, <2>1 DEF AbstractStep, Store!StoreNext
<1>8. QED
  BY <1>1, <1>6, <1>7

LEMMA FlushClearStep ==
  ASSUME StoreInv, FlushClear
  PROVE  /\ StoreInv' /\ AbstractStep
         /\ disk' = disk /\ Flushed' = disk /\ View' = View /\ meta' = meta
<1>1. /\ disk' = disk /\ meta' = meta /\ storeState' = storeState /\ flushErr' = flushErr
      /\ projectionFlushing' = Nothing /\ projectionPending' = projectionPending
      /\ flushingProgress' = 0 /\ pendingProgress' = pendingProgress
      /\ flushPc = "committed" /\ flushPc' = "idle"
  BY DEF FlushClear
<1>2. Flushed' = disk /\ Flushed = disk
  BY <1>1, ReplacedByNothing DEF Flushed, StoreInv, StoreTyped, StoreOrder
<1>3. View' = View
  BY <1>1, <1>2 DEF View
<1>4. StoreInv'
  BY <1>1, NothingShape, ShapeAssumption DEF StoreInv, StoreTyped, StoreOrder
<1>5. QED
  BY <1>1, <1>2, <1>3, <1>4 DEF AbstractStep

(* Steps that touch neither the queues nor the disk.                       *)
LEMMA StoreAsideStep ==
  ASSUME StoreInv, UNCHANGED <<disk, meta, queueVars, flushPc>>,
         flushErr => flushErr', storeState' # "none" \/ (storeState = "none" /\ flushErr' = flushErr)
  PROVE  /\ StoreInv' /\ AbstractStep
         /\ disk' = disk /\ Flushed' = Flushed /\ View' = View /\ meta' = meta
<1>1. /\ disk' = disk /\ meta' = meta /\ flushPc' = flushPc
      /\ projectionFlushing' = projectionFlushing /\ projectionPending' = projectionPending
      /\ flushingProgress' = flushingProgress /\ pendingProgress' = pendingProgress
  BY DEF queueVars
<1>2. Flushed' = Flushed /\ View' = View
  BY <1>1 DEF Flushed, View
<1>3. StoreInv'
  BY <1>1, <1>2 DEF StoreInv, StoreTyped, StoreOrder
<1>4. QED
  BY <1>1, <1>2, <1>3 DEF AbstractStep

LEMMA LoseStoreStep ==
  ASSUME StoreInv, LoseStore
  PROVE  /\ StoreInv' /\ AbstractStep
         /\ disk' = disk /\ Flushed' = disk /\ View' = disk /\ meta' = meta
<1>1. /\ disk' = disk /\ meta' = meta /\ ~flushErr'
      /\ projectionFlushing' = Nothing /\ projectionPending' = Nothing
      /\ flushingProgress' = 0 /\ pendingProgress' = 0 /\ flushPc' = "idle"
  BY DEF LoseStore
<1>2. Flushed' = disk
  BY <1>1, ReplacedByNothing DEF Flushed, StoreInv, StoreTyped
<1>3. View' = disk
  BY <1>1, <1>2, ReplacedByNothing DEF View, StoreInv, StoreTyped
<1>4. StoreInv'
  BY <1>1, NothingShape, ShapeAssumption DEF StoreInv, StoreTyped, StoreOrder
<1>5. Store!Crash
  BY <1>1, <1>3 DEF Store!Crash
<1>6. QED
  BY <1>1, <1>2, <1>3, <1>4, <1>5 DEF AbstractStep, Store!StoreNext

LEMMA EmptyTyped == EmptyData \in Data /\ EmptyMeta \in Meta
BY ShapeAssumption DEF EmptyData, EmptyMeta, Data, Meta, Values

LEMMA RetiredTyped ==
  ASSUME NEW met \in Meta, NEW d \in Databases
  PROVE  Retired(met, d) \in Meta
<1>1. [met.catalogs EXCEPT ![d] = 0] \in [Databases -> 0..MaxGen]
  BY ShapeAssumption DEF Meta
<1>2. met.failed \ RefsOf(d) \in SUBSET Refs /\ met.retired \cup {d} \in SUBSET Databases
  BY DEF Meta
<1>3. QED
  BY <1>1, <1>2 DEF Retired, Meta

LEMMA PublishedTyped ==
  ASSUME NEW met \in Meta, NEW dbs \in SUBSET Databases, NEW g \in 1..MaxGen, NEW b \in 1..Last
  PROVE  Published(met, dbs, g, b) \in Meta
<1>1. [d \in Databases |-> IF d \in dbs THEN g ELSE 0] \in [Databases -> 0..MaxGen]
  BY ShapeAssumption
<1>2. b \in 0..Last /\ met.retired \ dbs \in SUBSET Databases
  BY DEF Meta
<1>3. QED
  BY <1>1, <1>2 DEF Published, Meta

(* The abstract store has the same shapes and rules.                       *)
LEMMA SameShapes ==
  /\ Store!Refs = Refs /\ Store!Cells = Cells /\ Store!Values = Values /\ Store!Data = Data
  /\ Store!EmptyData = EmptyData /\ Store!EmptyMeta = EmptyMeta
BY DEF Store!Refs, Refs, Store!Cells, Cells, Store!Values, Values, Store!Data, Data,
       Store!EmptyData, EmptyData, Store!EmptyMeta, EmptyMeta

LEMMA SameRules ==
  /\ \A d : Store!RefsOf(d) = RefsOf(d)
  /\ \A a, d : Store!Purged(a, d) = Purged(a, d)
  /\ \A m, d : Store!Retired(m, d) = Retired(m, d)
  /\ \A m, r : Store!Recorded(m, r) = Recorded(m, r)
  /\ \A m, r : Store!Failed(m, r) = Failed(m, r)
  /\ \A m, s, g, b : Store!Published(m, s, g, b) = Published(m, s, g, b)
BY SameShapes DEF Store!TemplatesOf, TemplatesOf, Store!RefsOf, RefsOf, Store!Purged, Purged,
       Store!Retired, Retired, Store!Recorded, Recorded, Store!Failed, Failed,
       Store!Published, Published

LEMMA ArchiveStep ==
  ASSUME StoreInv, ArchiveStore
  PROVE  /\ StoreInv' /\ AbstractStep
         /\ disk' = EmptyData /\ Flushed' = EmptyData /\ View' = EmptyData /\ meta' = EmptyMeta
<1>1. /\ disk' = EmptyData /\ meta' = EmptyMeta /\ storeState' = storeState /\ flushErr' = flushErr
      /\ projectionFlushing' = Nothing /\ projectionPending' = Nothing
      /\ flushingProgress' = 0 /\ pendingProgress' = 0 /\ flushPc' = "idle" /\ ~flushErr'
  BY DEF ArchiveStore, queueVars, StoreInv, StoreOrder
<1>2. Flushed' = EmptyData
  BY <1>1, EmptyTyped, ReplacedByNothing DEF Flushed
<1>3. View' = EmptyData
  BY <1>1, <1>2, EmptyTyped, ReplacedByNothing DEF View
<1>4. StoreInv'
  BY <1>1, EmptyTyped, NothingShape, ShapeAssumption DEF StoreInv, StoreTyped, StoreOrder
<1>5. Store!Reset
  BY <1>1, <1>3, SameShapes DEF Store!Reset
<1>6. QED
  BY <1>1, <1>2, <1>3, <1>4, <1>5 DEF AbstractStep, Store!StoreNext

(* Replacements for one document.                                          *)
LEMMA ApplyStep ==
  ASSUME StoreInv, NEW ops \in Batches, NEW p \in 0..Last, NEW x \in Docs,
         \A c \in DOMAIN ops : c[2] = x, ApplyDocumentProjection(ops, p)
  PROVE  /\ StoreInv' /\ AbstractStep
         /\ disk' = disk /\ Flushed' = Flushed /\ View' = Replaced(View, ops, p) /\ meta' = meta
<1>1. /\ disk' = disk /\ meta' = meta /\ storeState' = storeState /\ flushErr' = flushErr
      /\ projectionFlushing' = projectionFlushing /\ flushingProgress' = flushingProgress
      /\ flushPc' = flushPc /\ storeState = "open"
      /\ projectionPending' =
           [c \in DOMAIN projectionPending \cup DOMAIN ops |->
              IF c \in DOMAIN ops THEN ops[c] ELSE projectionPending[c]]
      /\ pendingProgress' = IF p # 0 THEN p ELSE pendingProgress
  BY DEF ApplyDocumentProjection, writeError
<1>2. Flushed' = Flushed
  BY <1>1 DEF Flushed
<1>3. /\ projectionPending' \in Batches /\ pendingProgress' \in 0..Last
      /\ Replaced(Flushed, projectionPending', pendingProgress') = Replaced(View, ops, p)
  BY <1>1, VersionsTyped, ReplacedMerged DEF StoreInv, StoreTyped, View
<1>4. View' = Replaced(View, ops, p)
  BY <1>2, <1>3 DEF View
<1>5. StoreInv'
  BY <1>1, <1>2, <1>3 DEF StoreInv, StoreTyped, StoreOrder
<1>6. Store!ApplyDocumentProjection
  <2>1. View' \in Data /\ View \in Data
    BY <1>4, VersionsTyped, ReplacedType
  <2>2. /\ View'.parts = View.parts \cup {c[1] : c \in DOMAIN ops}
        /\ View'.post = [c \in Cells |-> IF c \in DOMAIN ops THEN ops[c] ELSE View.post[c]]
    BY <1>4, ReplacedFields
  <2>3. \A c \in Cells : c[2] # x => View'.post[c] = View.post[c]
    BY <2>2
  <2>4. View.parts \subseteq View'.parts
    BY <2>2
  <2>5. QED
    BY <1>1, <1>2, <2>1, <2>3, <2>4, SameShapes DEF Store!ApplyDocumentProjection
<1>7. QED
  BY <1>1, <1>2, <1>4, <1>5, <1>6 DEF AbstractStep, Store!StoreNext

LEMMA DeleteDatabaseStep ==
  ASSUME StoreInv, NEW d \in Databases, DeleteDatabase(d)
  PROVE  /\ StoreInv' /\ AbstractStep
         /\ disk' = Purged(disk, d) /\ Flushed' = Purged(Flushed, d) /\ View' = Purged(View, d)
         /\ meta' = Retired(meta, d)
<1>1. /\ disk' = Purged(disk, d) /\ meta' = Retired(meta, d) /\ storeState' = storeState
      /\ projectionFlushing' = projectionFlushing /\ flushingProgress' = flushingProgress
      /\ flushPc' = flushPc /\ flushPc = "idle" /\ ~flushErr /\ storeState = "open"
      /\ flushErr' = flushErr
      /\ projectionPending' =
           [c \in {c \in DOMAIN projectionPending : DocDb[c[2]] # d} |-> projectionPending[c]]
      /\ pendingProgress' = pendingProgress
  BY DEF DeleteDatabase, writeError
<1>2. projectionFlushing = Nothing /\ flushingProgress = 0
  BY <1>1 DEF StoreInv, StoreOrder
<1>3. disk' \in Data
  BY <1>1, PurgedFields DEF StoreInv, StoreTyped
<1>4. Flushed = disk /\ Flushed' = disk'
  BY <1>1, <1>2, <1>3, ReplacedByNothing DEF Flushed, StoreInv, StoreTyped
<1>5. projectionPending' \in Batches /\ View' = Purged(View, d)
  BY <1>1, <1>4, ReplacedPurged DEF StoreInv, StoreTyped, View
<1>6. meta' \in Meta
  BY <1>1, RetiredTyped DEF StoreInv, StoreTyped
<1>7. StoreInv'
  BY <1>1, <1>2, <1>3, <1>5, <1>6 DEF StoreInv, StoreTyped, StoreOrder
<1>8. Store!DeleteDatabase
  BY <1>1, <1>4, <1>5, SameRules DEF Store!DeleteDatabase
<1>9. QED
  BY <1>1, <1>4, <1>5, <1>7, <1>8 DEF AbstractStep, Store!StoreNext

LEMMA SetFailureStep ==
  ASSUME StoreInv, NEW r \in Refs, SetFailure(r)
  PROVE  /\ StoreInv' /\ AbstractStep
         /\ \/ /\ disk' = Marked(disk, r) /\ Flushed' = Marked(Flushed, r)
               /\ View' = Marked(View, r) /\ Recorded(meta, r) /\ meta' = Failed(meta, r)
            \/ disk' = disk /\ Flushed' = Flushed /\ View' = View /\ meta' = meta
<1>1. /\ storeState' = storeState /\ flushPc' = flushPc /\ flushErr' = flushErr
      /\ projectionFlushing' = projectionFlushing /\ flushingProgress' = flushingProgress
      /\ projectionPending' = projectionPending /\ pendingProgress' = pendingProgress
      /\ storeState = "open"
  BY DEF SetFailure, queueVars, writeError
<1>2. CASE Recorded(meta, r) /\ meta' = Failed(meta, r)
           /\ disk' = [disk EXCEPT !.parts = @ \cup {r}]
  <2>1. disk' = Marked(disk, r) /\ disk' \in Data
    BY <1>2, MarkedFields DEF Marked, StoreInv, StoreTyped
  <2>2. Flushed' = Marked(Flushed, r)
    BY <1>1, <2>1, ReplacedMarked DEF Flushed, StoreInv, StoreTyped
  <2>3. View' = Marked(View, r)
    BY <1>1, <2>2, ReplacedMarked, VersionsTyped DEF View, StoreInv, StoreTyped
  <2>4. meta' \in Meta
    BY <1>2 DEF StoreInv, StoreTyped, Failed, Meta
  <2>5. StoreInv'
    BY <1>1, <2>1, <2>2, <2>4 DEF StoreInv, StoreTyped, StoreOrder
  <2>6. Store!SetFailure
    <3>1. (IF flushPc = "taken" THEN {Flushed} ELSE {})' =
            {Marked(s, r) : s \in IF flushPc = "taken" THEN {Flushed} ELSE {}}
      BY <1>1, <2>2
    <3>2. QED
      BY <1>2, <2>1, <2>3, <3>1, SameRules, SameShapes DEF Store!SetFailure, Marked
  <2>7. QED
    BY <1>2, <2>1, <2>2, <2>3, <2>5, <2>6 DEF AbstractStep, Store!StoreNext
<1>3. CASE UNCHANGED <<meta, disk>>
  BY <1>1, <1>3, StoreAsideStep DEF queueVars
<1>4. QED
  BY <1>2, <1>3 DEF SetFailure

(* The view with the boundary as its progress.                             *)
At(dat, b) == [dat EXCEPT !.progress = b]

LEMMA PublishStep ==
  ASSUME StoreInv, NEW dbs \in SUBSET Databases, NEW g \in 1..MaxGen, NEW b \in 1..Last,
         PublishBootstrapCatalogs(dbs, g, b)
  PROVE  /\ StoreInv' /\ AbstractStep
         /\ disk' = At(View, b) /\ Flushed' = At(View, b) /\ View' = At(View, b)
         /\ meta' = Published(meta, dbs, g, b)
<1>1. /\ disk' = Replaced(disk, projectionPending, b) /\ meta' = Published(meta, dbs, g, b)
      /\ projectionFlushing' = projectionFlushing /\ flushingProgress' = flushingProgress
      /\ flushPc' = flushPc /\ flushPc = "idle" /\ ~flushErr /\ storeState = "open"
      /\ flushErr' = flushErr /\ storeState' = storeState
      /\ projectionPending' = Nothing /\ pendingProgress' = 0
  BY DEF PublishBootstrapCatalogs, writeError
<1>2. projectionFlushing = Nothing /\ flushingProgress = 0
  BY <1>1 DEF StoreInv, StoreOrder
<1>3. disk' \in Data
  BY <1>1, ReplacedType DEF StoreInv, StoreTyped
<1>4. Flushed = disk /\ Flushed' = disk' /\ View' = disk'
  BY <1>1, <1>2, <1>3, ReplacedByNothing DEF Flushed, View, StoreInv, StoreTyped
<1>5. disk' = At(View, b)
  <2>1. View = [post |-> disk'.post, progress |-> View.progress, parts |-> disk'.parts]
    BY <1>1, <1>4 DEF View, Replaced
  <2>2. disk' = [post |-> disk'.post, progress |-> b, parts |-> disk'.parts]
    <3>1. b # 0
      OBVIOUS
    <3>2. disk'.progress = b
      BY <1>1, <3>1 DEF Replaced
    <3>3. QED
      BY <1>3, <3>2 DEF Data
  <2>3. QED
    BY <2>1, <2>2 DEF At
<1>6. meta' \in Meta
  BY <1>1, PublishedTyped DEF StoreInv, StoreTyped
<1>7. StoreInv'
  BY <1>1, <1>2, <1>3, <1>6, NothingShape, ShapeAssumption DEF StoreInv, StoreTyped, StoreOrder
<1>8. Store!PublishBootstrapCatalogs
  BY <1>1, <1>4, <1>5, SameRules DEF Store!PublishBootstrapCatalogs, At
<1>9. QED
  BY <1>1, <1>4, <1>5, <1>7, <1>8 DEF AbstractStep, Store!StoreNext

=============================================================================
