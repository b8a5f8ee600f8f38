----------------------------- MODULE PebbleStore -----------------------------
(***************************************************************************)
(* The persistent index store (indexer/persist_store). Replacements and    *)
(* the progress marker collect in memory; a batcher takes them under mu,   *)
(* commits them to Pebble outside mu, and clears them under mu again.      *)
(* Catalogs, failures and retirements are committed before their call      *)
(* returns. A commit that fails sets flushErr, which nothing resets.       *)
(*                                                                         *)
(* flushMu is held exactly while flushPc # "idle"; mu excludes every other *)
(* action of this module. The older per-pattern postings (Upsert, Delete,  *)
(* Search, DeleteIndex) and generations published one at a time have no    *)
(* production caller and are left out.                                     *)
(***************************************************************************)
EXTENDS IndexShapes

VARIABLES
  disk,                \* Pebble: postings, keyProgress, v2/partition/ keys
  meta,                \* Pebble: v2/catalog/, v2/generation/, retired keys
  projectionPending,   \* cells waiting for a batch, with their new postings
  pendingProgress,     \* marker waiting for a batch, 0 if none
  projectionFlushing,  \* cells of the batch being committed
  flushingProgress,    \* its marker
  flushPc,             \* where the batcher is: "idle", "taken", "committed"
  flushErr,            \* some commit has failed
  storeState           \* "none", "open", "closing", "closed"

queueVars == <<projectionPending, pendingProgress, projectionFlushing, flushingProgress>>
pebbleVars == <<disk, meta, queueVars, flushPc, flushErr, storeState>>

-----------------------------------------------------------------------------

Nothing == [c \in {} |-> 0]

\* The batch in flight over the disk: what a commit leaves.
Flushed == Replaced(disk, projectionFlushing, flushingProgress)

\* ReadView, LoadProgress and ListQueryIndexes: pending over flushing over disk.
View == Replaced(Flushed, projectionPending, pendingProgress)

LoadProgress == View.progress

HasPending ==
  \/ DOMAIN projectionPending # {} \/ DOMAIN projectionFlushing # {}
  \/ pendingProgress # 0 \/ flushingProgress # 0

writeError == flushErr \/ storeState # "open"

-----------------------------------------------------------------------------
(* Writes.                                                                 *)

\* Replace the postings of some cells, with an optional progress marker.
ApplyDocumentProjection(ops, progress) ==
  /\ ~writeError
  /\ projectionPending' =
       [c \in DOMAIN projectionPending \cup DOMAIN ops |->
          IF c \in DOMAIN ops THEN ops[c] ELSE projectionPending[c]]
  /\ pendingProgress' = IF progress # 0 THEN progress ELSE pendingProgress
  /\ UNCHANGED <<disk, meta, projectionFlushing, flushingProgress, flushPc,
                 flushErr, storeState>>

MutantDeleteDatabase(d) ==
  /\ ~writeError
  /\ flushPc = "idle"
  /\ disk' = Purged(disk, d)
  /\ meta' = Retired(meta, d)
  /\ UNCHANGED <<queueVars, flushPc, flushErr, storeState>>

\* Under flushMu and mu: the keys of the database go in one batch, then its
\* pending replacements. The pending marker stays.
DeleteDatabase(d) ==
  /\ ~writeError
  /\ flushPc = "idle"
  /\ disk' = Purged(disk, d)
  /\ meta' = Retired(meta, d)
  /\ projectionPending' =
       [c \in {c \in DOMAIN projectionPending : DocDb[c[2]] # d} |-> projectionPending[c]]
  /\ UNCHANGED <<pendingProgress, projectionFlushing, flushingProgress, flushPc,
                 flushErr, storeState>>

\* Under mu only, so it may fall between a batch's commit and its clearing.
SetFailure(r) ==
  /\ ~writeError
  /\ \/ /\ Recorded(meta, r)
        /\ meta' = Failed(meta, r)
        /\ disk' = [disk EXCEPT !.parts = @ \cup {r}]
     \/ ~Recorded(meta, r) /\ UNCHANGED <<meta, disk>>
  /\ UNCHANGED <<queueVars, flushPc, flushErr, storeState>>

\* Everything pending, the catalogs and the boundary in one commit under mu.
\* The boundary replaces any pending marker.
PublishBootstrapCatalogs(dbs, g, boundary) ==
  /\ ~writeError
  /\ flushPc = "idle"
  /\ disk' = Replaced(disk, projectionPending, boundary)
  /\ meta' = Published(meta, dbs, g, boundary)
  /\ projectionPending' = Nothing /\ pendingProgress' = 0
  /\ UNCHANGED <<projectionFlushing, flushingProgress, flushPc, flushErr, storeState>>

\* A synchronous commit fails: the call returns its error.
WriteFails ==
  /\ ~writeError
  /\ flushErr' = TRUE
  /\ UNCHANGED <<disk, meta, queueVars, flushPc, storeState>>

-----------------------------------------------------------------------------
(* The batcher: flushLocked without a publication.                         *)

FlushTake ==
  /\ storeState \in {"open", "closing"}
  /\ flushPc = "idle" /\ ~flushErr /\ HasPending
  /\ projectionFlushing' = projectionPending /\ projectionPending' = Nothing
  /\ flushingProgress' = pendingProgress /\ pendingProgress' = 0
  /\ flushPc' = "taken"
  /\ UNCHANGED <<disk, meta, flushErr, storeState>>

MutantFlushCommit ==
  /\ flushPc = "taken"
  /\ disk' = [Flushed EXCEPT !.progress = LoadProgress]
  /\ flushPc' = "committed"
  /\ UNCHANGED <<meta, queueVars, flushErr, storeState>>

FlushCommit ==
  /\ flushPc = "taken"
  /\ disk' = Flushed
  /\ flushPc' = "committed"
  /\ UNCHANGED <<meta, queueVars, flushErr, storeState>>

\* The batch stays as an overlay, whether or not Pebble kept it.
FlushFail ==
  /\ flushPc = "taken"
  /\ disk' \in {disk, Flushed}
  /\ flushPc' = "idle" /\ flushErr' = TRUE
  /\ UNCHANGED <<meta, queueVars, storeState>>

FlushClear ==
  /\ flushPc = "committed"
  /\ projectionFlushing' = Nothing /\ flushingProgress' = 0
  /\ flushPc' = "idle"
  /\ UNCHANGED <<disk, meta, projectionPending, pendingProgress, flushErr, storeState>>

-----------------------------------------------------------------------------

CloseStore ==
  /\ storeState = "open"
  /\ storeState' = "closing"
  /\ UNCHANGED <<disk, meta, queueVars, flushPc, flushErr>>

\* The batcher returns after a last flush and the database is closed. The queue
\* is forgotten with the process.
CloseDB ==
  /\ storeState = "closing" /\ flushPc = "idle"
  /\ flushErr \/ ~HasPending
  /\ storeState' = "closed"
  /\ UNCHANGED <<disk, meta, queueVars, flushPc, flushErr>>

\* NewPebbleStore on what the last process left.
OpenStore ==
  /\ storeState = "none"
  /\ storeState' = "open"
  /\ UNCHANGED <<disk, meta, queueVars, flushPc, flushErr>>

\* The process ends, whatever it was doing.
LoseStore ==
  /\ projectionPending' = Nothing /\ pendingProgress' = 0
  /\ projectionFlushing' = Nothing /\ flushingProgress' = 0
  /\ flushPc' = "idle" /\ flushErr' = FALSE /\ storeState' = "none"
  /\ UNCHANGED <<disk, meta>>

\* An operator archives the directory; the next process creates a new one.
ArchiveStore ==
  /\ storeState = "none"
  /\ disk' = EmptyData /\ meta' = EmptyMeta
  /\ UNCHANGED <<queueVars, flushPc, flushErr, storeState>>

PebbleInit ==
  /\ disk = EmptyData /\ meta = EmptyMeta
  /\ projectionPending = Nothing /\ pendingProgress = 0
  /\ projectionFlushing = Nothing /\ flushingProgress = 0
  /\ flushPc = "idle" /\ flushErr = FALSE /\ storeState = "none"

Batcher == FlushTake \/ FlushCommit \/ FlushFail \/ FlushClear \/ CloseDB

-----------------------------------------------------------------------------

\* The abstract store: readers see pending over flushing over disk, a crash
\* leaves the disk, and a batch is being saved until its commit.
Store == INSTANCE IndexStore WITH
  data <- View, saved <- disk, meta <- meta,
  snap <- IF flushPc = "taken" THEN {Flushed} ELSE {}

\* The persistent store implements the abstract one: replacements become
\* visible at once and durable later, a batch as a whole, with its progress.
StoreContract == Store!StoreSpec

=============================================================================
