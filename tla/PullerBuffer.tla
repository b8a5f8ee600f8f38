---------------------------- MODULE PullerBuffer ----------------------------
(***************************************************************************)
(* The durable event buffer of one Puller backend                          *)
(* (packages/syntrix/internal/puller/buffer: buffer.go, writer.go,         *)
(* cleaner.go).                                                            *)
(*                                                                         *)
(* Write admits an event to an in-memory queue.  One batcher goroutine     *)
(* moves the oldest requests to "flushing", commits them together with     *)
(* the resume token of the last one in a single Pebble batch, and only     *)
(* then clears "flushing".  The cleaner prunes old events under            *)
(* retentionMu, which the batcher does not take, and records the greatest  *)
(* pruned key as the history floor in the batch that deletes.              *)
(*                                                                         *)
(* A buffer key is the fixed-width text of the cluster time followed by    *)
(* the event ID.  Only the order of keys and of cluster-time prefixes      *)
(* matters here, so both are naturals: Group[k] is the prefix of key k,    *)
(* below every key of its group and above every key of an older group.     *)
(* The empty string is 0.  An event stands for its own resume token.       *)
(***************************************************************************)
EXTENDS Integers, Sequences, FiniteSets

CONSTANTS
    Events,      \* source events, named by their position in the change stream
    Keys,        \* the buffer keys
    Key,         \* Key[e]: BufferKey() of event e
    Group,       \* Group[k]: timestampGroupStart(k)
    BatchSize,   \* Options.BatchSize
    QueueSize    \* Options.QueueSize

ASSUME KeysAssumption ==
    /\ Events \subseteq Nat \ {0}
    /\ Keys \subseteq Nat \ {0}
    /\ Key \in [Events -> Keys]
    /\ Group \in [Keys -> Nat \ {0}]
    /\ \A k \in Keys : Group[k] < k
    /\ \A j, k \in Keys : Group[j] < Group[k] => j < Group[k]

ASSUME SizesAssumption == BatchSize \in Nat \ {0} /\ QueueSize \in Nat \ {0}

NoToken == -1          \* no checkpoint record: LoadCheckpoint returns nil
NoKey == 0             \* the empty key ""
Tokens == Nat \cup {NoToken}

VARIABLES
    disk,        \* keys of the events in Pebble
    checkpoint,  \* the checkpoint record, saved with the events
    floor,       \* the pruning floor record
    pending,     \* b.pending
    flushing,    \* b.flushing
    batcher,     \* where runBatcher is
    closed,      \* b.closed
    failed,      \* b.failure # nil
    dbOpen,      \* the Pebble handle is open
    cleaner,     \* where the holder of retentionMu is in a prune
    limit,       \* its (clamped) beforeKey
    victims,     \* the keys its delete batch holds
    admitted     \* history: events accepted by Write that this process,
                 \* or an earlier one, has not lost in a crash

bufferVars == <<disk, checkpoint, floor, pending, flushing, batcher, closed,
                failed, dbOpen, cleaner, limit, victims, admitted>>

SeqRange(s) == {s[i] : i \in 1 .. Len(s)}
Queued == SeqRange(flushing) \cup SeqRange(pending)

\* The event is on disk, or was and has been pruned below the floor.
Durable(e) == Key[e] \in disk \/ Key[e] <= floor

BufferFlags == closed \in BOOLEAN /\ failed \in BOOLEAN /\ dbOpen \in BOOLEAN

BufferData ==
    /\ disk \subseteq Keys
    /\ checkpoint \in Tokens
    /\ floor \in Nat
    /\ pending \in Seq(Events)
    /\ flushing \in Seq(Events)
    /\ Len(pending) + Len(flushing) <= QueueSize
    /\ batcher \in {"idle", "taken", "committed", "failing", "done"}
    /\ cleaner \in {"idle", "clamped", "collected"}
    /\ limit \in Nat
    /\ victims \subseteq Keys
    /\ admitted \subseteq Events

BufferTypeOK == BufferFlags /\ BufferData

BufferInit ==
    /\ disk = {}
    /\ checkpoint = NoToken
    /\ floor = NoKey
    /\ pending = <<>> /\ flushing = <<>>
    /\ batcher = "idle"
    /\ closed = FALSE /\ failed = FALSE /\ dbOpen = TRUE
    /\ cleaner = "idle" /\ limit = NoKey /\ victims = {}
    /\ admitted = {}

-----------------------------------------------------------------------------
(* writer.go *)

MutantHasCapacity == Len(pending) + Len(flushing) <= QueueSize

HasCapacity == Len(pending) + Len(flushing) < QueueSize

\* Write: refused when closed; blocks, releasing mu, while the queue is full.
Write(e) ==
    /\ ~closed
    /\ HasCapacity
    /\ pending' = Append(pending, e)
    /\ admitted' = admitted \cup {e}
    /\ UNCHANGED <<disk, checkpoint, floor, flushing, batcher, closed, failed,
                   dbOpen, cleaner, limit, victims>>

\* Mutant: the batcher stops flushing as soon as the buffer is closed.
MutantTakeBatch ==
    /\ batcher = "idle" /\ ~closed
    /\ pending # <<>>
    /\ flushing' = <<Head(pending)>> /\ pending' = Tail(pending)
    /\ batcher' = "taken"
    /\ UNCHANGED <<disk, checkpoint, floor, closed, failed, dbOpen, cleaner,
                   limit, victims, admitted>>

\* The head of flush(): the oldest requests move to flushing, still readable.
\* The ticker may fire at any time, so a non-empty queue may always be taken.
TakeBatch ==
    /\ batcher = "idle"
    /\ pending # <<>>
    /\ LET count == IF Len(pending) < BatchSize THEN Len(pending) ELSE BatchSize
       IN  /\ flushing' = SubSeq(pending, 1, count)
           /\ pending' = SubSeq(pending, count + 1, Len(pending))
    /\ batcher' = "taken"
    /\ UNCHANGED <<disk, checkpoint, floor, closed, failed, dbOpen, cleaner,
                   limit, victims, admitted>>

PersistBatch ==
    /\ disk' = disk \cup {Key[e] : e \in SeqRange(flushing)}
    /\ checkpoint' = flushing[Len(flushing)]

\* The Pebble batch: every event and the last resume token, atomically.
CommitBatch ==
    /\ batcher = "taken"
    /\ PersistBatch
    /\ batcher' = "committed"
    /\ UNCHANGED <<floor, pending, flushing, closed, failed, dbOpen, cleaner,
                   limit, victims, admitted>>

\* Set or Commit fails and nothing is stored; or Commit succeeds and only the
\* Close of the batch fails, which flush() reports as a failure as well.
FailBatch ==
    /\ batcher = "taken"
    /\ PersistBatch \/ UNCHANGED <<disk, checkpoint>>
    /\ batcher' = "failing"
    /\ UNCHANGED <<floor, pending, flushing, closed, failed, dbOpen, cleaner,
                   limit, victims, admitted>>

\* Mutant: a failed batch ends the batcher, but the buffer stays open.
MutantClearBatchStaysOpen ==
    /\ batcher \in {"committed", "failing"}
    /\ flushing' = <<>>
    /\ failed' = (failed \/ batcher = "failing")
    /\ batcher' = IF batcher = "failing" THEN "done" ELSE "idle"
    /\ UNCHANGED <<disk, checkpoint, floor, pending, closed, dbOpen, cleaner,
                   limit, victims, admitted>>

\* The tail of flush(), under mu.
ClearBatch ==
    /\ batcher \in {"committed", "failing"}
    /\ flushing' = <<>>
    /\ IF batcher = "failing"
       THEN failed' = TRUE /\ closed' = TRUE /\ batcher' = "done"
       ELSE batcher' = "idle" /\ UNCHANGED <<failed, closed>>
    /\ UNCHANGED <<disk, checkpoint, floor, pending, dbOpen, cleaner, limit,
                   victims, admitted>>

\* Mutant: the batcher leaves its loop when closed, whatever is queued.
MutantBatcherExit ==
    /\ batcher = "idle" /\ closed
    /\ batcher' = "done"
    /\ UNCHANGED <<disk, checkpoint, floor, pending, flushing, closed, failed,
                   dbOpen, cleaner, limit, victims, admitted>>

\* The batcher leaves its loop only when closed with nothing left to flush.
BatcherExit ==
    /\ batcher = "idle"
    /\ closed
    /\ pending = <<>>
    /\ batcher' = "done"
    /\ UNCHANGED <<disk, checkpoint, floor, pending, flushing, closed, failed,
                   dbOpen, cleaner, limit, victims, admitted>>

-----------------------------------------------------------------------------
(* buffer.go *)

\* Mutant: the token is saved whatever is queued.
MutantSaveCheckpoint(t) ==
    /\ ~closed
    /\ checkpoint' = t
    /\ UNCHANGED <<disk, floor, pending, flushing, batcher, closed, failed,
                   dbOpen, cleaner, limit, victims, admitted>>

\* SaveCheckpoint refuses while events are queued: a token without its events
\* must not overtake them.
SaveCheckpoint(t) ==
    /\ ~closed
    /\ pending = <<>> /\ flushing = <<>>
    /\ checkpoint' = t
    /\ UNCHANGED <<disk, floor, pending, flushing, batcher, closed, failed,
                   dbOpen, cleaner, limit, victims, admitted>>

\* Mutant: the caller's key is used as it is.
MutantPruneClamp(before, age) ==
    /\ ~closed
    /\ cleaner = "idle"
    /\ limit' = before
    /\ cleaner' = "clamped"
    /\ UNCHANGED <<disk, checkpoint, floor, pending, flushing, batcher,
                   closed, failed, dbOpen, victims, admitted>>

\* pruneBefore holds retentionMu.  It clamps the caller's key to the newest
\* persisted group (capacity), or to the newest persisted group before the
\* cutoff (age), and returns without deleting when there is no such group.
PruneClamp(before, age) ==
    LET candidates == IF age THEN {k \in disk : k < before} ELSE disk
    IN  /\ ~closed
        /\ cleaner = "idle"
        /\ \E newest \in candidates :
              /\ \A k \in candidates : k <= newest
              /\ limit' = IF Group[newest] < before THEN Group[newest] ELSE before
        /\ cleaner' = "clamped"
        /\ UNCHANGED <<disk, checkpoint, floor, pending, flushing, batcher,
                       closed, failed, dbOpen, victims, admitted>>

\* cleanup() calls PruneExpired with a cutoff that starts a cluster second.
PruneExpired ==
    \E cutoff \in {Group[k] : k \in Keys} \cup {k + 1 : k \in disk} :
        PruneClamp(cutoff, TRUE)

\* cleanup() calls PruneBefore with the successor of some scanned key, which
\* may still be queued.
PruneBefore ==
    \E k \in disk \cup {Key[e] : e \in Queued} : PruneClamp(k + 1, FALSE)

\* DeleteBefore enters deleteBeforeLocked without the clamp.
DeleteBefore ==
    /\ ~closed
    /\ cleaner = "idle"
    /\ \E k \in Keys : limit' = k + 1
    /\ cleaner' = "clamped"
    /\ UNCHANGED <<disk, checkpoint, floor, pending, flushing, batcher,
                   closed, failed, dbOpen, victims, admitted>>

\* deleteBeforeLocked fills its batch from a second iterator, so that it also
\* sees what the batcher has committed since the clamp.
PruneCollect ==
    /\ cleaner = "clamped"
    /\ LET found == {k \in disk : k < limit}
       IN  IF closed \/ found = {}
           THEN cleaner' = "idle" /\ limit' = NoKey /\ UNCHANGED victims
           ELSE cleaner' = "collected" /\ victims' = found /\ UNCHANGED limit
    /\ UNCHANGED <<disk, checkpoint, floor, pending, flushing, batcher, closed,
                   failed, dbOpen, admitted>>

\* The deletions and the advanced floor are one Pebble batch.
PruneCommit ==
    /\ cleaner = "collected"
    /\ disk' = disk \ victims
    /\ \E last \in victims :
          /\ \A k \in victims : k <= last
          /\ floor' = IF last <= floor THEN floor ELSE last
    /\ cleaner' = "idle"
    /\ victims' = {} /\ limit' = NoKey
    /\ UNCHANGED <<checkpoint, pending, flushing, batcher, closed, failed,
                   dbOpen, admitted>>

\* The batch of deletions fails: nothing is deleted and the floor stays.
PruneFail ==
    /\ cleaner = "collected"
    /\ cleaner' = "idle"
    /\ victims' = {} /\ limit' = NoKey
    /\ UNCHANGED <<disk, checkpoint, floor, pending, flushing, batcher, closed,
                   failed, dbOpen, admitted>>

\* Close refuses later writes, then waits for the batcher...
Close ==
    /\ ~closed
    /\ closed' = TRUE
    /\ UNCHANGED <<disk, checkpoint, floor, pending, flushing, batcher, failed,
                   dbOpen, cleaner, limit, victims, admitted>>

\* ... and for retentionMu, and closes Pebble.
CloseDB ==
    /\ closed /\ dbOpen
    /\ batcher = "done"
    /\ cleaner = "idle"
    /\ dbOpen' = FALSE
    /\ UNCHANGED <<disk, checkpoint, floor, pending, flushing, batcher, closed,
                   failed, cleaner, limit, victims, admitted>>

\* The process stops, at any point or after CloseDB, and New opens the same
\* directory again: only the Pebble records survive.
Restart ==
    /\ pending' = <<>> /\ flushing' = <<>>
    /\ batcher' = "idle"
    /\ closed' = FALSE /\ failed' = FALSE /\ dbOpen' = TRUE
    /\ cleaner' = "idle" /\ limit' = NoKey /\ victims' = {}
    /\ admitted' = {e \in admitted : Durable(e)}
    /\ UNCHANGED <<disk, checkpoint, floor>>

Batcher == TakeBatch \/ CommitBatch \/ FailBatch \/ ClearBatch \/ BatcherExit
Cleaner == PruneExpired \/ PruneBefore \/ PruneCollect \/ PruneCommit \/ PruneFail
=============================================================================
