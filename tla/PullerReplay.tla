---------------------------- MODULE PullerReplay ----------------------------
(***************************************************************************)
(* Opening a replay snapshot of the buffer while it is written, flushed    *)
(* and pruned (packages/syntrix/internal/puller/buffer: reader.go,         *)
(* iterator.go).                                                           *)
(*                                                                         *)
(* A snapshot joins an iterator over Pebble with a copy of the queue.  The *)
(* batcher commits without holding mu, so an event may be on both sides or *)
(* move from the queue to disk while the snapshot is taken; what makes the *)
(* join complete is that both halves are taken under one mu.RLock, under   *)
(* which "flushing" cannot be cleared, and the disk half comes first.      *)
(* The iterator then yields the joined keys in order, each key once; the   *)
(* model keeps the set of keys it yields.                                  *)
(***************************************************************************)
EXTENDS PullerBuffer

VARIABLES
    scan,       \* where the reader is
    retained,   \* it holds retentionMu: ScanFromLineage or ScanFromGroup
    from,       \* exclusive lower bound of the keys it yields
    seen        \* the keys it yields

scanVars == <<scan, retained, from, seen>>
vars == <<bufferVars, scanVars>>

TypeOK ==
    /\ BufferTypeOK
    /\ scan \in {"idle", "positioned", "snapped", "open"}
    /\ retained \in BOOLEAN
    /\ from \in Nat
    /\ seen \subseteq Keys

Init ==
    /\ BufferInit
    /\ scan = "idle" /\ retained = FALSE /\ from = NoKey /\ seen = {}

MuFree == scan # "snapped"
RetentionMuFree == ~(retained /\ scan \in {"positioned", "snapped"})

QueuedKeys == {Key[e] : e \in Queued}

\* ScanFrom: the Pebble iterator is created under mu.RLock...
ScanFrom(afterKey) ==
    /\ scan = "idle"
    /\ ~closed
    /\ scan' = "snapped" /\ retained' = FALSE
    /\ from' = afterKey
    /\ seen' = {k \in disk : k > afterKey}
    /\ UNCHANGED bufferVars

\* Mutant: the batch in flight is taken to be on disk already.
MutantJoinQueue ==
    /\ scan = "snapped"
    /\ scan' = "open"
    /\ seen' = seen \cup {k \in {Key[e] : e \in SeqRange(pending)} : k > from}
    /\ UNCHANGED <<bufferVars, retained, from>>

\* ... and the queue is copied before the lock is released.
JoinQueue ==
    /\ scan = "snapped"
    /\ scan' = "open"
    /\ seen' = seen \cup {k \in QueuedKeys : k > from}
    /\ UNCHANGED <<bufferVars, retained, from>>

\* validateHistoryFloor
HistoryRetained(group) == floor = NoKey \/ floor < group

\* ScanFromLineage: the saved position must be known and its whole group
\* unpruned; the scan then starts at the group, not after the position.
ScanFromLineage(afterKey) ==
    LET group == IF afterKey = NoKey THEN NoKey ELSE Group[afterKey]
    IN  /\ scan = "idle"
        /\ cleaner = "idle"
        /\ ~closed
        /\ HistoryRetained(group)
        /\ afterKey \in disk \cup QueuedKeys \cup {NoKey}
        /\ scan' = "positioned" /\ retained' = TRUE
        /\ from' = group
        /\ UNCHANGED <<bufferVars, seen>>

\* ScanFromGroup: an admission floor, which need not be a stored event.
ScanFromGroup(k) ==
    /\ scan = "idle"
    /\ cleaner = "idle"
    /\ ~closed
    /\ HistoryRetained(Group[k])
    /\ scan' = "positioned" /\ retained' = TRUE
    /\ from' = Group[k]
    /\ UNCHANGED <<bufferVars, seen>>

\* The call of ScanFrom inside both; mu was released since the validation.
ScanRetained ==
    /\ scan = "positioned"
    /\ IF closed
       THEN scan' = "idle" /\ retained' = FALSE /\ from' = NoKey /\ UNCHANGED seen
       ELSE /\ scan' = "snapped"
            /\ seen' = {k \in disk : k > from}
            /\ UNCHANGED <<retained, from>>
    /\ UNCHANGED bufferVars

ScanDone ==
    /\ scan = "open"
    /\ scan' = "idle" /\ retained' = FALSE /\ from' = NoKey /\ seen' = {}
    /\ UNCHANGED bufferVars

Reader ==
    \/ \E k \in Keys \cup {NoKey} : ScanFrom(k) \/ ScanFromLineage(k)
    \/ \E k \in Keys : ScanFromGroup(k)
    \/ ScanRetained \/ JoinQueue \/ ScanDone

\* The capture goroutine writes in change-stream order; after a reconnect it
\* may write again what the buffer already holds.
Capture == \E e \in Events : (\A f \in Events : f < e => f \in admitted) /\ Write(e)

\* Steps of the buffer that take mu exclusively, that take retentionMu, and
\* that take neither.
Locked ==
    /\ MuFree
    /\ Capture \/ TakeBatch \/ ClearBatch \/ Close
    /\ UNCHANGED scanVars

Pruning ==
    /\ RetentionMuFree
    /\ PruneExpired \/ PruneBefore \/ DeleteBefore \/ CloseDB
    /\ UNCHANGED scanVars

Unlocked ==
    /\ \/ CommitBatch \/ FailBatch \/ BatcherExit
       \/ PruneCollect \/ PruneCommit \/ PruneFail
    /\ UNCHANGED scanVars

Crash ==
    /\ Restart
    /\ scan' = "idle" /\ retained' = FALSE /\ from' = NoKey /\ seen' = {}

Next == Reader \/ Locked \/ Pruning \/ Unlocked \/ Crash

Spec == Init /\ [][Next]_vars

-----------------------------------------------------------------------------
(* A snapshot is complete: when the queue half joins the disk half, every  *)
(* event the buffer has accepted above the lower bound is in it.  A scan   *)
(* that validated its start under retentionMu misses nothing at all; a     *)
(* plain ScanFrom may miss only what has been pruned (reader.go ScanFrom,  *)
(* ScanFromLineage, ScanFromGroup against writer.go flush and buffer.go    *)
(* deleteBeforeLocked).                                                    *)
ScanComplete ==
    [][scan = "snapped" /\ scan' = "open" =>
        \A e \in admitted :
            Key[e] > from =>
                \/ Key[e] \in seen'
                \/ ~retained /\ Key[e] <= floor]_vars

(* Closing loses nothing: once Close has closed Pebble without a recorded  *)
(* failure, every event that Write accepted is stored, or was stored and   *)
(* pruned (buffer.go Close with writer.go runBatcher).                     *)
CloseDrains == ~dbOpen /\ ~failed => \A e \in admitted : Durable(e)

=============================================================================
