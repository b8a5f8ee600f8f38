---------------------------- MODULE PullerCapture ---------------------------
(***************************************************************************)
(* Capturing one MongoDB change stream into the event buffer               *)
(* (packages/syntrix/internal/puller/core: puller.go runBackend,           *)
(* watchChangeStream, Stop; boundary.go capture state; recovery.go).       *)
(*                                                                         *)
(* The capture goroutine loads the durable checkpoint, opens the stream    *)
(* after it (or, with no checkpoint, at the configured start), and writes  *)
(* every event with its resume token to the buffer before it broadcasts    *)
(* it.  The first empty poll proves that the stream has caught up: the     *)
(* buffer is flushed, the stream's resume token saved, and capture is      *)
(* reported active.  A source error closes the stream and the loop starts  *)
(* again from the durable checkpoint, while the buffer may still hold      *)
(* queued events beyond it; a local failure stops the backend for good.    *)
(* The process may crash at any point.                                     *)
(***************************************************************************)
EXTENDS PullerBuffer

CONSTANTS
    Last,            \* number of source events
    FromBeginning    \* Bootstrap.Mode = "from_beginning"

ASSUME CaptureAssumption ==
    /\ Last \in Nat
    /\ Events = 1 .. Last
    /\ FromBeginning \in BOOLEAN

VARIABLES
    src,       \* the source has emitted events 1 .. src
    capture,   \* where the capture goroutine is
    token,     \* the resume token it has loaded
    pos,       \* the last event its stream has returned
    ready,     \* the local of watchChangeStream: boundary saved by this stream
    active,    \* backend.captureActive
    error,     \* class of backend.captureError
    stopping,  \* p.stopping, and the context canceled
    captured,  \* history: events that have been broadcast
    origin     \* history: source position of the last stream opened without
               \* a resume token

captureVars == <<src, capture, token, pos, ready, active, error, stopping,
                 captured, origin>>
vars == <<bufferVars, captureVars>>

Flags ==
    /\ BufferFlags
    /\ ready \in BOOLEAN /\ active \in BOOLEAN /\ stopping \in BOOLEAN

Data ==
    /\ BufferData
    /\ src \in 0 .. Last
    /\ capture \in {"idle", "loaded", "watching", "boundary", "stopped"}
    /\ token \in Tokens
    /\ pos \in 0 .. Last
    /\ error \in {"none", "unavailable", "terminal"}
    /\ captured \subseteq Events
    /\ origin \in 0 .. Last

TypeOK == Flags /\ Data

Init ==
    /\ BufferInit
    /\ src \in 0 .. Last
    /\ capture = "idle" /\ token = NoToken /\ pos = 0
    /\ ready = FALSE /\ active = FALSE /\ error = "none" /\ stopping = FALSE
    /\ captured = {}
    /\ origin = IF FromBeginning THEN 0 ELSE src

SourceWrite ==
    /\ src < Last
    /\ src' = src + 1
    /\ UNCHANGED <<bufferVars, capture, token, pos, ready, active, error,
                   stopping, captured, origin>>

\* setCaptureState(false, ...), from the deferred call of watchChangeStream and
\* from runBackend: retry after the delay, or leave the loop.
Unavailable ==
    /\ capture' = "idle"
    /\ active' = FALSE /\ error' = "unavailable" /\ ready' = FALSE
    /\ UNCHANGED <<src, token, pos, stopping, captured, origin>>

Terminal ==
    /\ capture' = "stopped"
    /\ active' = FALSE /\ error' = "terminal" /\ ready' = FALSE
    /\ UNCHANGED <<src, token, pos, stopping, captured, origin>>

\* The head of watchChangeStream.  A closed buffer, or one that cannot be read,
\* is errCaptureFailed.
LoadCheckpoint ==
    /\ capture = "idle" /\ ~stopping
    /\ \/ Terminal
       \/ /\ ~closed
          /\ token' = checkpoint
          /\ capture' = "loaded"
          /\ UNCHANGED <<src, pos, ready, active, error, stopping, captured, origin>>
    /\ UNCHANGED bufferVars

\* Mutant: an open stream counts as active capture.
MutantOpenStreamActive ==
    /\ capture = "loaded" /\ ~stopping
    /\ pos' = IF token # NoToken THEN token
              ELSE IF FromBeginning THEN 0 ELSE src
    /\ origin' = IF token = NoToken THEN pos' ELSE origin
    /\ capture' = "watching" /\ active' = TRUE
    /\ UNCHANGED <<bufferVars, src, token, ready, error, stopping, captured>>

\* Mutant: without a token the stream starts at the present.
MutantOpenStreamNow ==
    /\ capture = "loaded" /\ ~stopping
    /\ pos' = IF token # NoToken THEN token ELSE src
    /\ origin' = IF token = NoToken THEN pos' ELSE origin
    /\ capture' = "watching"
    /\ UNCHANGED <<bufferVars, src, token, ready, active, error, stopping, captured>>

\* openStream: ResumeAfter(token), or from_beginning, or from now.
OpenStream ==
    /\ capture = "loaded" /\ ~stopping
    /\ pos' = IF token # NoToken THEN token
              ELSE IF FromBeginning THEN 0 ELSE src
    /\ origin' = IF token = NoToken THEN pos' ELSE origin
    /\ capture' = "watching"
    /\ UNCHANGED <<bufferVars, src, token, ready, active, error, stopping, captured>>

\* The stream hands over the next event: Write, then Broadcast.
Receive ==
    /\ capture = "watching"
    /\ pos < src
    /\ Write(pos + 1)
    /\ pos' = pos + 1
    /\ captured' = captured \cup {pos + 1}
    /\ UNCHANGED <<src, capture, token, ready, active, error, stopping, origin>>

\* A poll that returns nothing, on a stream that has not saved its boundary.
EmptyBatch ==
    /\ capture = "watching" /\ ~ready
    /\ pos = src
    /\ capture' = "boundary"
    /\ UNCHANGED <<bufferVars, src, token, pos, ready, active, error, stopping,
                   captured, origin>>

\* Flush has waited for the queue to drain; SaveCheckpoint stores the token of
\* the empty batch; capture becomes active.
SaveBoundary ==
    /\ capture = "boundary"
    /\ SaveCheckpoint(pos)
    /\ capture' = "watching"
    /\ ready' = TRUE /\ active' = TRUE /\ error' = "none"
    /\ UNCHANGED <<src, token, pos, stopping, captured, origin>>

\* A poll deadline, a stream error or a failed open: errors HandleError calls
\* transient or unknown are retried; lost source history, or an unknown error
\* that is the tenth counted, is fatal.  An event that the failing poll has
\* returned is dropped with it.
SourceError ==
    /\ capture \in {"loaded", "watching"}
    /\ Unavailable \/ Terminal
    /\ UNCHANGED bufferVars

\* errCaptureFailed: an event cannot be decoded or normalized, the buffer is
\* closed under a Write or a Flush, or the boundary cannot be saved.
CaptureFailed ==
    /\ \/ capture = "watching" /\ pos < src
       \/ capture = "boundary"
    /\ Terminal
    /\ UNCHANGED bufferVars

\* Stop cancels the context; the goroutine returns from wherever it waits.
Stop ==
    /\ ~stopping
    /\ stopping' = TRUE
    /\ UNCHANGED <<bufferVars, src, capture, token, pos, ready, active, error,
                   captured, origin>>

CaptureExit ==
    /\ stopping /\ capture # "stopped"
    /\ capture' = "stopped"
    /\ active' = FALSE /\ error' = "unavailable" /\ ready' = FALSE
    /\ UNCHANGED <<bufferVars, src, token, pos, stopping, captured, origin>>

\* Stop closes the buffer only after the capture goroutine has returned.
CloseBuffer ==
    /\ stopping /\ capture = "stopped"
    /\ Close \/ CloseDB
    /\ UNCHANGED captureVars

BufferStep == (Batcher \/ Cleaner) /\ UNCHANGED captureVars

Crash ==
    /\ Restart
    /\ capture' = "idle" /\ token' = NoToken /\ pos' = 0
    /\ ready' = FALSE /\ active' = FALSE /\ error' = "none" /\ stopping' = FALSE
    /\ UNCHANGED <<src, captured, origin>>

Next ==
    \/ SourceWrite \/ LoadCheckpoint \/ OpenStream \/ Receive \/ EmptyBatch
    \/ SaveBoundary \/ SourceError \/ CaptureFailed \/ Stop \/ CaptureExit
    \/ CloseBuffer \/ BufferStep \/ Crash

\* The capture and batcher goroutines run whenever they can; the source, its
\* errors, the cleaner, Stop and crashes owe nothing.
Fairness ==
    /\ WF_vars(TakeBatch /\ UNCHANGED captureVars)
    /\ WF_vars((CommitBatch \/ FailBatch) /\ UNCHANGED captureVars)
    /\ WF_vars(ClearBatch /\ UNCHANGED captureVars)
    /\ WF_vars(SaveBoundary \/ (closed /\ CaptureFailed) \/ CaptureExit)

Spec == Init /\ [][Next]_vars /\ Fairness

-----------------------------------------------------------------------------
Retained(e) == Durable(e) \/ e \in Queued

(* The checkpoint never overtakes the events: every source event between   *)
(* the position where capture began and the saved token is on disk, or was *)
(* and has been pruned.  A restart that resumes after the token therefore  *)
(* skips nothing, whatever was queued, re-read, half flushed or pruned     *)
(* when the process died (writer.go flush, buffer.go SaveCheckpoint,       *)
(* puller.go watchChangeStream).                                           *)
CheckpointCovered == \A e \in Events : origin < e /\ e <= checkpoint => Durable(e)

(* Admission means recaptured: while capture is reported active, every     *)
(* event that was ever broadcast, also by an earlier incarnation that      *)
(* crashed before storing it, is back in the buffer or has been pruned, so *)
(* a consumer that received it can have its position validated             *)
(* (boundary.go Readiness and ValidateBoundary, reader.go                  *)
(* validatePosition).                                                      *)
ActiveMeansRecaptured ==
    active /\ ~closed => \A e \in captured : origin < e => Retained(e)

(* Scheduled cleanup never makes the head unresumable: whatever is pruned  *)
(* by age or capacity, between whichever batches, the group of the newest  *)
(* stored event stays above the history floor, so an idle consumer that    *)
(* has read everything can always resume (buffer.go pruneBefore).          *)
HeadReplayable ==
    \A k \in disk : (\A j \in disk : j <= k) => floor < Group[k]

(* The stored history has no hole: an event between two stored events is   *)
(* stored too, or pruned (puller.go watchChangeStream).                    *)
NoHistoryGap ==
    \A a, b, c \in Events :
        a < b /\ b < c /\ Key[a] \in disk /\ Key[c] \in disk => Durable(b)

(* A capture that waits for the buffer to drain does not wait for ever:    *)
(* it becomes active, fails or is restarted (buffer Flush against the      *)
(* batcher and the queue bound).                                           *)
BoundarySettles == capture = "boundary" ~> capture # "boundary"

-----------------------------------------------------------------------------
(* The strengthenings that every step preserves.  DataInv is inductive by   *)
(* itself; the other two are inductive together with it.                    *)

\* A batch is held exactly while the batcher is inside flush(), and no token
\* lies beyond the source.
DataInv ==
    /\ Data
    /\ flushing = <<>> <=> batcher \in {"idle", "done"}
    /\ checkpoint <= Last /\ token <= Last
    /\ origin <= src
    /\ FromBeginning => origin = 0

\* Every event after the origin up to e satisfies what the argument names.
CoveredBy(e, S) == \A f \in Events : origin < f /\ f <= e => Durable(f) \/ f \in S

Prefix(s, i) == {s[j] : j \in 1 .. i}

\* The requests queue in stream order: whatever precedes a queued event is
\* durable or ahead of it in the queue.
QueueCovered ==
    /\ ~failed => \A i \in 1 .. Len(pending) :
            CoveredBy(pending[i], SeqRange(flushing) \cup Prefix(pending, i))
    /\ batcher = "taken" =>
            CoveredBy(flushing[Len(flushing)], SeqRange(flushing))

\* What the batcher has already stored, and what a failure leaves behind.
BatcherInv ==
    /\ batcher = "committed" => \A e \in SeqRange(flushing) : Durable(e)
    /\ failed => closed /\ batcher = "done"

\* The stream's position, and the token it will be opened with, are covered.
StreamCovered ==
    /\ capture \in {"watching", "boundary"} /\ ~closed => CoveredBy(pos, Queued)
    /\ capture = "loaded" => CoveredBy(token, {})

\* An active capture has read past everything that was ever broadcast.
CaughtUp ==
    /\ captured \subseteq 1 .. src
    /\ active => ready /\ capture = "watching"
    /\ active \/ capture = "boundary" => \A e \in captured : e <= pos

CaptureInv ==
    /\ BatcherInv /\ CheckpointCovered /\ QueueCovered
    /\ StreamCovered /\ CaughtUp

\* The strengthening of HeadReplayable: some stored group lies above the floor,
\* and whatever a prune in progress will delete lies below a stored group.
HeadInv ==
    /\ disk = {} => floor = NoKey
    /\ disk # {} => \E k \in disk : floor < Group[k]
    /\ cleaner # "idle" => \E k \in disk : limit <= Group[k]
    /\ cleaner # "collected" => victims = {}
    /\ \A v \in victims : v < limit

(* An accepted event is eventually stored, unless its batch fails or the   *)
(* process crashes first, whatever pruning, checkpoints and reconnects run *)
(* beside the batcher (writer.go runBatcher).                              *)
AcceptedBecomesDurable ==
    \A e \in Events :
        e \in Queued ~> (Durable(e) \/ failed \/ e \notin admitted)
=============================================================================
