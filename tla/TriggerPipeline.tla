----------------------------- MODULE TriggerPipeline -----------------------------
(***************************************************************************)
(* The trigger evaluator of internal/trigger/evaluator (the watcher over   *)
(* the Puller, the evaluation loop and the checkpoint saver) composed with *)
(* the delivery pool, in the standalone server, which runs both over the   *)
(* in-memory broker and starts and stops them together.                    *)
(*                                                                         *)
(* Events are numbered in the order of the Puller; an event's number is    *)
(* its progress token.  Match[e] is the sequence of rules the event        *)
(* matches, in the order of the rules.  The Puller delivers every event    *)
(* after the token in order (PullerSubscription).                          *)
(***************************************************************************)
EXTENDS TriggerDelivery

CONSTANTS
    Last,           \* the last event of the source
    Match,          \* [1..Last -> Seq(rules)]
    Skipped,        \* checkpoint writes and ignored deletes: not sent on
    Empty,          \* events without a document and without a before image
    StartFromNow

Events == 1 .. Last

Task(e, i) == <<e, Match[e][i]>>

ASSUME PipelineAssumption ==
    /\ Last \in Nat
    /\ Skipped \subseteq Events /\ Empty \subseteq Events
    /\ \A e \in Events : Len(Match[e]) \in Nat
    /\ \A e \in Events : \A i \in 1 .. Len(Match[e]) : Task(e, i) \in Tasks
    /\ StartFromNow \in BOOLEAN

VARIABLES
    emitted,    \* what the source holds
    saved,      \* the checkpoint document, 0 if there is none
    base,       \* ghost: where the run without a checkpoint began
    published,  \* ghost: tasks whose publication reported success, ever
    stopping,   \* the server's lifecycle context is cancelled
    eval,       \* "off", "run", "ending" or "done"
    evalDone,   \* the evaluator's context is done
    source,     \* "open", or "failed" after w.fail
    read,       \* the last event the watcher received
    out,        \* the event the watcher offers, or 0
    awaiting,   \* the watcher holds a ready marker in waitAcknowledged
    delivered,  \* of the watcher
    acknowledged,
    ready,      \* the admission status has observed a ready marker
    cur,        \* the event in processEvent, or 0
    next,       \* the index of its next rule
    latest,     \* latestProgress
    notify,     \* checkpointNotify holds a token
    saving      \* the progress being saved, or 0

sourceVars == <<emitted, saved, base, published>>
watchVars  == <<source, read, out, awaiting, delivered, acknowledged, ready>>
loopVars   == <<cur, next, latest, notify, saving>>
evalVars   == <<stopping, eval, evalDone, watchVars, loopVars>>
vars       == <<brokerVars, poolVars, sourceVars, evalVars>>

(* The messages, channels and the evaluator's state have the types of the  *)
(* code's, and at most two delivered events are not yet acknowledged: the  *)
(* one in processEvent and the one offered on the unbuffered channel.      *)
TypeOK ==
    /\ BrokerTypeOK /\ PoolTypeOK
    /\ {emitted, saved, base, read, out, cur, latest, saving} \subseteq 0 .. Last
    /\ published \subseteq Tasks
    /\ {stopping, evalDone, awaiting, ready, notify} \subseteq BOOLEAN
    /\ eval \in {"off", "run", "ending", "done"}
    /\ source \in {"open", "failed"}
    /\ delivered \in Nat /\ acknowledged \in Nat
    /\ acknowledged <= delivered /\ delivered <= acknowledged + 2

EvalInit ==
    /\ stopping = FALSE
    /\ eval = "off" /\ evalDone = FALSE
    /\ source = "open" /\ read = 0 /\ out = 0 /\ awaiting = FALSE
    /\ delivered = 0 /\ acknowledged = 0 /\ ready = FALSE
    /\ cur = 0 /\ next = 1 /\ latest = 0 /\ notify = FALSE /\ saving = 0

Init ==
    /\ BrokerInit /\ PoolInit /\ EvalInit
    /\ emitted \in 0 .. Last
    /\ saved = 0 /\ base = 0 /\ published = {}

-----------------------------------------------------------------------------
Emit ==
    /\ emitted < Last
    /\ emitted' = emitted + 1
    /\ UNCHANGED <<brokerVars, poolVars, saved, base, published, evalVars>>

(* Watch loads the checkpoint and subscribes after it.  Without one the    *)
(* subscription begins at the present, if that is allowed.                 *)
Watch ==
    /\ eval = "off" /\ ~evalDone
    /\ \/ saved # 0 /\ read' = saved /\ UNCHANGED base
       \/ saved = 0 /\ StartFromNow /\ read' = emitted /\ base' = emitted
    /\ eval' = "run"
    /\ UNCHANGED <<brokerVars, poolVars, emitted, saved, published, stopping,
                   evalDone, source, out, awaiting, delivered, acknowledged,
                   ready, loopVars>>

(* The checkpoint cannot be loaded, is missing, or the context is done.    *)
(* The manager cancels the lifecycle when a role fails.                    *)
WatchFails ==
    /\ eval = "off"
    /\ eval' = "done"
    /\ stopping' = TRUE
    /\ UNCHANGED <<brokerVars, poolVars, sourceVars, evalDone, watchVars, loopVars>>

-----------------------------------------------------------------------------
(* The watcher's goroutine.                                                *)

Watching == eval = "run" /\ source = "open" /\ out = 0 /\ ~awaiting

WatchEvent ==
    /\ Watching /\ read < emitted
    /\ read' = read + 1
    /\ IF read' \in Skipped
       THEN UNCHANGED <<out, delivered>>
       ELSE out' = read' /\ delivered' = delivered + 1
    /\ UNCHANGED <<brokerVars, poolVars, sourceVars, stopping, eval, evalDone,
                   source, awaiting, acknowledged, ready, loopVars>>

WatchReady ==
    /\ Watching /\ read = emitted
    /\ awaiting' = TRUE
    /\ UNCHANGED <<brokerVars, poolVars, sourceVars, stopping, eval, evalDone,
                   source, read, out, delivered, acknowledged, ready, loopVars>>

MutantObserveReady ==
    /\ eval = "run" /\ source = "open" /\ awaiting
    /\ awaiting' = FALSE
    /\ ready' = TRUE
    /\ UNCHANGED <<brokerVars, poolVars, sourceVars, stopping, eval, evalDone,
                   source, read, out, delivered, acknowledged, loopVars>>

ObserveReady ==
    /\ eval = "run" /\ source = "open" /\ awaiting
    /\ acknowledged >= delivered
    /\ awaiting' = FALSE
    /\ ready' = TRUE
    /\ UNCHANGED <<brokerVars, poolVars, sourceVars, stopping, eval, evalDone,
                   source, read, out, delivered, acknowledged, loopVars>>

(* The subscription ends with an error, or an event cannot be transformed: *)
(* w.fail cancels the watcher, and an event it still offers is lost to     *)
(* this process.                                                           *)
SourceFails ==
    /\ eval = "run" /\ source = "open"
    /\ source' = "failed"
    /\ out' = 0
    /\ ready' = FALSE
    /\ UNCHANGED <<brokerVars, poolVars, sourceVars, stopping, eval, evalDone,
                   read, awaiting, delivered, acknowledged, loopVars>>

(* Acknowledge.  The loop acknowledges the sequence numbers one by one, in *)
(* the order in which the watcher assigned them.                           *)
Acknowledge ==
    acknowledged' = acknowledged + 1

-----------------------------------------------------------------------------
(* The loop of Start and processEvent.                                     *)

TakeEvent ==
    /\ eval = "run" /\ cur = 0 /\ out # 0
    /\ out' = 0
    /\ IF out \in Empty
       THEN Acknowledge /\ UNCHANGED <<cur, next>>
       ELSE cur' = out /\ next' = 1 /\ UNCHANGED acknowledged
    /\ UNCHANGED <<brokerVars, poolVars, sourceVars, stopping, eval, evalDone,
                   source, read, awaiting, delivered, ready, latest, notify,
                   saving>>

(* One rule: a failing evaluation or publication is retried, and changes   *)
(* nothing until it succeeds.                                              *)
PublishTask ==
    /\ eval = "run" /\ cur # 0 /\ next <= Len(Match[cur])
    /\ Publish(Task(cur, next))
    /\ published' = published \cup {Task(cur, next)}
    /\ next' = next + 1
    /\ UNCHANGED <<poolVars, emitted, saved, base, stopping, eval, evalDone,
                   watchVars, cur, latest, notify, saving>>

MutantFinishEvent ==
    /\ eval = "run" /\ cur # 0
    /\ ~evalDone
    /\ Acknowledge
    /\ latest' = cur
    /\ notify' = TRUE
    /\ cur' = 0
    /\ UNCHANGED <<brokerVars, poolVars, sourceVars, stopping, eval, evalDone,
                   source, read, out, awaiting, delivered, ready, next, saving>>

(* All rules are done and the context is not: the event is acknowledged    *)
(* and its progress offered to the saver.                                  *)
FinishEvent ==
    /\ eval = "run" /\ cur # 0 /\ next > Len(Match[cur])
    /\ ~evalDone
    /\ Acknowledge
    /\ latest' = cur
    /\ notify' = TRUE
    /\ cur' = 0
    /\ UNCHANGED <<brokerVars, poolVars, sourceVars, stopping, eval, evalDone,
                   source, read, out, awaiting, delivered, ready, next, saving>>

(* Start returns: its context is done, or the watcher's channel is closed  *)
(* (after the current event; a failed role stops the server).  What the    *)
(* watcher and the loop held is gone with them.                            *)
LeaveLoop ==
    /\ eval = "run"
    /\ \/ evalDone /\ UNCHANGED stopping
       \/ source = "failed" /\ cur = 0 /\ stopping' = TRUE
    /\ eval' = "ending"
    /\ source' = "open" /\ read' = 0 /\ out' = 0 /\ awaiting' = FALSE
    /\ delivered' = 0 /\ acknowledged' = 0 /\ ready' = FALSE
    /\ cur' = 0 /\ next' = 1 /\ notify' = FALSE
    /\ UNCHANGED <<brokerVars, poolVars, sourceVars, evalDone, latest, saving>>

-----------------------------------------------------------------------------
(* checkpointSaver.  When the loop has been left its context is done; the  *)
(* final save, and any other that begins then, is refused by the store.  A *)
(* save that fails is not repeated.                                        *)

SaverTakes ==
    /\ eval = "run" /\ ~evalDone /\ notify /\ saving = 0
    /\ notify' = FALSE
    /\ saving' = latest
    /\ UNCHANGED <<brokerVars, poolVars, sourceVars, stopping, eval, evalDone,
                   watchVars, cur, next, latest>>

SaveCheckpoint(ok) ==
    /\ saving # 0
    /\ saved' = IF ok THEN saving ELSE saved
    /\ saving' = 0
    /\ UNCHANGED <<brokerVars, poolVars, emitted, base, published, stopping, eval,
                   evalDone, watchVars, cur, next, latest, notify>>

SaverExits ==
    /\ eval = "ending" /\ saving = 0
    /\ eval' = "done"
    /\ UNCHANGED <<brokerVars, poolVars, sourceVars, stopping, evalDone,
                   watchVars, loopVars>>

-----------------------------------------------------------------------------
(* The lifecycle.  Cancelling the server's context cancels its children    *)
(* one after the other.  A crash loses everything but the source and the   *)
(* checkpoint document; so does a panic of a redelivery timer.             *)

Stop ==
    /\ ~stopping
    /\ stopping' = TRUE
    /\ UNCHANGED <<brokerVars, poolVars, sourceVars, eval, evalDone, watchVars, loopVars>>

CancelEvaluator ==
    /\ stopping /\ ~evalDone
    /\ evalDone' = TRUE
    /\ UNCHANGED <<brokerVars, poolVars, sourceVars, stopping, eval, watchVars, loopVars>>

CancelPool ==
    /\ stopping
    /\ CancelSubscription
    /\ UNCHANGED <<poolVars, sourceVars, evalVars>>

ShutdownCloses ==
    /\ eval = "done" /\ pool = "done"
    /\ CloseEngine
    /\ UNCHANGED <<poolVars, sourceVars, evalVars>>

Restarted ==
    /\ engine' = "open" /\ sub' = "none" /\ subDone' = FALSE /\ queue' = <<>>
    /\ count' = [t \in Tasks |-> 0] /\ flag' = [t \in Tasks |-> "none"]
    /\ timer' = [t \in Tasks |-> "idle"]
    /\ pool' = "off" /\ hand' = None /\ chan' = [w \in Workers |-> <<>>]
    /\ busy' = [w \in Workers |-> None] /\ tries' = [t \in Tasks |-> 0]
    /\ stopping' = FALSE /\ eval' = "off" /\ evalDone' = FALSE
    /\ source' = "open" /\ read' = 0 /\ out' = 0 /\ awaiting' = FALSE
    /\ delivered' = 0 /\ acknowledged' = 0 /\ ready' = FALSE
    /\ cur' = 0 /\ next' = 1 /\ latest' = 0 /\ notify' = FALSE /\ saving' = 0

Crash == Restarted /\ UNCHANGED sourceVars

Panic == (\E t \in Tasks : RequeuePanics(t)) /\ Restarted /\ UNCHANGED sourceVars

Evaluator ==
    \/ Watch \/ WatchFails \/ WatchEvent \/ WatchReady \/ ObserveReady
    \/ SourceFails \/ TakeEvent \/ PublishTask \/ FinishEvent \/ LeaveLoop
    \/ SaverTakes \/ SaverExits
    \/ \E ok \in BOOLEAN : SaveCheckpoint(ok)

Delivery == DeliveryStep /\ UNCHANGED <<sourceVars, evalVars>>

Next ==
    \/ Emit \/ Evaluator \/ Delivery
    \/ Stop \/ CancelEvaluator \/ CancelPool \/ ShutdownCloses
    \/ Crash \/ Panic

Spec == Init /\ [][Next]_vars

-----------------------------------------------------------------------------
(* What event e asks for has been published.                               *)
Covered(e) ==
    e \notin Skipped \cup Empty =>
        \A i \in 1 .. Len(Match[e]) : Task(e, i) \in published

(* The checkpoint document never passes a task whose publication has not   *)
(* reported success, over crashes, failed saves and stops at any point:    *)
(* progress is offered to the saver only after processEvent, and a restart *)
(* resumes there.  Events before the first subscription are not covered.   *)
CheckpointPublished == \A e \in base + 1 .. saved : Covered(e)

(* A ready marker is observed only when every event that the watcher       *)
(* received before it has been published: waitAcknowledged holds it back.  *)
ReadyCovers ==
    [][ready' /\ ~ready =>
         \A e \in (IF saved > base THEN saved ELSE base) + 1 .. read : Covered(e)]_vars

Waiting(t) ==
    \/ t = hand
    \/ \E i \in 1 .. Len(queue) : queue[i] = t
    \/ \E w \in Workers : \E i \in 1 .. Len(chan[w]) : chan[w][i] = t

Precedes(t, u) ==
    \/ t[1] < u[1]
    \/ /\ t[1] = u[1]
       /\ \E i, j \in 1 .. Len(Match[t[1]]) :
             i < j /\ t = Task(t[1], i) /\ u = Task(t[1], j)

(* Tasks of one document reach the webhook first in the order of their     *)
(* events: a worker never begins a task while an earlier one that hashes   *)
(* to it still waits for its first attempt.  Retries are not ordered.      *)
FirstAttemptsInOrder ==
    \A t, u \in Tasks :
        Precedes(t, u) /\ WorkerOf[t] = WorkerOf[u] /\ tries[u] > 0
            => ~(Waiting(t) /\ tries[t] = 0)

(* A task is sent at most MaxAttempts times by one process, whichever      *)
(* retries, redelivery timers and shutdowns are interleaved.               *)
AttemptsBounded == \A t \in Tasks : tries[t] <= MaxAttempts

(* While the pool runs, a message that is not settled is in exactly one    *)
(* place: the subscription's channel, the dispatcher, a worker's channel,  *)
(* a worker, or a redelivery timer; a settled one is in none.  So none is  *)
(* lost or delivered by two holders at once.                               *)
Places(t) ==
    {<<"queue", i>> : i \in {j \in 1 .. Len(queue) : queue[j] = t}}
        \cup {<<"hand", 0>> : x \in {y \in {hand} : y = t}}
        \cup {<<"timer", 0>> : x \in {y \in {timer[t]} : y # "idle"}}
        \cup {<<w, 0>> : w \in {v \in Workers : busy[v] = t}}
        \cup UNION {{<<w, i>> : i \in {j \in 1 .. Len(chan[w]) : chan[w][j] = t}} :
                        w \in Workers}

OneHolder ==
    ~subDone => \A t \in Tasks :
        Cardinality(Places(t)) =
            IF count[t] > 0 /\ flag[t] \notin {"acked", "termed"} THEN 1 ELSE 0

=============================================================================
