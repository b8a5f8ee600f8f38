-------------------------- MODULE PullerSubscription ------------------------
(***************************************************************************)
(* One monitored subscription of the Puller gRPC service                   *)
(* (packages/syntrix/internal/puller: core/subscription.go RunSubscription,*)
(* core/subscriber.go, grpc/server.go ingress and fence, and the           *)
(* reconnecting client/client.go subscribeLoop).                           *)
(*                                                                         *)
(* Capture writes an event to the buffer, then hands it to the server's    *)
(* ingress channel; the server broadcasts it to the subscriber's bounded   *)
(* queue.  An event that does not fit latches recovery: the subscriber     *)
(* takes nothing more until the runner has emptied the queue, cleared the  *)
(* latch and replayed the retained history from its last position.  The    *)
(* runner reports "admitted" only after a fence through the ingress.       *)
(*                                                                         *)
(* The buffer is its promise (PullerReplay, ScanComplete): a validated     *)
(* scan from a cluster-time group yields everything written in that group  *)
(* or later, and fails if any of it has been pruned.  Capture is its own   *)
(* (PullerCapture, ActiveMeansRecaptured): it may fall back to an earlier  *)
(* event and lose the queued tail in a crash, and it is active again only  *)
(* when it has caught up.  One backend.                                    *)
(***************************************************************************)
EXTENDS Integers, Sequences

CONSTANTS
    Last,          \* the source events are 1 .. Last, in change-stream order
    Time,          \* Time[e]: cluster time of e
    Key,           \* Key[e]: buffer key; equal keys mean equal event IDs
    ChannelSize,   \* capacity of the subscriber's queue
    IngressSize,   \* capacity of eventChan
    MaxOutages,    \* bound on source outages and crashes
    MaxConnects    \* bound on connections

Events == 1 .. Last

ASSUME SubscriptionAssumption ==
    /\ Last \in Nat
    /\ Time \in [Events -> Nat \ {0}] /\ Key \in [Events -> Nat \ {0}]
    /\ \A e, f \in Events : e < f => Time[e] <= Time[f]
    /\ \A e, f \in Events : Time[e] < Time[f] => Key[e] < Key[f]
    /\ ChannelSize \in Nat \ {0} /\ IngressSize \in Nat \ {0}
    /\ MaxOutages \in Nat /\ MaxConnects \in Nat

None == 0

VARIABLES
    written,     \* events 1 .. written are or were in the buffer
    reached,     \* the furthest event capture has ever read
    floor,       \* cluster time of the pruning floor
    cap,         \* the last event the capture loop has handed over
    handing,     \* event cap + 1: not read, written, or holding ingressGate
    source,      \* "up": capture active; "down": recovering; "dead": terminal
    outages,
    ingress,     \* eventChan
    gate,        \* the runner holds ingressGate
    ch,          \* sub.ch
    pending,     \* sub.recoveryPending
    wake,        \* a token is in sub.recovery
    fromNow,     \* sub.startFromNow
    group,       \* admissionGroups[backend].clusterTime
    groupIDs,    \* admissionGroups[backend].eventIDs
    pos,         \* sub.currentPos
    last,        \* sub.lastClusterTime
    ids,         \* sub.deliveredIDs
    pc,          \* where RunSubscription is
    catchUp, recovering, ready,
    state,       \* admissionState
    generation,
    replay,      \* what the replay iterator has left
    after,       \* the client's currentProgress when it last subscribed
    connects,
    sent,        \* events sent on this connection
    got,         \* history: events received on earlier connections
    began,       \* history: the consumer first started from "now" or "saved"
    start,       \* history: the event from which on events are owed
    fenced       \* history: events broadcast when the last fence closed

captureVars == <<written, reached, floor, cap, handing, source, outages>>
queueVars == <<ch, pending, wake, group, groupIDs, start>>
positionVars == <<pos, last, ids, sent>>
runnerVars == <<pc, catchUp, recovering, ready, state, generation, replay, fenced>>
connectionVars == <<fromNow, after, connects, got, began>>
vars == <<captureVars, ingress, gate, queueVars, positionVars, runnerVars,
          connectionVars>>

Connected == pc \notin {"exit", "failed"}
Keys(S) == {Key[e] : e \in S}

SeqRange(s) == {s[i] : i \in 1 .. Len(s)}

TypeOK ==
    /\ reached \in 0 .. Last /\ written \in 0 .. reached /\ cap \in 0 .. written
    /\ floor \in Nat
    /\ handing \in {"no", "written", "gated"} /\ source \in {"up", "down", "dead"}
    /\ outages \in 0 .. MaxOutages /\ connects \in 0 .. MaxConnects + 1
    /\ ingress \in Seq(Events) /\ Len(ingress) <= IngressSize
    /\ ch \in Seq(Events) /\ Len(ch) <= ChannelSize
    /\ gate \in BOOLEAN /\ pending \in BOOLEAN /\ wake \in BOOLEAN
    /\ fromNow \in BOOLEAN /\ group \in Nat /\ groupIDs \subseteq Keys(Events)
    /\ after \in 0 .. Last /\ pos \in 0 .. Last /\ last \in Nat /\ ids \subseteq Keys(Events)
    /\ pc \in {"check", "wait", "drain", "begin", "open", "replay", "ready", "fence",
               "barrier", "draining", "taking", "drained", "admit", "select",
               "delivered", "exit", "failed"}
    /\ catchUp \in BOOLEAN /\ recovering \in BOOLEAN /\ ready \in BOOLEAN
    /\ state \in {"starting", "replaying", "recovering", "admitted"}
    /\ generation \in Nat \ {0}
    /\ replay \subseteq Events /\ sent \in Seq(Events) /\ got \subseteq Events
    /\ start \in 0 .. Last /\ began \in {"now", "saved"} /\ fenced \subseteq Events

\* No connection; the consumer starts from now, or resumes after an event of
\* the buffer.
Init ==
    /\ written \in 0 .. Last /\ cap = written /\ reached = written
    /\ floor = None /\ handing = "no" /\ source = "up" /\ outages = 0
    /\ ingress = <<>> /\ gate = FALSE
    /\ after \in 0 .. written
    /\ got = {e \in Events : after # None /\ Time[e] < Time[after]}
    /\ began = IF after = None THEN "now" ELSE "saved"
    /\ start \in 0 .. after
    /\ start # None <=> after # None
    /\ start # None => \A e \in Events : e >= start <=> Time[e] >= Time[after]
    /\ connects = 0
    /\ fromNow = FALSE /\ ch = <<>> /\ pending = FALSE /\ wake = FALSE
    /\ group = None /\ groupIDs = {}
    /\ pos = None /\ last = None /\ ids = {} /\ sent = <<>>
    /\ pc = "exit" /\ catchUp = FALSE /\ recovering = FALSE /\ ready = FALSE
    /\ state = "starting" /\ generation = 1 /\ replay = {} /\ fenced = {}

\* subscribeLoop calls Subscribe with the progress of the last event received:
\* NewSubscriber, SubscriberManager.Add and the first lines of RunSubscription.
\* Without progress it starts from now, once more if need be.
Subscribe ==
    /\ pc = "exit"
    /\ connects <= MaxConnects
    /\ connects' = connects + 1
    /\ fromNow' = (after = None)
    /\ ch' = <<>> /\ pending' = FALSE /\ wake' = FALSE
    /\ group' = None /\ groupIDs' = {}
    /\ pos' = after /\ ids' = {} /\ sent' = <<>>
    /\ last' = IF after = None THEN None ELSE Time[after]
    /\ pc' = "check" /\ catchUp' = (after # None)
    /\ recovering' = FALSE /\ ready' = FALSE
    /\ state' = "starting" /\ generation' = 1 /\ replay' = {} /\ fenced' = {}
    /\ start' = IF after = None THEN None ELSE start
    /\ UNCHANGED <<captureVars, ingress, gate, after, got, began>>

\* The transport fails under the runner, which then removes its subscriber; the
\* client has received some prefix of what was sent.
Hangup ==
    /\ connects <= MaxConnects
    /\ \E n \in 0 .. Len(sent) :
           /\ got' = got \cup SeqRange(SubSeq(sent, 1, n))
           /\ after' = IF n = 0 THEN after ELSE sent[n]
           /\ sent' = <<>>
           /\ pc' = "exit"

-----------------------------------------------------------------------------
(* Capture and its buffer (puller.go watchChangeStream; PullerCapture).    *)

Written == 1 .. written

\* buffer.Write of the next event; a stream reopened behind the buffer's head
\* writes again what the buffer holds.
CaptureWrite ==
    /\ source # "dead" /\ handing = "no"
    /\ cap < Last
    /\ handing' = "written"
    /\ written' = IF cap + 1 > written THEN cap + 1 ELSE written
    /\ reached' = IF cap + 1 > reached THEN cap + 1 ELSE reached
    /\ UNCHANGED <<floor, cap, source, outages, ingress, gate, queueVars,
                   positionVars, runnerVars, connectionVars>>

\* enqueueNativeEvent, called with the event just written: takes the gate and
\* keeps it while the channel is full.
AcquireIngress ==
    /\ handing = "written" /\ ~gate
    /\ handing' = "gated"
    /\ UNCHANGED <<written, reached, floor, cap, source, outages, ingress, gate,
                   queueVars, positionVars, runnerVars, connectionVars>>

EnqueueNative ==
    /\ handing = "gated"
    /\ Len(ingress) < IngressSize
    /\ ingress' = Append(ingress, cap + 1)
    /\ cap' = cap + 1 /\ handing' = "no"
    /\ UNCHANGED <<written, reached, floor, source, outages, gate, queueVars,
                   positionVars, runnerVars, connectionVars>>

\* Readiness fails: capture reopens after its durable checkpoint, or its last
\* response has gone stale while it hands an event over.
SourceDown ==
    /\ source = "up"
    /\ outages < MaxOutages
    /\ source' = "down" /\ outages' = outages + 1
    /\ UNCHANGED cap \/ (handing = "no" /\ cap' \in 0 .. cap)
    /\ UNCHANGED <<written, reached, floor, handing, ingress, gate, queueVars,
                   positionVars, runnerVars, connectionVars>>

\* Mutant: capture reports itself active as soon as it is open.
MutantSourceUp ==
    /\ source = "down" /\ handing = "no"
    /\ source' = "up"
    /\ UNCHANGED <<written, reached, floor, cap, handing, outages, ingress, gate,
                   queueVars, positionVars, runnerVars, connectionVars>>

\* Capture is active again once an empty poll shows that it has read all.
SourceUp ==
    /\ source = "down" /\ handing = "no"
    /\ cap = reached
    /\ source' = "up"
    /\ UNCHANGED <<written, reached, floor, cap, handing, outages, ingress, gate,
                   queueVars, positionVars, runnerVars, connectionVars>>

\* Capture has failed for good, or its buffer has: Readiness reads both.
SourceDead ==
    /\ source # "dead"
    /\ source' = "dead"
    /\ UNCHANGED <<written, reached, floor, cap, handing, outages, ingress, gate,
                   queueVars, positionVars, runnerVars, connectionVars>>

\* The server process restarts.  The events still in the buffer's queue are
\* lost, although they may have been delivered; none of them is checkpointed.
Crash ==
    /\ source # "dead"
    /\ outages < MaxOutages
    /\ outages' = outages + 1
    /\ source' = "down" /\ handing' = "no" /\ ingress' = <<>> /\ gate' = FALSE
    /\ written' \in {n \in 0 .. written : floor # None => n > 0 /\ Time[n] > floor}
    /\ cap' \in {n \in 0 .. cap : n <= written'}
    /\ IF Connected THEN Hangup ELSE UNCHANGED <<got, after, sent, pc>>
    /\ UNCHANGED <<reached, floor, queueVars, pos, last, ids, catchUp, recovering,
                   ready, state, generation, replay, fenced, fromNow, connects,
                   began>>

\* Scheduled cleanup spares the newest group (PullerCapture, HeadReplayable).
Prune ==
    /\ written > 0
    /\ floor' \in {Time[e] : e \in Written}
    /\ floor < floor' /\ floor' < Time[written]
    /\ UNCHANGED <<written, reached, cap, handing, source, outages, ingress, gate,
                   queueVars, positionVars, runnerVars, connectionVars>>

-----------------------------------------------------------------------------
(* The server's event loop and Subscriber.enqueue.                         *)

Enqueue(e) ==
    /\ LET newGroup == IF fromNow /\ group = None THEN Time[e] ELSE group
       IN  /\ group' = newGroup
           /\ groupIDs' = IF fromNow /\ Time[e] = newGroup
                          THEN groupIDs \cup {Key[e]} ELSE groupIDs
    /\ IF pending
       THEN UNCHANGED <<ch, pending, wake>>
       ELSE IF Len(ch) < ChannelSize
            THEN ch' = Append(ch, e) /\ UNCHANGED <<pending, wake>>
            ELSE pending' = TRUE /\ wake' = TRUE /\ UNCHANGED ch
    /\ start' = IF start = None THEN e ELSE start

ProcessEvents ==
    /\ ingress # <<>>
    /\ ingress' = Tail(ingress)
    /\ IF Connected THEN Enqueue(Head(ingress)) ELSE UNCHANGED queueVars
    /\ UNCHANGED <<captureVars, gate, positionVars, runnerVars, connectionVars>>

-----------------------------------------------------------------------------
(* RunSubscription.                                                        *)

\* The state in which the loop continues to its next replay.
Recover ==
    /\ catchUp' = TRUE /\ recovering' = TRUE /\ ready' = FALSE
    /\ generation' = generation + 1 /\ state' = "recovering"
    /\ pc' = "check"

\* The head of the loop.
CheckAdmission ==
    /\ pc = "check"
    /\ CASE source = "up" ->
              /\ pc' = IF ~catchUp THEN IF ready THEN "select" ELSE "ready"
                       ELSE IF recovering THEN "drain" ELSE "open"
              /\ state' = IF catchUp THEN "replaying" ELSE state
              /\ UNCHANGED <<generation, ready>>
         [] source = "down" ->
              /\ pc' = "wait"
              /\ state' = "recovering"
              /\ generation' = IF state # "recovering" THEN generation + 1 ELSE generation
              /\ ready' = (ready /\ state = "recovering")
         [] source = "dead" ->
              pc' = "failed" /\ UNCHANGED <<generation, ready, state>>
    /\ UNCHANGED <<captureVars, ingress, gate, queueVars, positionVars, catchUp,
                   recovering, replay, fenced, connectionVars>>

WaitMaintenance ==
    /\ pc = "wait"
    /\ pc' = "check"
    /\ UNCHANGED <<captureVars, ingress, gate, queueVars, positionVars, catchUp,
                   recovering, ready, state, generation, replay, fenced, connectionVars>>

DrainEvents ==
    /\ pc = "drain"
    /\ ch' = <<>>
    /\ pc' = "begin"
    /\ UNCHANGED <<captureVars, ingress, gate, pending, wake, group, groupIDs, start, positionVars, catchUp, recovering, ready, state, generation,
                   replay, fenced, connectionVars>>

BeginRecovery ==
    /\ pc = "begin"
    /\ pending' = FALSE /\ wake' = FALSE
    /\ pc' = "open"
    /\ UNCHANGED <<captureVars, ingress, gate, ch, group, groupIDs, start,
                   positionVars, catchUp, recovering, ready, state, generation,
                   replay, fenced, connectionVars>>

\* ReplayRetained: from the saved position's group, or from the admission group
\* when that is later; no scan when nothing has been broadcast since a start
\* from now.  A scan whose group reaches down to the floor, or whose saved
\* position the buffer does not hold, is refused.
ReplayGroup ==
    LET saved == IF pos = None THEN None ELSE Time[pos]
    IN  IF fromNow /\ group > saved THEN group ELSE saved

\* Mutant: replay starts after the saved group, not at it.
MutantOpenReplay ==
    /\ pc = "open"
    /\ CASE fromNow /\ group = None ->
              pc' = "replay" /\ replay' = {}
         [] ~(fromNow /\ group = None) /\ (ReplayGroup <= floor \/ pos > written) ->
              pc' = "failed" /\ UNCHANGED replay
         [] OTHER ->
              pc' = "replay" /\ replay' = {e \in Written : Time[e] > ReplayGroup}
    /\ UNCHANGED <<captureVars, ingress, gate, queueVars, positionVars, catchUp,
                   recovering, ready, state, generation, fenced, connectionVars>>

OpenReplay ==
    /\ pc = "open"
    /\ CASE fromNow /\ group = None ->
              pc' = "replay" /\ replay' = {}
         [] ~(fromNow /\ group = None) /\ (ReplayGroup <= floor \/ pos > written) ->
              pc' = "failed" /\ UNCHANGED replay
         [] OTHER ->
              pc' = "replay" /\ replay' = {e \in Written : Time[e] >= ReplayGroup}
    /\ UNCHANGED <<captureVars, ingress, gate, queueVars, positionVars, catchUp,
                   recovering, ready, state, generation, fenced, connectionVars>>

\* A buffer that has failed refuses the scan, and may break off an open one.
ReplayFailed ==
    /\ pc \in {"open", "replay"} /\ source = "dead"
    /\ pc' = "failed" /\ replay' = {}
    /\ UNCHANGED <<captureVars, ingress, gate, queueVars, positionVars, catchUp,
                   recovering, ready, state, generation, fenced, connectionVars>>

\* replayAdmitted
ReplayAdmitted(e) ==
    ~fromNow \/ (group # None /\ (Time[e] > group \/ (Time[e] = group /\ Key[e] \in groupIDs)))

\* Mutant: the identities delivered in the current group are forgotten.
MutantShouldSend(e) == last = None \/ Time[e] >= last

ShouldSend(e) ==
    last = None \/ Time[e] > last \/ (Time[e] = last /\ Key[e] \notin ids)

\* deliverSubscriptionEvent: Deliver, then UpdatePosition.
DeliverEvent(e) ==
    IF ShouldSend(e)
    THEN /\ sent' = Append(sent, e)
         /\ ids' = IF Time[e] = last THEN ids \cup {Key[e]} ELSE {Key[e]}
         /\ last' = Time[e] /\ pos' = e
    ELSE UNCHANGED positionVars

\* One turn of runReplay: the iterator yields each key once, in key order, with
\* the event stored last under it.
ReplayNext ==
    /\ pc = "replay" /\ replay # {}
    /\ \E e \in replay :
          /\ \A f \in replay : Key[e] < Key[f] \/ (Key[e] = Key[f] /\ f <= e)
          /\ replay' = {f \in replay : Key[f] # Key[e]}
          /\ IF ReplayAdmitted(e) THEN DeliverEvent(e) ELSE UNCHANGED positionVars
    /\ UNCHANGED <<captureVars, ingress, gate, queueVars, pc, catchUp, recovering,
                   ready, state, generation, fenced, connectionVars>>

ReplayDone ==
    /\ pc = "replay" /\ replay = {}
    /\ IF pending
       THEN recovering' = TRUE /\ pc' = "check" /\ UNCHANGED catchUp
       ELSE recovering' = FALSE /\ catchUp' = FALSE /\ pc' = "ready"
    /\ UNCHANGED <<captureVars, ingress, gate, queueVars, positionVars, ready, state,
                   generation, replay, fenced, connectionVars>>

\* CheckAdmission once more, then fenceIngress: takes the gate ...
CheckReady ==
    /\ pc = "ready"
    /\ pc' = IF source = "up" THEN "fence" ELSE "check"
    /\ UNCHANGED <<captureVars, ingress, gate, queueVars, positionVars, catchUp,
                   recovering, ready, state, generation, replay, fenced, connectionVars>>

FenceIngress ==
    /\ pc = "fence" /\ handing # "gated"
    /\ gate' = TRUE
    /\ pc' = "barrier"
    /\ UNCHANGED <<captureVars, ingress, queueVars, positionVars, catchUp, recovering,
                   ready, state, generation, replay, fenced, connectionVars>>

\* Mutant: the fence does not wait for the event loop.
MutantBarrier ==
    /\ pc = "barrier"
    /\ gate' = FALSE
    /\ fenced' = {e \in 1 .. cap : start # None /\ e >= start}
    /\ pc' = "draining"
    /\ UNCHANGED <<captureVars, ingress, queueVars, positionVars, catchUp, recovering,
                   ready, state, generation, replay, connectionVars>>

\* Mutant: the fence keeps the gate.
MutantBarrierKeepsGate ==
    /\ pc = "barrier"
    /\ ingress = <<>>
    /\ fenced' = {e \in 1 .. cap : start # None /\ e >= start}
    /\ pc' = "draining"
    /\ UNCHANGED <<captureVars, ingress, gate, queueVars, positionVars, catchUp,
                   recovering, ready, state, generation, replay, connectionVars>>

\* ... and releases it when the event loop has broadcast what was queued.
Barrier ==
    /\ pc = "barrier"
    /\ ingress = <<>>
    /\ gate' = FALSE
    /\ fenced' = {e \in 1 .. cap : start # None /\ e >= start}
    /\ pc' = "draining"
    /\ UNCHANGED <<captureVars, ingress, queueVars, positionVars, catchUp, recovering,
                   ready, state, generation, replay, connectionVars>>

\* The drain before admission: stops on a latched recovery or an empty queue.
DrainCheck ==
    /\ pc = "draining"
    /\ pc' = IF pending THEN "drained" ELSE "taking"
    /\ UNCHANGED <<captureVars, ingress, gate, queueVars, positionVars, catchUp,
                   recovering, ready, state, generation, replay, fenced, connectionVars>>

DrainTake ==
    /\ pc = "taking"
    /\ IF ch # <<>>
       THEN ch' = Tail(ch) /\ DeliverEvent(Head(ch)) /\ pc' = "draining"
       ELSE pc' = "drained" /\ UNCHANGED <<ch, positionVars>>
    /\ UNCHANGED <<captureVars, ingress, gate, pending, wake, group, groupIDs, start, catchUp, recovering, ready, state, generation, replay,
                   fenced, connectionVars>>

Drained ==
    /\ pc = "drained"
    /\ IF pending THEN Recover
       ELSE pc' = "admit" /\ UNCHANGED <<catchUp, recovering, ready, state, generation>>
    /\ UNCHANGED <<captureVars, ingress, gate, queueVars, positionVars, replay, fenced,
                   connectionVars>>

Admit ==
    /\ pc = "admit"
    /\ IF source = "up"
       THEN ready' = TRUE /\ state' = "admitted" /\ pc' = "select"
       ELSE pc' = "check" /\ UNCHANGED <<ready, state>>
    /\ UNCHANGED <<captureVars, ingress, gate, queueVars, positionVars, catchUp,
                   recovering, generation, replay, fenced, connectionVars>>

\* The cases of the closing select.
SelectRecovery ==
    /\ pc = "select" /\ wake
    /\ wake' = FALSE
    /\ Recover
    /\ UNCHANGED <<captureVars, ingress, gate, ch, pending, group, groupIDs, start, positionVars, replay, fenced, connectionVars>>

SelectMaintenance ==
    /\ pc = "select"
    /\ ready' = (ready /\ source # "up")
    /\ pc' = "check"
    /\ UNCHANGED <<captureVars, ingress, gate, queueVars, positionVars, catchUp,
                   recovering, state, generation, replay, fenced, connectionVars>>

SelectEvent ==
    /\ pc = "select" /\ ch # <<>>
    /\ ch' = Tail(ch) /\ DeliverEvent(Head(ch))
    /\ pc' = "delivered"
    /\ UNCHANGED <<captureVars, ingress, gate, pending, wake, group, groupIDs, start, catchUp, recovering, ready, state, generation, replay,
                   fenced, connectionVars>>

Delivered ==
    /\ pc = "delivered"
    /\ IF pending THEN Recover
       ELSE pc' = "check" /\ UNCHANGED <<catchUp, recovering, ready, state, generation>>
    /\ UNCHANGED <<captureVars, ingress, gate, queueVars, positionVars, replay, fenced,
                   connectionVars>>

Disconnect ==
    /\ Connected
    /\ Hangup
    /\ gate' = FALSE
    /\ UNCHANGED <<captureVars, ingress, queueVars, pos, last, ids, catchUp, recovering,
                   ready, state, generation, replay, fenced, fromNow, connects,
                   began>>

Runner ==
    \/ CheckAdmission \/ WaitMaintenance \/ DrainEvents \/ BeginRecovery \/ OpenReplay
    \/ ReplayFailed \/ ReplayNext \/ ReplayDone \/ CheckReady \/ FenceIngress \/ Barrier
    \/ DrainCheck \/ DrainTake \/ Drained \/ Admit \/ Delivered

Select == SelectRecovery \/ SelectMaintenance \/ SelectEvent

Source ==
    \/ CaptureWrite \/ AcquireIngress \/ EnqueueNative
    \/ SourceDown \/ SourceUp \/ SourceDead \/ Crash \/ Prune

Next == Source \/ ProcessEvents \/ Runner \/ Select \/ Subscribe \/ Disconnect

\* Every goroutine that can run eventually does.  Go's select chooses at random
\* among the cases that are ready, so one that is ready again and again is
\* taken; ingressGate is a channel, whose waiters are served in order.  Capture
\* reads what the source holds, and an outage that is not terminal ends.
Fairness ==
    /\ WF_vars(cap < reached /\ CaptureWrite) /\ SF_vars(AcquireIngress)
    /\ WF_vars(EnqueueNative) /\ WF_vars(SourceUp) /\ WF_vars(ProcessEvents)
    /\ WF_vars(Runner) /\ SF_vars(FenceIngress) /\ WF_vars(Subscribe)
    /\ SF_vars(SelectRecovery) /\ WF_vars(SelectMaintenance) /\ SF_vars(SelectEvent)

Spec == Init /\ [][Next]_vars /\ Fairness

-----------------------------------------------------------------------------
\* The events owed to the consumer; the first group of one that started from
\* now is a matter of its own (FirstGroupKept).
Owed == {e \in Written : start # None /\ e >= start}
Settled == {e \in Owed : began = "saved" \/ Time[e] > Time[start]}
Received == got \cup SeqRange(sent)

(* No gap: when an event has been delivered, so has every earlier event    *)
(* owed to the consumer, however often the queue overflowed, the source    *)
(* was reopened or the stream reconnected in between.  This is also what   *)
(* makes the progress sent with the event a safe place to resume from      *)
(* (subscriber.go enqueue, drainEvents, BeginRecovery; subscription.go     *)
(* runReplay).                                                             *)
NoGap ==
    \A e \in Received, f \in Settled : Time[f] < Time[e] => f \in Received

(* The same for the first group of a consumer that started from now: the   *)
(* events broadcast after its registration are not passed over when a      *)
(* replay reaches the next group (subscriber.go replayAdmitted).           *)
FirstGroupKept ==
    \A e \in Received, f \in Owed \ Settled : Time[f] < Time[e] => f \in Received

(* No event is delivered twice on one connection, although the replay and  *)
(* the queue overlap and a reopened source broadcasts again                *)
(* (subscriber.go ShouldSend, UpdatePosition).                             *)
NoDuplicate == \A i, j \in 1 .. Len(sent) : i # j => sent[i] # sent[j]

(* A consumer is turned away only when capture has failed for good or the  *)
(* history it needs has been pruned: an event delivered just before a      *)
(* crash lost it from the buffer's queue is still a place to resume from,  *)
(* because the replay waits for capture to have read it again              *)
(* (subscription.go RunSubscription, reader.go validatePosition).          *)
RefusedOnlyIfPruned ==
    pc = "failed" => source = "dead" \/ (floor # None /\ ReplayGroup <= floor)

(* Admission follows the events: when the runner reports "admitted", every *)
(* event that had passed the ingress when its fence closed has been        *)
(* delivered (subscription.go RunSubscription, server.go fenceIngress).    *)
AdmittedCaughtUp ==
    [][state' = "admitted" /\ state # "admitted" => fenced \cap Settled \subseteq Received]_vars

(* An owed event is eventually delivered, unless the subscription reports  *)
(* a failure, the source dies, or the consumer starts anew from now: no    *)
(* overflow, outage or reconnect leaves it waiting for ever                *)
(* (subscription.go RunSubscription, subscriber.go enqueue).               *)
EventuallyDelivered ==
    \A e \in Events :
        e \in Settled ~> (e \in Received \/ e \notin Settled \/ pc = "failed" \/ source = "dead")
=============================================================================
