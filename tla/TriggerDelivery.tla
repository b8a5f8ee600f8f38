----------------------------- MODULE TriggerDelivery -----------------------------
(***************************************************************************)
(* The delivery pool of internal/trigger/delivery/consumer.go over the     *)
(* in-memory broker: the goroutine of Start, which dispatches, drains and  *)
(* settles, and the workers.  subDone is also runCtx of the pool, of which *)
(* the subscription's context is a child.                                  *)
(***************************************************************************)
EXTENDS PubSubMemory

CONSTANTS
    Workers,        \* the worker goroutines
    WorkerOf,       \* the worker each task hashes to, by collection and document
    ChanSize,       \* the capacity of a worker's channel
    MaxAttempts,    \* RetryPolicy.MaxAttempts
    None

ASSUME PoolAssumption ==
    /\ WorkerOf \in [Tasks -> Workers]
    /\ ChanSize \in Nat \ {0}
    /\ MaxAttempts \in Nat \ {0}
    /\ None \notin Tasks

VARIABLES
    pool,       \* "off", "run", "drain", "settle" or "done"
    hand,       \* the message dispatchMessage holds
    chan,       \* the workers' channels
    busy,       \* the message each worker processes
    tries       \* how often each task was sent to its URL

poolVars == <<pool, hand, chan, busy, tries>>

PoolTypeOK ==
    /\ pool \in {"off", "run", "drain", "settle", "done"}
    /\ hand \in Tasks \cup {None}
    /\ chan \in [Workers -> Seq(Tasks)]
    /\ \A w \in Workers : Len(chan[w]) <= ChanSize
    /\ busy \in [Workers -> Tasks \cup {None}]
    /\ tries \in [Tasks -> Nat]

PoolInit ==
    /\ pool = "off"
    /\ hand = None
    /\ chan = [w \in Workers |-> <<>>]
    /\ busy = [w \in Workers |-> None]
    /\ tries = [t \in Tasks |-> 0]

-----------------------------------------------------------------------------
(* Start: subscribe, then receive and dispatch until the context is done   *)
(* or the channel is closed.                                               *)

StartPool ==
    /\ pool = "off"
    /\ \/ Subscribe /\ pool' = "run"
       \/ (subDone \/ engine = "closed") /\ pool' = "done" /\ UNCHANGED brokerVars
    /\ UNCHANGED <<hand, chan, busy, tries>>

ReceiveMessage ==
    /\ pool = "run" /\ hand = None /\ queue # <<>>
    /\ hand' = Head(queue)
    /\ queue' = Tail(queue)
    /\ UNCHANGED <<engine, sub, subDone, count, flag, timer, pool, chan, busy, tries>>

DispatchMessage ==
    /\ hand # None
    /\ LET w == WorkerOf[hand] IN
         \/ /\ Len(chan[w]) < ChanSize
            /\ chan' = [chan EXCEPT ![w] = Append(@, hand)]
            /\ UNCHANGED brokerVars
         \/ subDone /\ Nak(hand, queue) /\ UNCHANGED chan
    /\ hand' = None
    /\ UNCHANGED <<pool, busy, tries>>

StopReceiving ==
    /\ pool = "run" /\ hand = None
    /\ subDone \/ (sub = "gone" /\ queue = <<>>)
    /\ pool' = "drain"
    /\ subDone' = TRUE
    /\ UNCHANGED <<engine, sub, queue, count, flag, timer, hand, chan, busy, tries>>

-----------------------------------------------------------------------------
(* Settlement: drain the source until it is closed, close the workers'     *)
(* channels, wait for the workers.  Both waits have a timeout.             *)

DrainMessage ==
    /\ pool = "drain" /\ queue # <<>>
    /\ Nak(Head(queue), Tail(queue))
    /\ UNCHANGED poolVars

DrainEnds(timeout) ==
    /\ pool = "drain"
    /\ timeout \/ (sub = "gone" /\ queue = <<>>)
    /\ pool' = "settle"
    /\ UNCHANGED <<brokerVars, hand, chan, busy, tries>>

SettleEnds(timeout) ==
    /\ pool = "settle"
    /\ timeout \/ \A w \in Workers : chan[w] = <<>> /\ busy[w] = None
    /\ pool' = "done"
    /\ UNCHANGED <<brokerVars, hand, chan, busy, tries>>

-----------------------------------------------------------------------------
(* workerLoop.  A cancelled pool gives messages back without an attempt.   *)

MutantWorkerTakes(w) ==
    /\ busy[w] = None /\ chan[w] # <<>>
    /\ LET i == Len(chan[w])
           t == chan[w][i] IN
         /\ chan' = [chan EXCEPT ![w] = SubSeq(@, 1, i - 1)]
         /\ IF subDone
            THEN Nak(t, queue) /\ UNCHANGED <<busy, tries>>
            ELSE /\ busy' = [busy EXCEPT ![w] = t]
                 /\ tries' = [tries EXCEPT ![t] = @ + 1]
                 /\ UNCHANGED brokerVars
    /\ UNCHANGED <<pool, hand>>

WorkerTakes(w) ==
    /\ busy[w] = None /\ chan[w] # <<>>
    /\ LET t == Head(chan[w]) IN
         /\ chan' = [chan EXCEPT ![w] = Tail(@)]
         /\ IF subDone
            THEN Nak(t, queue) /\ UNCHANGED <<busy, tries>>
            ELSE /\ busy' = [busy EXCEPT ![w] = t]
                 /\ tries' = [tries EXCEPT ![t] = @ + 1]
                 /\ UNCHANGED brokerVars
    /\ UNCHANGED <<pool, hand>>

(* processMsg returns: success, a fatal error, or one that is retried with *)
(* a delay until the message has been delivered MaxAttempts times.         *)
MutantRetryOrTerm(t) ==
    IF count[t] > MaxAttempts THEN Term(t) ELSE NakWithDelay(t)

RetryOrTerm(t) ==
    IF count[t] >= MaxAttempts THEN Term(t) ELSE NakWithDelay(t)

WorkerFinishes(w) ==
    /\ busy[w] # None
    /\ Ack(busy[w]) \/ Term(busy[w]) \/ RetryOrTerm(busy[w])
    /\ busy' = [busy EXCEPT ![w] = None]
    /\ UNCHANGED <<pool, hand, chan, tries>>

-----------------------------------------------------------------------------
DeliveryStep ==
    \/ StartPool \/ ReceiveMessage \/ DispatchMessage \/ StopReceiving
    \/ DrainMessage
    \/ \E timeout \in BOOLEAN : DrainEnds(timeout) \/ SettleEnds(timeout)
    \/ \E w \in Workers : WorkerTakes(w) \/ WorkerFinishes(w)
    \/ (Unsubscribe /\ UNCHANGED poolVars)
    \/ \E t \in Tasks : (TimerFires(t) \/ TimerSends(t)) /\ UNCHANGED poolVars
=============================================================================
