------------------------------ MODULE PubSubMemory ------------------------------
(***************************************************************************)
(* The in-memory broker of internal/core/pubsub/memory with the one        *)
(* subscription that trigger delivery opens, and the message it delivers.  *)
(*                                                                         *)
(* A message is named by the task it carries: a publication that reports   *)
(* an error has sent nothing, so one process publishes a task at most      *)
(* once.  acked, naked and termed of the code exclude one another and are  *)
(* one variable here.                                                      *)
(***************************************************************************)
EXTENDS Naturals, Sequences, FiniteSets

CONSTANTS
    Tasks,      \* the delivery tasks that can be published
    BufSize     \* ChannelBufSize, the capacity of the subscription's channel

ASSUME BufSizeAssumption == BufSize \in Nat \ {0}

VARIABLES
    engine,     \* "open" or "closed"
    sub,        \* "none", "open", or "gone": unsubscribed, channel closed
    subDone,    \* the subscription's context is done
    queue,      \* sub.msgCh
    count,      \* numDelivered of each message, 0 if there is none
    flag,       \* "none", "acked", "naked" or "termed"
    timer       \* the AfterFunc of NakWithDelay: "idle", "set" or "sending"

brokerVars == <<engine, sub, subDone, queue, count, flag, timer>>

BrokerTypeOK ==
    /\ engine \in {"open", "closed"}
    /\ sub \in {"none", "open", "gone"}
    /\ subDone \in BOOLEAN
    /\ queue \in Seq(Tasks) /\ Len(queue) <= BufSize
    /\ count \in [Tasks -> Nat]
    /\ flag \in [Tasks -> {"none", "acked", "naked", "termed"}]
    /\ timer \in [Tasks -> {"idle", "set", "sending"}]

BrokerInit ==
    /\ engine = "open"
    /\ sub = "none"
    /\ subDone = FALSE
    /\ queue = <<>>
    /\ count = [t \in Tasks |-> 0]
    /\ flag = [t \in Tasks |-> "none"]
    /\ timer = [t \in Tasks |-> "idle"]

-----------------------------------------------------------------------------
(* publish.  It reports success when there is no subscription and when the *)
(* subscription is cancelled: nobody will see the task.  With an open      *)
(* subscription and a full channel it waits.                               *)

PublishQueued(t) ==
    /\ engine = "open" /\ sub = "open"
    /\ Len(queue) < BufSize
    /\ queue' = Append(queue, t)
    /\ count' = [count EXCEPT ![t] = 1]
    /\ UNCHANGED <<engine, sub, subDone, flag, timer>>

PublishSkipped(t) ==
    /\ engine = "open"
    /\ sub # "open" \/ subDone
    /\ UNCHANGED brokerVars

Publish(t) == PublishQueued(t) \/ PublishSkipped(t)

-----------------------------------------------------------------------------
(* Subscribe, and the goroutine that unsubscribes when its context ends.   *)
(* close ends every subscription.                                          *)

Subscribe ==
    /\ engine = "open" /\ sub = "none" /\ ~subDone
    /\ sub' = "open"
    /\ UNCHANGED <<engine, subDone, queue, count, flag, timer>>

CancelSubscription ==
    /\ ~subDone
    /\ subDone' = TRUE
    /\ UNCHANGED <<engine, sub, queue, count, flag, timer>>

Unsubscribe ==
    /\ sub = "open" /\ subDone
    /\ sub' = "gone"
    /\ UNCHANGED <<engine, subDone, queue, count, flag, timer>>

CloseEngine ==
    /\ engine = "open"
    /\ engine' = "closed"
    /\ sub' = IF sub = "open" THEN "gone" ELSE sub
    /\ subDone' = (subDone \/ sub = "open")
    /\ UNCHANGED <<queue, count, flag, timer>>

-----------------------------------------------------------------------------
(* The message.  Each answer takes effect only if it is the first one.     *)

Ack(t) ==
    /\ flag' = IF flag[t] = "none" THEN [flag EXCEPT ![t] = "acked"] ELSE flag
    /\ UNCHANGED <<engine, sub, subDone, queue, count, timer>>

Term(t) ==
    /\ flag' = IF flag[t] = "none" THEN [flag EXCEPT ![t] = "termed"] ELSE flag
    /\ UNCHANGED <<engine, sub, subDone, queue, count, timer>>

(* Nak puts the message back at once if there is room, where q is the      *)
(* channel without it.  A message that is put back keeps its naked flag.   *)
Nak(t, q) ==
    /\ \/ /\ flag[t] = "none"
          /\ flag' = [flag EXCEPT ![t] = "naked"]
          /\ count' = [count EXCEPT ![t] = @ + 1]
          /\ \/ sub = "open" /\ Len(q) < BufSize /\ queue' = Append(q, t)
             \/ (sub # "open" \/ subDone \/ Len(q) = BufSize) /\ queue' = q
       \/ flag[t] # "none" /\ queue' = q /\ UNCHANGED <<flag, count>>
    /\ UNCHANGED <<engine, sub, subDone, timer>>

NakWithDelay(t) ==
    /\ IF flag[t] = "none"
       THEN /\ flag' = [flag EXCEPT ![t] = "naked"]
            /\ count' = [count EXCEPT ![t] = @ + 1]
            /\ timer' = [timer EXCEPT ![t] = "set"]
       ELSE UNCHANGED <<flag, count, timer>>
    /\ UNCHANGED <<engine, sub, subDone, queue>>

(* The timer fires: it checks the engine and the context, clears the flag, *)
(* and then sends.  Between the check and the send the channel may close.  *)
MutantTimerFires(t) ==
    /\ timer[t] = "set"
    /\ timer' = [timer EXCEPT ![t] = "idle"]
    /\ UNCHANGED <<engine, sub, subDone, queue, count, flag>>

TimerFires(t) ==
    /\ timer[t] = "set"
    /\ IF engine = "closed" \/ subDone
       THEN timer' = [timer EXCEPT ![t] = "idle"] /\ UNCHANGED flag
       ELSE /\ timer' = [timer EXCEPT ![t] = "sending"]
            /\ flag' = [flag EXCEPT ![t] = "none"]
    /\ UNCHANGED <<engine, sub, subDone, queue, count>>

TimerSends(t) ==
    /\ timer[t] = "sending"
    /\ timer' = [timer EXCEPT ![t] = "idle"]
    /\ \/ sub = "open" /\ Len(queue) < BufSize /\ queue' = Append(queue, t)
       \/ subDone /\ UNCHANGED queue
    /\ UNCHANGED <<engine, sub, subDone, count, flag>>

(* A send on the closed channel: the select may choose it although the     *)
(* context is done too, and nothing recovers the panic.                    *)
RequeuePanics(t) == timer[t] = "sending" /\ sub = "gone"
=============================================================================
