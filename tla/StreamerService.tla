--------------------------- MODULE StreamerService ---------------------------
(***************************************************************************)
(* The streamer's side of its gRPC streams: the subscription manager, the  *)
(* local stream behind each connection, the adapter that reads gateway     *)
(* messages, and ProcessEvent.  A stream is named by the client's          *)
(* generation that opened it.  Every subscription here matches every       *)
(* event: which filter matches which document is left to the manager.      *)
(***************************************************************************)
EXTENDS StreamBounds, Naturals, Sequences, FiniteSets

CONSTANT OutgoingCap   \* capacity of localStream.outgoing

Streams == 1..MaxGen
Removers == {"slow", "exit"}

VARIABLES allSubs,    \* Manager.allSubs: the gateway of each subscription, 0 if absent
          opened,     \* localStream: not opened, open, or its context done
          listed,     \* streams in streamerService.streams
          removal,    \* the removeStream calls of a stream: timed out, connection ended
          handler,    \* the adapter's reading goroutine and the message it holds
          outgoing,   \* localStream.outgoing
          matched,    \* deliveries of the event in ProcessEvent still to be sent
          processed,  \* events matched so far
          c2s, s2c,   \* messages on the wire, each way
          cut         \* the transport of a stream has ended

serverVars == <<allSubs, opened, listed, removal, handler, outgoing, matched,
                processed, c2s, s2c, cut>>

Idle == [at |-> "idle", id |-> 0]
Stopped == [at |-> "stopped", id |-> 0]

ServerInit ==
  /\ allSubs = [i \in Ids |-> 0]
  /\ opened = [s \in Streams |-> IF s = 1 THEN "open" ELSE "none"]
  /\ listed = {1}
  /\ removal = [s \in Streams |-> [r \in Removers |-> "none"]]
  /\ handler = [s \in Streams |-> Idle]
  /\ outgoing = [s \in Streams |-> <<>>]
  /\ matched = {} /\ processed = 0
  /\ c2s = [s \in Streams |-> <<>>] /\ s2c = [s \in Streams |-> <<>>]
  /\ cut = [s \in Streams |-> FALSE]

\* GRPCStream: a connection gets a local stream of its own.
GRPCStream(s) ==
  /\ opened' = [opened EXCEPT ![s] = "open"]
  /\ listed' = listed \cup {s}

\* The adapter's run returns; its deferred removeStream is due.
RunReturns(s) ==
  /\ opened[s] # "none" /\ removal[s]["exit"] = "none"
  /\ cut[s] \/ handler[s] = Stopped
  /\ removal' = [removal EXCEPT ![s]["exit"] = "close"]
  /\ opened' = [opened EXCEPT ![s] = "closed"]
  /\ cut' = [cut EXCEPT ![s] = TRUE]
  /\ outgoing' = [outgoing EXCEPT ![s] = <<>>]
  /\ UNCHANGED <<allSubs, listed, handler, matched, processed, c2s, s2c>>

\* removeStream, the part under streamsMu; ProcessEvent holds it while it sends.
RemoveStream(s, r) ==
  /\ removal[s][r] = "close" /\ matched = {}
  /\ removal' = [removal EXCEPT ![s][r] = "unregister"]
  /\ listed' = listed \ {s}
  /\ opened' = [opened EXCEPT ![s] = IF s \in listed THEN "closed" ELSE @]
  /\ outgoing' = [outgoing EXCEPT ![s] = <<>>]
  /\ UNCHANGED <<allSubs, handler, matched, processed, c2s, s2c, cut>>

\* removeStream, UnregisterGateway.
UnregisterGateway(s, r) ==
  /\ removal[s][r] = "unregister"
  /\ removal' = [removal EXCEPT ![s][r] = "done"]
  /\ allSubs' = [i \in Ids |-> IF allSubs[i] = s THEN 0 ELSE allSubs[i]]
  /\ UNCHANGED <<opened, listed, handler, outgoing, matched, processed, c2s, s2c, cut>>

\* adapter.send: what is sent after the transport has ended is lost.
Transmit(s, m) ==
  s2c' = IF cut[s] THEN s2c ELSE [s2c EXCEPT ![s] = Append(@, m)]


\* The reading goroutine takes a message.  Messages that have arrived may be
\* returned after the connection has ended, and a subscribe is refused by a
\* closed stream before it reaches the manager.
ReceiveMessage(s) ==
  /\ handler[s] = Idle /\ c2s[s] # <<>>
  /\ LET m == Head(c2s[s])
     IN handler' = [handler EXCEPT ![s] =
          IF m.kind = "subscribe" /\ opened[s] = "closed" THEN Stopped
          ELSE [at |-> m.kind, id |-> m.id]]
  /\ c2s' = [c2s EXCEPT ![s] = Tail(@)]
  /\ UNCHANGED <<allSubs, opened, listed, removal, outgoing, matched, processed, s2c, cut>>

\* manager.Subscribe: an identifier in use is refused, whichever gateway uses it.
ManagerSubscribe(s) ==
  /\ handler[s].at = "subscribe"
  /\ LET i == handler[s].id
     IN /\ allSubs' = [allSubs EXCEPT ![i] = IF @ = 0 THEN s ELSE @]
        /\ handler' = [handler EXCEPT ![s].at =
                         IF allSubs[i] = 0 THEN "accepted" ELSE "rejected"]
  /\ UNCHANGED <<opened, listed, removal, outgoing, matched, processed, c2s, s2c, cut>>

\* The stream is checked again after the manager, then the response is sent.
Respond(s) ==
  /\ handler[s].at \in {"accepted", "rejected"} /\ opened[s] = "open"
  /\ Transmit(s, [kind |-> handler[s].at, id |-> handler[s].id, ev |-> 0, ids |-> {}])
  /\ handler' = [handler EXCEPT ![s] = Idle]
  /\ UNCHANGED <<allSubs, opened, listed, removal, outgoing, matched, processed, c2s, cut>>

\* A stream closed meanwhile: the new subscription is removed by its identifier.
RespondClosed(s) ==
  /\ handler[s].at \in {"accepted", "rejected"} /\ opened[s] # "open"
  /\ allSubs' = [allSubs EXCEPT ![handler[s].id] =
                   IF handler[s].at = "accepted" THEN 0 ELSE @]
  /\ handler' = [handler EXCEPT ![s] = Stopped]
  /\ UNCHANGED <<opened, listed, removal, outgoing, matched, processed, c2s, s2c, cut>>

\* manager.Unsubscribe, by identifier and without a look at the stream.
ManagerUnsubscribe(s) ==
  /\ handler[s].at = "unsubscribe"
  /\ allSubs' = [allSubs EXCEPT ![handler[s].id] = 0]
  /\ handler' = [handler EXCEPT ![s] = Idle]
  /\ UNCHANGED <<opened, listed, removal, outgoing, matched, processed, c2s, s2c, cut>>

\* A heartbeat is answered unless the stream is closed; then the adapter returns.
Heartbeat(s) ==
  /\ handler[s] = Idle /\ opened[s] = "closed"
  /\ handler' = [handler EXCEPT ![s] = Stopped]
  /\ UNCHANGED <<allSubs, opened, listed, removal, outgoing, matched, processed, c2s, s2c, cut>>

\* ProcessEvent, Match: the subscriptions of each gateway at this moment.
Match ==
  /\ matched = {} /\ processed < MaxEvents
  /\ processed' = processed + 1
  /\ matched' = {[to |-> s, ev |-> processed + 1, ids |-> {i \in Ids: allSubs[i] = s}] :
                 s \in {allSubs[i]: i \in Ids} \ {0}}
  /\ UNCHANGED <<allSubs, opened, listed, removal, handler, outgoing, c2s, s2c, cut>>

\* ProcessEvent, the send to one gateway: a queue that stays full until the send
\* timeout marks the gateway for disconnection.
Deliver(m) ==
  /\ m \in matched
  /\ matched' = matched \ {m}
  /\ LET room == Len(outgoing[m.to]) < OutgoingCap
     IN /\ outgoing' = IF m.to \in listed /\ room /\ opened[m.to] = "open"
                       THEN [outgoing EXCEPT ![m.to] = Append(@, [ev |-> m.ev, ids |-> m.ids])]
                       ELSE outgoing
        /\ removal' = IF m.to \in listed /\ ~room /\ removal[m.to]["slow"] = "none"
                      THEN [removal EXCEPT ![m.to]["slow"] = "close"]
                      ELSE removal
  /\ UNCHANGED <<allSubs, opened, listed, handler, processed, c2s, s2c, cut>>

\* The adapter's sending goroutine.
SendDelivery(s) ==
  /\ outgoing[s] # <<>> /\ opened[s] = "open"
  /\ outgoing' = [outgoing EXCEPT ![s] = Tail(@)]
  /\ Transmit(s, [kind |-> "delivery", id |-> 0,
                  ev |-> Head(outgoing[s]).ev, ids |-> Head(outgoing[s]).ids])
  /\ UNCHANGED <<allSubs, opened, listed, removal, handler, matched, processed, c2s, cut>>

\* The network, or either end, drops the connection.
Disconnect(s) ==
  /\ opened[s] # "none" /\ ~cut[s]
  /\ cut' = [cut EXCEPT ![s] = TRUE]
  /\ UNCHANGED <<allSubs, opened, listed, removal, handler, outgoing, matched,
                 processed, c2s, s2c>>

ServerStep(s) ==
  \/ RunReturns(s)
  \/ \E r \in Removers: RemoveStream(s, r) \/ UnregisterGateway(s, r)
  \/ ReceiveMessage(s) \/ ManagerSubscribe(s) \/ Respond(s) \/ RespondClosed(s)
  \/ ManagerUnsubscribe(s) \/ SendDelivery(s) \/ Disconnect(s)

\* The stream can no longer be trusted to deliver: it is closed, cut off, or
\* marked for disconnection.
Doomed(s) == opened[s] = "closed" \/ cut[s] \/ removal[s]["slow"] # "none"
=============================================================================
