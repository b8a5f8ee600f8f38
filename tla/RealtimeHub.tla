---------------------------- MODULE RealtimeHub ----------------------------
(***************************************************************************)
(* The realtime hub (hub.go, hub_replica.go) and the server's supervision  *)
(* of its stream (server.go), on a Stream of the streamer, used through    *)
(* StreamContract.  Of the replica connection (ReplicaClient) the hub sees *)
(* when it asks for a source, gives it up, and closes.  A source registers *)
(* once, so its name is also the name of its registration.                 *)
(***************************************************************************)
EXTENDS StreamContract

CONSTANT MaxStreams   \* bound: Stream objects over the server's life

ASSUME HubAssumption == MaxStreams \in Nat \ {0}

VARIABLES sid,        \* the Stream object the contract's variables describe
          owner,      \* h.streamOwner: its stream (0: nil), generation, retired
          peer,       \* the connection's entry in h.replicaConnections
          want,       \* the connection's view of a source: new, asking, registered, retired
          chosen,     \* the event note follows (0: none chosen yet)
          note,       \* how far it has come for a source: none, owed, heard
          rep,        \* the hubReplicaOwner of each source
          cleanup,    \* its registration's removal: due, running, none
          condemned,  \* per invalidating goroutine: what it has yet to release
          supervisor, \* superviseStream and receiveStream: pc and status snapshot
          held,       \* the delivery the receiver is about to broadcast
          stopped     \* the lifecycle context is cancelled, and the hub has closed

hubVars == <<sid, owner, peer, want, chosen, note, rep, cleanup, condemned,
             supervisor, held, stopped>>
hub == <<stream, hubVars>>

Nothing == [ev |-> 0, ids |-> {}]
Goroutines == {"supervisor", "worker", "hub"}
Connection == "connection"

HubInit ==
  /\ StreamInit
  /\ sid = 1 /\ owner = [sid |-> 1, gen |-> 1, retired |-> FALSE]
  /\ peer = [st |-> "none", sid |-> 0, gen |-> 0]
  /\ rep = [s \in Ids |-> [st |-> "none", sid |-> 0, gen |-> 0, reg |-> 0, ret |-> "none"]]
  /\ cleanup = [s \in Ids |-> "none"]
  /\ condemned = [g \in Goroutines |-> {}]
  /\ supervisor = [pc |-> "watch", gen |-> 1, conn |-> "connected"]
  /\ held = Nothing /\ stopped = "no"
  /\ want = [s \in Ids |-> "new"] /\ chosen = 0 /\ note = [s \in Ids |-> "none"]

Active(s) == rep[s].st \in {"subscribing", "granted", "live"}
\* The hub has a stream that may be used.
Usable == owner.sid # 0 /\ stopped # "closed" /\ ~owner.retired /\ conn = "connected"
\* The owners and connections of stream id that do not belong to generation keep.
Outdated(id, keep) ==
  {s \in Ids: Active(s) /\ rep[s].sid = id /\ rep[s].gen # keep}
    \cup (IF peer.st = "in" /\ peer.sid = id /\ peer.gen # keep THEN {Connection} ELSE {})

\* The goroutine g has collected what to release, and dropped the connection's entry.
Condemn(g, what) ==
  /\ condemned' = [condemned EXCEPT ![g] = @ \cup what]
  /\ peer' = IF Connection \in what THEN [peer EXCEPT !.st = "gone"] ELSE peer

(***************************************************************************)
(* Replica connections and registrations.                                  *)
(***************************************************************************)
RegisterReplicaConnection ==
  /\ peer.st = "none" /\ Usable
  /\ peer' = [st |-> "in", sid |-> owner.sid, gen |-> gen]
  /\ UNCHANGED <<stream, want, chosen, note, sid, owner, rep, cleanup, condemned, supervisor, held,
                 stopped>>

SubscribeReplica(s) ==
  /\ peer.st = "in" /\ want[s] = "new" /\ want' = [want EXCEPT ![s] = "asking"]
  /\ IF Usable
     THEN rep' = [rep EXCEPT ![s].st = "subscribing", ![s].sid = owner.sid, ![s].gen = gen]
     ELSE rep' = [rep EXCEPT ![s].st = "released", ![s].ret = "err"]
  /\ UNCHANGED <<stream, chosen, note, sid, owner, peer, cleanup, condemned, supervisor, held,
                 stopped>>

\* stream.Subscribe: the streamer holds the registration, the call returns it, or
\* the call fails (refused, timed out, cancelled, the generation has ended).
StreamSubscribe(s) ==
  /\ rep[s].st = "subscribing" /\ rep[s].sid = sid
  /\ Register(s)
  /\ UNCHANGED hubVars

StreamReturns(s) ==
  /\ rep[s].ret = "none" /\ rep[s].reg = 0 /\ rep[s].sid = sid
  /\ Acknowledge(s)
  /\ rep' = [rep EXCEPT ![s].st = IF @ = "subscribing" THEN "granted" ELSE @, ![s].reg = gen]
  /\ UNCHANGED <<want, chosen, note, sid, owner, peer, cleanup, condemned, supervisor, held, stopped>>

\* The second half of SubscribeReplica.
Valid(s) ==
  /\ rep[s].st = "granted" /\ want[s] = "asking"
  /\ Usable /\ owner.sid = rep[s].sid /\ gen = rep[s].reg /\ rep[s].gen = rep[s].reg

SubscribeReplicaEnds(s) ==
  /\ rep[s].ret = "none"
  /\ \/ Valid(s) /\ rep' = [rep EXCEPT ![s].st = "live", ![s].ret = "ok"] /\ UNCHANGED cleanup
     \/ /\ rep[s].reg # 0 /\ ~Valid(s)
        /\ rep' = [rep EXCEPT ![s].st = "released", ![s].ret = "err"]
        /\ cleanup' = [cleanup EXCEPT ![s] = "due"]
     \/ /\ rep[s].st \in {"subscribing", "released"} /\ rep[s].reg = 0
        /\ rep' = [rep EXCEPT ![s].st = "released", ![s].ret = "err"] /\ UNCHANGED cleanup
  /\ UNCHANGED <<stream, want, chosen, note, sid, owner, peer, condemned, supervisor, held, stopped>>

\* SubscribeReplica has returned to the registering goroutine of the connection.
SubscribeReturns(s) ==
  /\ want[s] = "asking" /\ rep[s].ret # "none"
  /\ want' = [want EXCEPT ![s] = IF rep[s].ret = "ok" THEN "registered" ELSE "retired"]
  /\ UNCHANGED <<stream, chosen, note, sid, owner, peer, rep, cleanup, condemned, supervisor, held,
                 stopped>>

\* The connection retires the source, or is closed by its peer.
GiveUp(S) ==
  /\ want' = [s \in Ids |-> IF s \in S THEN "retired" ELSE want[s]]
  /\ UNCHANGED <<stream, chosen, note, sid, owner, rep, cleanup, condemned, supervisor, held, stopped>>

Withdrawn(s) == want[s] \in {"asking", "registered"} /\ GiveUp({s}) /\ UNCHANGED peer
Hangup == peer.st = "in" /\ GiveUp(Ids) /\ peer' = [peer EXCEPT !.st = "gone"]

\* releaseReplicaOwner without a reason: the connection no longer holds the source.
ReleaseBackend(s) ==
  /\ rep[s].st = "live" /\ want[s] = "retired"
  /\ rep' = [rep EXCEPT ![s].st = "released"]
  /\ cleanup' = [cleanup EXCEPT ![s] = "due"]
  /\ UNCHANGED <<stream, want, chosen, note, sid, owner, peer, condemned, supervisor, held, stopped>>

\* releaseReplicaOwner with a reason, for a source g has collected.
releaseReplicaOwner(g, s) ==
  /\ s \in condemned[g]
  /\ condemned' = [condemned EXCEPT ![g] = @ \ {s}]
  /\ rep' = IF Active(s) THEN [rep EXCEPT ![s].st = "released"] ELSE rep
  /\ cleanup' = IF rep[s].st = "live" THEN [cleanup EXCEPT ![s] = "due"] ELSE cleanup
  /\ want' = IF Active(s) THEN [want EXCEPT ![s] = "retired"] ELSE want
  /\ UNCHANGED <<stream, chosen, note, sid, owner, peer, supervisor, held, stopped>>

closeConnection(g) ==
  /\ condemned[g] = {Connection}
  /\ condemned' = [condemned EXCEPT ![g] = {}]
  /\ want' = [s \in Ids |-> "retired"]
  /\ UNCHANGED <<stream, chosen, note, sid, owner, peer, rep, cleanup, supervisor, held, stopped>>

(***************************************************************************)
(* Removal of a registration from the streamer.                            *)
(***************************************************************************)
\* retireReplicaStream, by a worker or by whoever failed to start one.
retireReplicaStream ==
  IF owner.retired THEN UNCHANGED <<owner, condemned, peer>>
  ELSE /\ owner' = [owner EXCEPT !.retired = TRUE]
       /\ Condemn("worker", Outdated(owner.sid, 0))

\* A permit may be short: the pending registrations of every connection share them.
cleanupReplicaRegistration(s) ==
  /\ cleanup[s] = "due"
  /\ IF rep[s].sid # owner.sid \/ owner.retired \/ conn = "terminal" \/ stopped = "closed"
     THEN cleanup' = [cleanup EXCEPT ![s] = "none"] /\ UNCHANGED <<owner, condemned, peer>>
     ELSE \/ cleanup' = [cleanup EXCEPT ![s] = "running"] /\ UNCHANGED <<owner, condemned, peer>>
          \/ cleanup' = [cleanup EXCEPT ![s] = "none"] /\ retireReplicaStream
  /\ UNCHANGED <<stream, want, chosen, note, sid, rep, supervisor, held, stopped>>

\* The worker's Unsubscribe returns, with an error or not.
CleanupReturns(s) ==
  /\ cleanup[s] = "running"
  /\ cleanup' = [cleanup EXCEPT ![s] = "none"]
  /\ \/ /\ IF rep[s].sid = sid THEN Withdraw(s) ELSE UNCHANGED stream
        /\ UNCHANGED <<owner, condemned, peer>>
     \/ /\ UNCHANGED stream
        /\ IF rep[s].sid = owner.sid THEN retireReplicaStream
           ELSE UNCHANGED <<owner, condemned, peer>>
  /\ UNCHANGED <<want, chosen, note, sid, rep, supervisor, held, stopped>>

\* The worker has been blocked for ten seconds: its timer retires the stream.
CleanupTimeout(s) ==
  /\ cleanup[s] = "running" /\ rep[s].sid = owner.sid /\ ~owner.retired
  /\ retireReplicaStream
  /\ UNCHANGED <<stream, want, chosen, note, sid, rep, cleanup, supervisor, held, stopped>>

(***************************************************************************)
(* The stream: what the streamer does, and what the server does to it.     *)
(***************************************************************************)
StreamEmits ==
  /\ Emit
  /\ \/ UNCHANGED <<chosen, note>>
     \/ /\ chosen = 0 /\ chosen' = emitted + 1
        /\ note' = [s \in Ids |-> IF want[s] = "registered" THEN "owed" ELSE "none"]
  /\ UNCHANGED <<want, sid, owner, peer, rep, cleanup, condemned, supervisor, held, stopped>>

StreamMoves ==
  /\ \/ gen < MaxGen /\ ~lossy /\ Lose
     \/ conn = "connected" /\ gen < MaxGen /\ Retire
     \/ Reconnect \/ Terminate
     \/ \E s \in subs: ~Active(s) /\ Forget(s)
  /\ UNCHANGED hubVars

LossEnds == lossy /\ Retire /\ UNCHANGED hubVars

\* Close, by the worker that retired the stream or by the supervisor: the
\* generation ends and the stream is terminal.
CloseStream ==
  /\ owner.retired \/ supervisor.pc = "closing"
  /\ conn # "terminal" /\ conn' = "terminal"
  /\ gen' = IF conn = "connected" THEN gen + 1 ELSE gen
  /\ subs' = {} /\ acked' = {} /\ queue' = <<>> /\ lossy' = FALSE /\ UNCHANGED emitted
  /\ UNCHANGED hubVars

receive ==
  /\ held = Nothing /\ Receive
  /\ held' = Head(queue)
  /\ UNCHANGED <<want, chosen, note, sid, owner, peer, rep, cleanup, condemned, supervisor, stopped>>

Hears(S) ==
  note' = [s \in Ids |-> IF s \in S /\ note[s] = "owed" /\ held.ev = chosen /\ want[s] # "retired"
                         THEN "heard" ELSE note[s]]

\* A broadcast that takes the supervisor's word for the stream being in use.
MutantBroadcast ==
  /\ held # Nothing /\ held' = Nothing
  /\ IF owner.sid = sid /\ supervisor.pc = "watch"
     THEN Hears({s \in held.ids: rep[s].st = "live" /\ rep[s].sid = owner.sid})
     ELSE UNCHANGED note
  /\ UNCHANGED <<stream, want, chosen, sid, owner, peer, rep, cleanup, condemned, supervisor, stopped>>

\* BroadcastStreamDelivery and deliverReplicaFor.
BroadcastStreamDelivery ==
  /\ held # Nothing /\ held' = Nothing
  /\ IF owner.sid = sid /\ stopped = "no"
     THEN Hears({s \in held.ids: rep[s].st = "live" /\ rep[s].sid = owner.sid})
     ELSE UNCHANGED note
  /\ UNCHANGED <<stream, want, chosen, sid, owner, peer, rep, cleanup, condemned, supervisor, stopped>>

\* receiveStream's loop: the status has changed since the snapshot was taken.
Observe ==
  /\ supervisor.pc = "watch"
  /\ \/ /\ supervisor.gen # gen \/ supervisor.conn # conn
        /\ supervisor' = [pc |-> "invalidate", gen |-> gen, conn |-> conn]
     \/ stopped # "no" /\ supervisor' = [supervisor EXCEPT !.pc = "closing"]
  /\ UNCHANGED <<stream, want, chosen, note, sid, owner, peer, rep, cleanup, condemned, held, stopped>>

\* InvalidateReplicaStream, which reads the status again; then it waits for a change.
InvalidateReplicaStream ==
  LET fresh == conn = "connected"
      keep == IF fresh THEN gen ELSE 0
  IN
  /\ supervisor.pc = "invalidate"
  /\ supervisor' = [supervisor EXCEPT !.pc = "releasing"]
  /\ owner' = [owner EXCEPT !.gen = gen]
  /\ IF ~fresh \/ owner.gen # gen
     THEN Condemn("supervisor", Outdated(owner.sid, keep))
     ELSE UNCHANGED <<condemned, peer>>
  /\ UNCHANGED <<stream, want, chosen, note, sid, rep, cleanup, held, stopped>>

\* Everything it collected is released: on to the next wait, or the end of the stream.
Released ==
  /\ supervisor.pc = "releasing" /\ condemned["supervisor"] = {}
  /\ supervisor' = [supervisor EXCEPT !.pc = IF supervisor.conn = "terminal" THEN "closing" ELSE "watch"]
  /\ UNCHANGED <<stream, want, chosen, note, sid, owner, peer, rep, cleanup, condemned, held, stopped>>

\* SetStream(nil), once the stream is closed and its receiver has returned.
SetStreamNil ==
  /\ supervisor.pc = "closing" /\ conn = "terminal" /\ held = Nothing
  /\ owner' = [owner EXCEPT !.sid = 0, !.retired = FALSE]
  /\ Condemn("supervisor", Outdated(owner.sid, 0))
  /\ supervisor' = [supervisor EXCEPT !.pc = "redialling"]
  /\ UNCHANGED <<stream, want, chosen, note, sid, rep, cleanup, held, stopped>>

\* The delay has passed and the streamer has given a new Stream.  Bound: only after the
\* connection has come and gone; one still to come would find it as it found the first.
SetStream ==
  /\ peer.st = "gone"
  /\ supervisor.pc = "redialling" /\ condemned["supervisor"] = {} /\ stopped = "no"
  /\ sid < MaxStreams /\ sid' = sid + 1
  /\ owner' = [sid |-> sid + 1, gen |-> 1, retired |-> FALSE]
  /\ gen' = 1 /\ conn' = "connected" /\ subs' = {} /\ acked' = {} /\ queue' = <<>>
  /\ lossy' = FALSE /\ UNCHANGED emitted
  /\ supervisor' = [pc |-> "invalidate", gen |-> 1, conn |-> "connected"]
  /\ UNCHANGED <<want, chosen, note, peer, rep, cleanup, condemned, held, stopped>>

\* Shutdown cancels the lifecycle; Run then closes the hub.
Shutdown ==
  /\ stopped = "no" /\ stopped' = "stopping"
  /\ UNCHANGED <<stream, want, chosen, note, sid, owner, peer, rep, cleanup, condemned, supervisor, held>>

HubStops ==
  /\ stopped = "stopping" /\ stopped' = "closed"
  /\ Condemn("hub", {s \in Ids: Active(s)} \cup (IF peer.st = "in" THEN {Connection} ELSE {}))
  /\ UNCHANGED <<stream, want, chosen, note, sid, owner, rep, cleanup, supervisor, held>>

RegistrationStep(s) ==
  \/ StreamSubscribe(s) \/ StreamReturns(s) \/ SubscribeReplicaEnds(s)
  \/ SubscribeReturns(s) \/ ReleaseBackend(s)
  \/ cleanupReplicaRegistration(s) \/ CleanupReturns(s) \/ CleanupTimeout(s)

InvalidationStep(g) == closeConnection(g) \/ \E s \in Ids: releaseReplicaOwner(g, s)

SupervisorStep == Observe \/ InvalidateReplicaStream \/ Released \/ SetStreamNil \/ SetStream

HubNext ==
  \/ RegisterReplicaConnection \/ Hangup
  \/ \E s \in Ids: SubscribeReplica(s) \/ Withdrawn(s) \/ RegistrationStep(s)
  \/ \E g \in Goroutines: InvalidationStep(g)
  \/ StreamEmits \/ StreamMoves \/ LossEnds \/ CloseStream \/ receive \/ BroadcastStreamDelivery
  \/ SupervisorStep \/ Shutdown \/ HubStops

\* The receiver and the supervisor run, an invalidation once begun goes on, and a
\* generation that has lost something ends (RemoteStream: every loss ends its attempt).
HubFairness ==
  /\ WF_hub(receive) /\ WF_hub(BroadcastStreamDelivery) /\ WF_hub(SupervisorStep)
  /\ \A g \in Goroutines: WF_hub(InvalidationStep(g))
  /\ WF_hub(LossEnds) /\ WF_hub(CloseStream) /\ WF_hub(HubStops)

HubSpec == HubInit /\ [][HubNext]_hub /\ HubFairness

(***************************************************************************)
(* Properties.                                                             *)
(***************************************************************************)
\* The registration is about to end, and the client to notice.
Ending(s) ==
  \/ lossy \/ conn # "connected" \/ gen # rep[s].gen \/ sid # rep[s].sid
  \/ rep[s].st = "released" \/ owner.retired \/ stopped # "no"

\* An event matched while a source was registered is never silently lost by the hub:
\* it reaches the connection, or is on its way, or the registration is about to end
\* (deliverReplicaFor, SubscribeReplica, InvalidateReplicaStream).
NoSilentLoss ==
  \A s \in Ids:
    want[s] = "registered" /\ note[s] = "owed" =>
      \/ Ending(s)
      \/ \E d \in {held} \cup {queue[n]: n \in 1..Len(queue)}: s \in d.ids /\ d.ev = chosen

\* A client with a registered source hears of a change, or finds its source ended:
\* it is never left waiting on a registration that nobody serves any more
\* (BroadcastStreamDelivery, superviseStream, invalidateReplicaOwner).
HeardOrEnded ==
  \A s \in Ids: (want[s] = "registered" /\ note[s] = "owed") ~> (note[s] = "heard" \/ want[s] = "retired")
=============================================================================
