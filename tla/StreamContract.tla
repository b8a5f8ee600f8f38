--------------------------- MODULE StreamContract ---------------------------
(***************************************************************************)
(* What the gateway may rely on when it holds a Stream of the streamer     *)
(* (streamer/interface.go): a registration belongs to one transport        *)
(* generation, and while that generation lasts every event matched by an   *)
(* acknowledged registration is delivered in order, unless the generation  *)
(* is already lost and about to end.                                       *)
(***************************************************************************)
EXTENDS StreamBounds, Naturals, Sequences, FiniteSets

VARIABLES gen,      \* StreamStatus.Generation
          conn,     \* StreamStatus.State, "terminal" once it never reconnects
          subs,     \* registrations that events of this generation are matched against
          acked,    \* registrations returned by Subscribe in this generation
          queue,    \* deliveries of this generation not yet received
          lossy,    \* this generation is lost and has yet to end
          emitted   \* events matched so far

stream == <<gen, conn, subs, acked, queue, lossy, emitted>>

StreamInit ==
  /\ gen = 1 /\ conn = "connected"
  /\ subs = {} /\ acked = {} /\ queue = <<>>
  /\ lossy = FALSE /\ emitted = 0

\* The streamer starts to match events against id.
Register(id) ==
  /\ conn # "terminal"
  /\ subs' = subs \cup {id}
  /\ UNCHANGED <<gen, conn, acked, queue, lossy, emitted>>

\* Subscribe returns the registration of id in this generation.
Acknowledge(id) ==
  /\ conn = "connected" /\ (id \in subs \/ lossy)
  /\ acked' = acked \cup {id}
  /\ UNCHANGED <<gen, conn, subs, queue, lossy, emitted>>

\* Unsubscribe, a refused or an abandoned registration.
Withdraw(id) ==
  /\ acked' = acked \ {id}
  /\ UNCHANGED <<gen, conn, subs, queue, lossy, emitted>>

Forget(id) ==
  /\ id \notin acked \/ lossy
  /\ subs' = subs \ {id}
  /\ UNCHANGED <<gen, conn, acked, queue, lossy, emitted>>

\* One event is matched; it is on its way to every registration held.
Emit ==
  /\ emitted < MaxEvents
  /\ emitted' = emitted + 1
  /\ queue' = IF subs = {} THEN queue
              ELSE Append(queue, [ev |-> emitted + 1, ids |-> subs])
  /\ UNCHANGED <<gen, conn, subs, acked, lossy>>

\* Recv returns the oldest delivery of this generation.
Receive ==
  /\ queue # <<>>
  /\ queue' = Tail(queue)
  /\ UNCHANGED <<gen, conn, subs, acked, lossy, emitted>>

\* The deliveries at the positions keep survive.
Kept(keep) ==
  LET pos[n \in 0..Len(queue)] ==
        IF n = 0 THEN <<>>
        ELSE IF n \in keep THEN Append(pos[n - 1], queue[n]) ELSE pos[n - 1]
  IN pos[Len(queue)]

\* The transport of this generation is failing: deliveries may be lost.
Lose ==
  /\ lossy' = TRUE
  /\ \E keep \in SUBSET (1..Len(queue)): queue' = Kept(keep)
  /\ \E gone \in SUBSET subs: subs' = subs \ gone
  /\ UNCHANGED <<gen, conn, acked, emitted>>

\* The generation ends; nothing of it is delivered any more.
Retire ==
  /\ conn # "terminal"
  /\ gen' = gen + 1 /\ conn' = "reconnecting"
  /\ subs' = {} /\ acked' = {} /\ queue' = <<>> /\ lossy' = FALSE
  /\ UNCHANGED emitted

\* The new generation has restored the registrations and is in use.
Reconnect ==
  /\ conn = "reconnecting" /\ conn' = "connected"
  /\ UNCHANGED <<gen, subs, acked, queue, lossy, emitted>>

Terminate ==
  /\ conn = "reconnecting" /\ conn' = "terminal"
  /\ subs' = {} /\ queue' = <<>> /\ lossy' = FALSE
  /\ UNCHANGED <<gen, acked, emitted>>

StreamNext ==
  \/ \E id \in Ids: Register(id) \/ Acknowledge(id) \/ Withdraw(id) \/ Forget(id)
  \/ Emit \/ Receive \/ Lose \/ Retire \/ Reconnect \/ Terminate

StreamSpec == StreamInit /\ [][StreamNext]_stream
=============================================================================
