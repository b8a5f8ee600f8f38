---------------------------- MODULE RemoteStream ----------------------------
(***************************************************************************)
(* The gateway's remoteStream over the streamer's service: registrations   *)
(* acknowledged by one transport generation, cleanup of abandoned ones,    *)
(* retirement of a failed attempt, and restoration of the active           *)
(* registrations by the next one.  An attempt is named by its generation.  *)
(***************************************************************************)
EXTENDS StreamerService

CONSTANTS SendsCap,  \* capacity of remoteAttempt.sends
          RecvCap    \* capacity of remoteStream.recv

ASSUME LinkAssumption == /\ MaxGen \in Nat \ {0} /\ MaxEvents \in Nat
                         /\ OutgoingCap \in Nat \ {0} /\ SendsCap \in Nat \ {0}
                         /\ RecvCap \in Nat \ {0}

VARIABLES generation,  \* status.Generation
          state,       \* status.State, "terminal" once status.Terminal
          attempt,     \* rs.attempt, 0 for nil
          active,      \* rs.active
          pending,     \* rs.pending
          call,        \* the register call for an identifier
          todo,        \* registrations serve has yet to restore
          sends,       \* remoteAttempt.sends of the current attempt
          recv,        \* rs.recv
          granted,     \* the generation of the Registration Subscribe returned, 0 if none
          closing      \* Close has been called

clientVars == <<generation, state, attempt, active, pending, call, todo, sends,
                recv, granted, closing>>
linkVars == <<serverVars, clientVars>>

NoEntry == [att |-> 0, restoring |-> FALSE, withdrawn |-> FALSE, resp |-> "none"]
Entry(r) == [att |-> attempt, restoring |-> r, withdrawn |-> FALSE, resp |-> "none"]
Op(k, i, c) == [kind |-> k, id |-> i, cleanup |-> c]

LinkInit ==
  /\ ServerInit
  /\ generation = 1 /\ state = "connected" /\ attempt = 1
  /\ active = {} /\ pending = [i \in Ids |-> NoEntry]
  /\ call = [i \in Ids |-> "new"] /\ todo = {}
  /\ sends = <<>> /\ recv = <<>>
  /\ granted = [i \in Ids |-> 0] /\ closing = FALSE

\* retireLocked and the cancellation that follows it: the attempt is over.
RetireAttempt ==
  /\ attempt' = 0
  /\ generation' = generation + 1
  /\ state' = "reconnecting"
  /\ sends' = <<>> /\ todo' = {}
  /\ cut' = [cut EXCEPT ![attempt] = TRUE]
  /\ s2c' = [s2c EXCEPT ![attempt] = <<>>]

\* a.fail: the reader's or the writer's error, or the activity timeout.
FailAttempt ==
  /\ attempt # 0 /\ cut[attempt]
  /\ RetireAttempt
  /\ UNCHANGED <<allSubs, opened, listed, removal, handler, outgoing, matched, processed,
                 c2s, active, pending, call, recv, granted, closing>>

\* The start of register: the entry is charged and the request queued; a full
\* queue abandons the entry.
BeginRegister(i, restoring) ==
  /\ pending' = [pending EXCEPT ![i] = Entry(restoring)]
  /\ IF Len(sends) < SendsCap
     THEN /\ sends' = Append(sends, Op("subscribe", i, FALSE))
          /\ call' = [call EXCEPT ![i] = "waiting"]
     ELSE /\ call' = [call EXCEPT ![i] = "abandon"]
          /\ UNCHANGED sends
  /\ UNCHANGED <<generation, state, attempt, active, recv, granted, closing>>

Subscribe(i) ==
  /\ call[i] = "new" /\ attempt # 0 /\ state = "connected"
  /\ BeginRegister(i, FALSE)
  /\ UNCHANGED <<serverVars, todo>>

Restoring(i) == granted[i] # 0
Returned(i) == IF Restoring(i) THEN "done" ELSE "failed"
Busy == \E i \in Ids: Restoring(i) /\ call[i] \in {"waiting", "withdrawn", "abandon", "giveup"}

\* serve restores one registration after the other; one withdrawn is skipped.
RestoreNext(i) ==
  /\ i \in todo /\ attempt # 0 /\ ~Busy
  /\ todo' = todo \ {i}
  /\ IF i \in active THEN BeginRegister(i, TRUE)
     ELSE UNCHANGED <<generation, state, attempt, active, pending, call, sends, recv,
                      granted, closing>>
  /\ UNCHANGED serverVars

\* writer: a request whose caller has given up is not sent; an unsubscribe that
\* cleans up releases its entry.
Write ==
  /\ attempt # 0 /\ sends # <<>> /\ ~cut[attempt]
  /\ sends' = Tail(sends)
  /\ LET op == Head(sends)
     IN \E sent \in CASE op.kind = "unsubscribe" \/ call[op.id] = "waiting" -> {TRUE}
                      [] call[op.id] \in {"withdrawn", "abandon"} -> BOOLEAN
                      [] OTHER -> {FALSE}:
          /\ c2s' = IF sent
                    THEN [c2s EXCEPT ![attempt] = Append(@, [kind |-> op.kind, id |-> op.id])]
                    ELSE c2s
          /\ pending' = IF op.cleanup /\ pending[op.id].att = attempt
                        THEN [pending EXCEPT ![op.id] = NoEntry] ELSE pending
  /\ UNCHANGED <<allSubs, opened, listed, removal, handler, outgoing, matched, processed,
                 s2c, cut, generation, state, attempt, active, call, todo, recv, granted, closing>>

\* reader: a response goes to its entry, a delivery to the receive queue.
Read ==
  /\ attempt # 0 /\ s2c[attempt] # <<>>
  /\ LET m == Head(s2c[attempt])
     IN IF m.kind = "delivery"
        THEN /\ Len(recv) < RecvCap
             /\ recv' = Append(recv, [gen |-> attempt, ev |-> m.ev, ids |-> m.ids])
             /\ UNCHANGED pending
        ELSE /\ pending' = IF pending[m.id].att = attempt /\ pending[m.id].resp = "none"
                           THEN [pending EXCEPT ![m.id].resp = m.kind] ELSE pending
             /\ UNCHANGED recv
  /\ s2c' = [s2c EXCEPT ![attempt] = Tail(@)]
  /\ UNCHANGED <<allSubs, opened, listed, removal, handler, outgoing, matched, processed,
                 c2s, cut, generation, state, attempt, active, call, todo, sends, granted, closing>>

\* register, the response of the attempt that is still current.
RegisterAccepted(i) ==
  /\ call[i] = "waiting" /\ attempt # 0
  /\ pending[i].att = attempt /\ pending[i].resp = "accepted"
  /\ IF Restoring(i) /\ i \notin active
     THEN /\ call' = [call EXCEPT ![i] = "withdrawn"]
          /\ UNCHANGED <<active, pending, granted>>
     ELSE /\ call' = [call EXCEPT ![i] = "done"]
          /\ active' = active \cup {i}
          /\ pending' = [pending EXCEPT ![i] = NoEntry]
          /\ granted' = [granted EXCEPT ![i] = IF @ = 0 THEN generation ELSE @]
  /\ UNCHANGED <<serverVars, generation, state, attempt, todo, sends, recv, closing>>

\* register, a refusal; serve ends the attempt that cannot restore.
RegisterRejected(i) ==
  /\ call[i] = "waiting" /\ attempt # 0
  /\ pending[i].att = attempt /\ pending[i].resp = "rejected"
  /\ IF Restoring(i) /\ i \notin active
     THEN /\ call' = [call EXCEPT ![i] = "withdrawn"]
          /\ UNCHANGED pending
     ELSE /\ call' = [call EXCEPT ![i] = IF Restoring(i) THEN "giveup" ELSE "failed"]
          /\ pending' = [pending EXCEPT ![i] = NoEntry]
  /\ UNCHANGED <<serverVars, generation, state, attempt, active, todo, sends, recv, granted,
                 closing>>

\* register, the other cases of its select: withdrawn, timed out, attempt over.
RegisterWithdrawn(i) ==
  /\ call[i] = "waiting" /\ pending[i].withdrawn
  /\ call' = [call EXCEPT ![i] = "withdrawn"]
  /\ UNCHANGED <<serverVars, generation, state, attempt, active, pending, todo, sends, recv,
                 granted, closing>>

RegisterTimesOut(i) ==
  /\ call[i] = "waiting" /\ pending[i].att = attempt /\ attempt # 0
  /\ call' = [call EXCEPT ![i] = "abandon"]
  /\ UNCHANGED <<serverVars, generation, state, attempt, active, pending, todo, sends, recv,
                 granted, closing>>

RegisterAttemptOver(i) ==
  /\ call[i] \in {"waiting", "withdrawn", "abandon"}
  /\ pending[i].att # attempt \/ attempt = 0
  /\ call' = [call EXCEPT ![i] = Returned(i)]
  /\ pending' = [pending EXCEPT ![i] = NoEntry]
  /\ UNCHANGED <<serverVars, generation, state, attempt, active, todo, sends, recv, granted,
                 closing>>

MutantAbandon(i) ==
  /\ call[i] \in {"withdrawn", "abandon"} /\ attempt # 0 /\ pending[i].att = attempt
  /\ call' = [call EXCEPT ![i] =
                IF Restoring(i) /\ call[i] = "abandon" THEN "giveup" ELSE Returned(i)]
  /\ pending' = [pending EXCEPT ![i] = NoEntry]
  /\ UNCHANGED <<serverVars, generation, state, attempt, active, todo, sends, recv, granted,
                 closing>>

\* abandon: the cleanup is queued behind the request; without room the attempt
\* fails.  serve gives up after a restoration that was not withdrawn.
Abandon(i) ==
  /\ call[i] \in {"withdrawn", "abandon"} /\ attempt # 0 /\ pending[i].att = attempt
  /\ call' = [call EXCEPT ![i] =
                IF Restoring(i) /\ call[i] = "abandon" THEN "giveup" ELSE Returned(i)]
  /\ IF Len(sends) < SendsCap
     THEN /\ sends' = Append(sends, Op("unsubscribe", i, TRUE))
          /\ UNCHANGED <<generation, state, attempt, todo, cut, s2c>>
     ELSE RetireAttempt
  /\ UNCHANGED <<allSubs, opened, listed, removal, handler, outgoing, matched, processed,
                 c2s, active, pending, recv, granted, closing>>

\* serve returns the error of a restoration, which retires the attempt.
ServeGivesUp(i) ==
  /\ call[i] = "giveup"
  /\ call' = [call EXCEPT ![i] = "done"]
  /\ IF attempt # 0 THEN RetireAttempt
     ELSE UNCHANGED <<generation, state, attempt, sends, todo, cut, s2c>>
  /\ UNCHANGED <<allSubs, opened, listed, removal, handler, outgoing, matched, processed,
                 c2s, active, pending, recv, granted, closing>>

\* run: the entries of the old attempt are dropped and a new one is opened.
Redial ==
  /\ attempt = 0 /\ state = "reconnecting" /\ ~closing /\ ~Busy /\ generation <= MaxGen
  /\ attempt' = generation /\ todo' = active
  /\ pending' = [i \in Ids |-> NoEntry]
  /\ GRPCStream(generation)
  /\ UNCHANGED <<allSubs, removal, handler, outgoing, matched, processed, c2s, s2c, cut,
                 generation, state, active, call, sends, recv, granted, closing>>

\* serve: the attempt is in use once every registration has been restored.
Restored ==
  /\ attempt # 0 /\ state = "reconnecting" /\ todo = {} /\ ~Busy
  /\ state' = "connected"
  /\ UNCHANGED <<serverVars, generation, attempt, active, pending, call, todo, sends, recv,
                 granted, closing>>

\* run ends: the stream is closed or its retries are used up.
EndRun ==
  /\ attempt = 0 /\ state = "reconnecting" /\ ~Busy
  /\ state' = "terminal"
  /\ pending' = [i \in Ids |-> NoEntry] /\ recv' = <<>>
  /\ UNCHANGED <<serverVars, generation, attempt, active, call, todo, sends, granted, closing>>

Unsubscribe(i) ==
  /\ i \in active /\ state # "terminal" /\ ~closing
  /\ active' = active \ {i}
  /\ pending' = [pending EXCEPT ![i].withdrawn = @ \/ pending[i].restoring]
  /\ CASE attempt = 0 -> UNCHANGED <<generation, state, attempt, sends, todo, cut, s2c>>
       [] attempt # 0 /\ Len(sends) < SendsCap ->
            /\ sends' = Append(sends, Op("unsubscribe", i, FALSE))
            /\ UNCHANGED <<generation, state, attempt, todo, cut, s2c>>
       [] OTHER -> RetireAttempt
  /\ UNCHANGED <<allSubs, opened, listed, removal, handler, outgoing, matched, processed,
                 c2s, call, recv, granted, closing>>

\* Recv: a delivery of an earlier generation is skipped.
Recv ==
  /\ recv # <<>>
  /\ recv' = Tail(recv)
  /\ UNCHANGED <<serverVars, generation, state, attempt, active, pending, call, todo, sends,
                 granted, closing>>

Close ==
  /\ ~closing /\ state # "terminal" /\ closing' = TRUE
  /\ IF attempt # 0 THEN RetireAttempt
     ELSE UNCHANGED <<generation, state, attempt, sends, todo, cut, s2c>>
  /\ UNCHANGED <<allSubs, opened, listed, removal, handler, outgoing, matched, processed,
                 c2s, active, pending, call, recv, granted>>

Server(s) ==
  /\ ServerStep(s)
  /\ UNCHANGED clientVars

\* The writer sends heartbeats while the attempt is in use.
ClosedHeartbeat ==
  /\ attempt # 0 /\ state = "connected"
  /\ Heartbeat(attempt)
  /\ UNCHANGED clientVars

Process ==
  /\ Match \/ \E m \in matched: Deliver(m)
  /\ UNCHANGED clientVars

RegisterStep(i) ==
  \/ RegisterAccepted(i) \/ RegisterRejected(i) \/ RegisterWithdrawn(i)
  \/ RegisterAttemptOver(i) \/ Abandon(i) \/ ServeGivesUp(i) \/ RestoreNext(i)

LinkNext ==
  \/ \E i \in Ids: Subscribe(i) \/ Unsubscribe(i) \/ RegisterStep(i) \/ RegisterTimesOut(i)
  \/ FailAttempt \/ Write \/ Read \/ Redial \/ Restored \/ EndRun \/ Recv \/ Close
  \/ \E s \in Streams: Server(s)
  \/ ClosedHeartbeat \/ Process

LinkSpec == LinkInit /\ [][LinkNext]_linkVars

(***************************************************************************)
(* The stream as its user sees it.                                         *)
(***************************************************************************)
Deliveries(q) == [n \in 1..Len(q) |-> [ev |-> q[n].ev, ids |-> q[n].ids]]
OfGeneration(d) == d.gen = generation
IsDelivery(m) == m.kind = "delivery"
InProcess == {m \in matched: m.to = attempt}

InFlight ==
  IF attempt = 0 THEN <<>>
  ELSE Deliveries(SelectSeq(recv, OfGeneration))
       \o Deliveries(SelectSeq(s2c[attempt], IsDelivery))
       \o outgoing[attempt]
       \o Deliveries(IF InProcess = {} THEN <<>> ELSE <<CHOOSE m \in InProcess: TRUE>>)

Contract == INSTANCE StreamContract WITH
  gen <- generation, conn <- state,
  subs <- IF attempt = 0 THEN {} ELSE {i \in Ids: allSubs[i] = attempt},
  acked <- {i \in active: granted[i] = generation},
  queue <- InFlight,
  lossy <- attempt # 0 /\ Doomed(attempt),
  emitted <- processed


\* Nothing is registered for ever on behalf of nobody: when no message and no
\* removal is under way, the streamer holds only active registrations.
Quiet ==
  /\ \A s \in Streams: /\ c2s[s] = <<>> \/ opened[s] # "open"
                       /\ handler[s] \in {Idle, Stopped}
                       /\ opened[s] = "closed" => \E r \in Removers: removal[s][r] = "done"
                       /\ cut[s] => opened[s] # "open"
  /\ sends = <<>> /\ \A i \in Ids: call[i] \in {"new", "done", "failed"}

NoOrphanSubscription ==
  Quiet => \A i \in Ids: allSubs[i] # 0 => i \in active /\ allSubs[i] = attempt
=============================================================================
