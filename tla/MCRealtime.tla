----------------------------- MODULE MCRealtime -----------------------------
(***************************************************************************)
(* The realtime path, one part at a time: the link between gateway and     *)
(* streamer, the hub on the contract the link implements, a replica        *)
(* connection under a hub, and the authorisation gate.  The parts share no *)
(* variables; each behaviour exercises the one chosen at the start.        *)
(***************************************************************************)
EXTENDS RealtimeHub, ReplicaClient, ReplicaAuth, RemoteStream

CONSTANT Parts

VARIABLE part

everything == <<part, linkVars, hub, clientState, gate>>

Init == part \in Parts /\ LinkInit /\ HubInit /\ ClientInit /\ GateInit

Next ==
  /\ UNCHANGED part
  /\ \/ part = "link" /\ LinkNext /\ UNCHANGED <<hub, clientState, gate>>
     \/ part = "hub" /\ HubNext /\ UNCHANGED <<linkVars, clientState, gate>>
     \/ part = "client" /\ ClientNext /\ UNCHANGED <<linkVars, hub, gate>>
     \/ part = "gate" /\ GateNext /\ UNCHANGED <<linkVars, hub, clientState>>

Spec == Init /\ [][Next]_everything /\ HubFairness /\ GateFairness
=============================================================================
