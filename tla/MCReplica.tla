----------------------------- MODULE MCReplica -----------------------------
(***************************************************************************)
(* Instances of ReplicaSync, chosen by part: a replica that follows the    *)
(* source while it pushes, crashes included; two documents, two edits and  *)
(* the decisions after a failure; two documents in the first rounds, with  *)
(* documents that leave the source; one document with a longer history; two *)
(* rounds around an edit.  Two more parts are the physical epochs of an    *)
(* alias under maintenance (ReplicaEpochs) and a watch query over an alias *)
(* (ReplicaQuery).                                                         *)
(***************************************************************************)
EXTENDS ReplicaEpochs, ReplicaQuery

CONSTANTS Parts, Values, Slots, GroupLimit, MaxAttempts, PreImages

VARIABLES part, store, log, floor, pull, reqs, fork, assumed, member, man, downcp, ctl,
          used, edit, seen, repeated, skipped, up, down, co

syncVars == <<store, log, floor, pull, reqs, fork, assumed, member, man, downcp, ctl,
              used, edit, seen, repeated, skipped, up, down, co>>

Steady == INSTANCE ReplicaSync WITH
  Docs <- {1}, Matching <- Values, MaxLog <- 3, MaxOthers <- 1,
  MaxEdits <- 1, MaxFaults <- 1, MaxRounds <- 1
Decide == INSTANCE ReplicaSync WITH
  Docs <- {1, 2}, Matching <- Values, MaxLog <- 2, MaxOthers <- 1,
  MaxEdits <- 2, MaxFaults <- 1, MaxRounds <- 0
First == INSTANCE ReplicaSync WITH
  Docs <- {1, 2}, Matching <- {"x"}, MaxLog <- 1, MaxOthers <- 1,
  MaxEdits <- 0, MaxFaults <- 1, MaxRounds <- 2
Feed == INSTANCE ReplicaSync WITH
  Docs <- {1}, Values <- {"x"}, Matching <- {"x"}, MaxLog <- 3, MaxOthers <- 3,
  MaxEdits <- 0, MaxFaults <- 0, MaxRounds <- 1
Rounds == INSTANCE ReplicaSync WITH
  Docs <- {1}, Matching <- Values, MaxLog <- 1, MaxOthers <- 1,
  MaxEdits <- 1, MaxFaults <- 0, MaxRounds <- 2

\* What is the same for every replica is in the first value of each document.
MCInit ==
  /\ part \in Parts
  /\ CASE part = "steady" -> Steady!SteadyInit /\ store[1] = Steady!NoRow
       [] part = "decide" -> Decide!SteadyInit /\ store[1].val = "x" /\ store[2].val = "x"
       [] part = "first" -> First!Init
       [] part = "feed" -> Feed!Init
       [] part = "rounds" -> Rounds!SteadyInit /\ store[1].val # "y"
       [] part \in {"epochs", "query"} -> Feed!Init /\ store[1] = Feed!NoRow
  /\ Init /\ QueryInit

MCNext ==
  /\ \/ /\ \/ part = "steady" /\ Steady!Next
           \/ part = "decide" /\ Decide!Next
           \/ part = "first" /\ First!Next
           \/ part = "feed" /\ Feed!Next
           \/ part = "rounds" /\ Rounds!Next
        /\ UNCHANGED <<vars, queryVars>>
     \/ part = "epochs" /\ Next /\ UNCHANGED <<syncVars, queryVars>>
     \/ part = "query" /\ QueryNext /\ UNCHANGED <<syncVars, vars>>
  /\ UNCHANGED part

MCSpec == MCInit /\ [][MCNext]_<<part, vars, queryVars, syncVars>>

\* No edit is lost: until the server has held its content, or its user has given it up,
\* an edit stays the replica's own row and stays pending, through downloads that race it,
\* lost answers, crashes and decisions (upstream.ts, downstream.ts, recovery.ts).
NoEditLost == (part = "steady" => Steady!EditKept) /\ (part = "decide" => Decide!EditKept)

\* No edit is applied twice by the server unless its user accepted that, although requests
\* outlive their client and answers are lost: the durable marker of upstream.ts.
NoEditRepeated == (part = "steady" => Steady!AppliedOnce) /\ (part = "decide" => Decide!AppliedOnce)

\* A ready replica shows every document that no edit covers as the server had it at the
\* saved cursor: scans race with writers, pages are cut anywhere, histories expire.
ShowsSource ==
  /\ part = "steady" => Steady!ViewExact
  /\ part = "decide" => Decide!ViewExact
  /\ part = "first" => First!ViewExact
  /\ part = "feed" => Feed!ViewExact
  /\ part = "rounds" => Rounds!ViewExact

\* The same for documents whose last event was left out because of an edit that has
\* since come to nothing: the server is not asked again.
Converges == part = "rounds" => Rounds!ViewConverges
=============================================================================
