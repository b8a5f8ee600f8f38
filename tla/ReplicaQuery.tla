---------------------------- MODULE ReplicaQuery ----------------------------
(***************************************************************************)
(* Watch queries over a replica (query.ts): one shared query state, fed by *)
(* the change notifications of one of the open handles on the alias,       *)
(* scans and re-reads documents through separate short accesses, and calls *)
(* its observers back.  Documents change between any two accesses; the     *)
(* alias can switch to another view (another epoch, generation or set of   *)
(* protected documents), which changes what is visible without any         *)
(* notification for the documents; the handle that feeds the query can be  *)
(* closed under it.                                                        *)
(***************************************************************************)
EXTENDS Naturals, FiniteSets

CONSTANTS QDocs,       \* documents, scanned in this order: 1..n
          QVals,       \* what a document can show; 0 is nothing that matches
          Handles,     \* handles on the alias, in the order they were opened
          Attempts,    \* rebuildAttempts of the limits
          WorkLimit,   \* scanCandidates of the limits
          MaxChanges,  \* bound: document writes
          MaxViews     \* bound: view switches

VARIABLES
  val,      \* what the alias shows of each document now
  view,     \* the identity of the current view
  changes,  \* bound: document writes so far
  handle,   \* per handle: open, and the notifications still on their way
  obs,      \* per handle: its watch
  q         \* the query state and the run in progress

queryVars == <<val, view, changes, handle, obs, q>>

EmptyIndex == [d \in QDocs |-> 0]

NoWatch == [on |-> FALSE, used |-> FALSE, shown |-> FALSE, last |-> EmptyIndex]

NoQuery == [alive |-> FALSE, source |-> 0, pending |-> {}, viewHint |-> FALSE,
         dirty |-> FALSE, timer |-> FALSE, pc |-> "idle", attempt |-> 0,
         work |-> 0, target |-> 0, index |-> EmptyIndex, indexView |-> 0,
         build |-> EmptyIndex, at |-> 0, todo |-> {}]

QueryInit ==
  /\ val = EmptyIndex
  /\ view = 1
  /\ changes = 0
  /\ handle = [h \in Handles |-> [open |-> TRUE, events |-> {}]]
  /\ obs = [h \in Handles |-> NoWatch]
  /\ q = NoQuery

-----------------------------------------------------------------------------
(* The alias: writes with their notifications, and switches of the view.   *)

Notify(what) ==
  handle' = [h \in Handles |->
               IF handle[h].open
               THEN [handle[h] EXCEPT !.events = @ \cup {what}]
               ELSE handle[h]]

WriteDocument ==
  /\ changes < MaxChanges
  /\ \E d \in QDocs, v \in QVals :
       /\ v # val[d]
       /\ val' = [val EXCEPT ![d] = v]
       /\ Notify([kind |-> "row", doc |-> d])
  /\ changes' = changes + 1
  /\ UNCHANGED <<view, obs, q>>

(* publishManifestView: a view event, and no event for the document that   *)
(* the new view shows differently.                                         *)
SwitchView ==
  /\ view <= MaxViews
  /\ view' = view + 1
  /\ \E d \in QDocs, v \in QVals : val' = [val EXCEPT ![d] = v]
  /\ Notify([kind |-> "view", doc |-> 0])
  /\ UNCHANGED <<changes, obs, q>>

-----------------------------------------------------------------------------
(* The query state.                                                        *)

Running(s) == s.pc # "idle"

(* schedule: nothing to do while a run or a retry is already on its way.   *)
Schedule(s) ==
  IF s.alive /\ ~Running(s) /\ ~s.timer
  THEN [s EXCEPT !.pc = "bind", !.viewHint = FALSE, !.attempt = 0, !.work = 0]
  ELSE s

Wake(s) == Schedule([s EXCEPT !.timer = FALSE])

Unshown == \E h \in Handles : obs[h].on /\ ~obs[h].shown

MutantFinish(s) ==
  LET rest == [s EXCEPT !.pc = "idle", !.todo = {}, !.build = EmptyIndex,
                        !.at = 0, !.target = 0, !.attempt = 0, !.work = 0]
  IN  IF ~s.alive THEN NoQuery
      ELSE IF rest.pending # {} \/ rest.dirty \/ Unshown THEN Schedule(rest)
      ELSE rest

(* The end of a run: what arrived meanwhile starts another one.            *)
Finish(s) ==
  LET rest == [s EXCEPT !.pc = "idle", !.todo = {}, !.build = EmptyIndex,
                        !.at = 0, !.target = 0, !.attempt = 0, !.work = 0]
  IN  IF ~s.alive THEN NoQuery
      ELSE IF rest.pending # {} \/ rest.dirty \/ Unshown THEN Schedule(rest)
      ELSE IF rest.viewHint THEN [rest EXCEPT !.timer = TRUE]
      ELSE rest

(* contended: try again after a delay.                                     *)
Contended(s) == Finish([s EXCEPT !.timer = TRUE])

(* Another attempt at the rebuild; the index will not be used again.       *)
Again(s) ==
  LET next == [s EXCEPT !.dirty = TRUE, !.attempt = @ + 1, !.pc = "bind",
                        !.index = EmptyIndex, !.indexView = 0, !.build = EmptyIndex,
                        !.at = 0, !.todo = {}]
  IN  IF next.attempt < Attempts THEN next ELSE Contended(next)

(* Never empty while the query lives: closing the last handle ends it.     *)
OpenHandles == {h \in Handles : handle[h].open}

(* bind: the first open handle feeds the query; a new one may have missed  *)
(* notifications, so the index is rebuilt.                                 *)
Bind ==
  /\ q.pc = "bind"
  /\ LET access == CHOOSE h \in OpenHandles : \A g \in OpenHandles : h <= g
     IN  q' = [q EXCEPT !.pc = "view", !.source = access,
                        !.dirty = @ \/ q.source # access]
  /\ UNCHANGED <<val, view, changes, handle, obs>>

SourceOpen == handle[q.source].open

ReadView ==
  /\ q.pc = "view"
  /\ q' = IF ~SourceOpen THEN Again(q)
          ELSE IF q.dirty \/ q.indexView # view
               THEN [q EXCEPT !.pc = "scan", !.target = view, !.dirty = FALSE,
                              !.build = EmptyIndex, !.at = 1]
               ELSE [q EXCEPT !.pc = "drain", !.target = view]
  /\ UNCHANGED <<val, view, changes, handle, obs>>

(* scan and update: one document after the other, each under the view the  *)
(* run expects; the complete index is installed at the end.                *)
ScanDocument ==
  /\ q.pc = "scan"
  /\ q' = IF ~SourceOpen \/ view # q.target THEN Again(q)
          ELSE IF q.at \notin QDocs
               THEN [q EXCEPT !.pc = "drain", !.index = q.build,
                              !.indexView = q.target, !.build = EmptyIndex, !.at = 0]
          ELSE IF q.work >= WorkLimit THEN Contended([q EXCEPT !.dirty = TRUE])
          ELSE [q EXCEPT !.build[q.at] = val[q.at], !.at = @ + 1, !.work = @ + 1]
  /\ UNCHANGED <<val, view, changes, handle, obs>>

(* The documents notified meanwhile are taken off the queue before they    *)
(* are read again.                                                         *)
Drain ==
  /\ q.pc = "drain"
  /\ \/ /\ q.pending = {}
        /\ q' = [q EXCEPT !.pc = "check"]
     \/ /\ q.pending # {} /\ q.work >= WorkLimit
        /\ q' = Contended(q)
     \/ /\ q.work < WorkLimit
        /\ \E d \in q.pending :
             q' = [q EXCEPT !.pc = "update", !.at = d, !.pending = @ \ {d},
                            !.work = @ + 1]
  /\ UNCHANGED <<val, view, changes, handle, obs>>

UpdateDocument ==
  /\ q.pc = "update"
  /\ q' = IF ~SourceOpen \/ view # q.target THEN Again(q)
          ELSE [q EXCEPT !.pc = "drain", !.index[q.at] = val[q.at], !.at = 0]
  /\ UNCHANGED <<val, view, changes, handle, obs>>

(* The view fence after the queue is empty.                                *)
CheckView ==
  /\ q.pc = "check"
  /\ q' = IF ~SourceOpen \/ view # q.target \/ q.dirty THEN Again(q)
          ELSE IF q.pending # {} THEN [q EXCEPT !.pc = "drain"]
          ELSE [q EXCEPT !.pc = "publish", !.todo = {h \in Handles : obs[h].on}]
  /\ UNCHANGED <<val, view, changes, handle, obs>>

(* publish: an observer whose last result is the same is skipped; for the  *)
(* others the view is read once more.                                      *)
Publish ==
  /\ q.pc = "publish"
  /\ IF q.todo = {} THEN q' = Finish(q)
     ELSE \E h \in q.todo :
            q' = IF ~obs[h].on \/ (obs[h].shown /\ obs[h].last = q.index)
                 THEN [q EXCEPT !.todo = @ \ {h}]
                 ELSE [q EXCEPT !.pc = "fence", !.at = h]
  /\ UNCHANGED <<val, view, changes, handle, obs>>

FenceView ==
  /\ q.pc = "fence"
  /\ q' = IF ~SourceOpen \/ view # q.target THEN Again(q)
          ELSE [q EXCEPT !.pc = "emit"]
  /\ UNCHANGED <<val, view, changes, handle, obs>>

MutantEmitResult ==
  /\ q.pc = "emit"
  /\ IF q.dirty THEN q' = Again(q) /\ UNCHANGED obs
     ELSE /\ q' = [q EXCEPT !.pc = "publish", !.at = 0, !.todo = @ \ {q.at}]
          /\ obs' = IF obs[q.at].on
                    THEN [obs EXCEPT ![q.at].shown = TRUE, ![q.at].last = q.index]
                    ELSE obs
  /\ UNCHANGED <<val, view, changes, handle>>

EmitResult ==
  /\ q.pc = "emit"
  /\ IF q.dirty THEN q' = Again(q) /\ UNCHANGED obs
     ELSE IF q.pending # {}
          THEN q' = [q EXCEPT !.pc = "drain", !.at = 0, !.todo = {}] /\ UNCHANGED obs
     ELSE /\ q' = [q EXCEPT !.pc = "publish", !.at = 0, !.todo = @ \ {q.at}]
          /\ obs' = IF obs[q.at].on
                    THEN [obs EXCEPT ![q.at].shown = TRUE, ![q.at].last = q.index]
                    ELSE obs
  /\ UNCHANGED <<val, view, changes, handle>>

-----------------------------------------------------------------------------
(* What wakes the query, and what ends it.                                 *)

(* A notification reaches the subscription of the handle that feeds it.    *)
Notified(h) ==
  /\ \E e \in handle[h].events :
       /\ handle' = [handle EXCEPT ![h].events = @ \ {e}]
       /\ q' = IF ~q.alive \/ q.source # h THEN q
               ELSE Schedule(CASE e.kind = "row" -> [q EXCEPT !.pending = @ \cup {e.doc}]
                               [] e.kind = "view" -> [q EXCEPT !.viewHint = TRUE]
                               [] e.kind = "complete" -> q)
  /\ UNCHANGED <<val, view, changes, obs>>

RetryTimer ==
  /\ q.timer
  /\ q' = Schedule([q EXCEPT !.timer = FALSE])
  /\ UNCHANGED <<val, view, changes, handle, obs>>

(* checkViews, every ten seconds and when the page becomes visible.        *)
CheckViews ==
  /\ q.alive /\ ~Running(q) /\ ~q.timer
  /\ q' = Schedule(q)
  /\ UNCHANGED <<val, view, changes, handle, obs>>

(* subscribe: the first observer creates the query state.                  *)
Watch(h) ==
  /\ handle[h].open
  /\ ~obs[h].used
  /\ obs' = [obs EXCEPT ![h] = [NoWatch EXCEPT !.on = TRUE, !.used = TRUE]]
  /\ q' = IF q.alive THEN Schedule(q)
          ELSE Schedule([NoQuery EXCEPT !.alive = TRUE, !.dirty = TRUE])
  /\ UNCHANGED <<val, view, changes, handle>>

(* detach: the last observer takes the query state with it.                *)
Detached(s, observers) ==
  IF \E g \in Handles : observers[g].on THEN s ELSE NoQuery

CancelWatch(h) ==
  /\ obs[h].on
  /\ obs' = [obs EXCEPT ![h] = [NoWatch EXCEPT !.used = TRUE]]
  /\ q' = Detached(q, obs')
  /\ UNCHANGED <<val, view, changes, handle>>

(* fail: a limit on keys, rows or bytes ends the query with an error for   *)
(* each of its observers.                                                  *)
LimitExceeded ==
  /\ q.pc \in {"view", "scan", "update", "publish"}
  /\ q' = NoQuery
  /\ obs' = [h \in Handles |-> [NoWatch EXCEPT !.used = obs[h].used]]
  /\ UNCHANGED <<val, view, changes, handle>>

(* Closing a handle ends its watch; the query moves to another handle.     *)
CloseHandle(h) ==
  /\ handle[h].open
  /\ handle' = [handle EXCEPT ![h] = [open |-> FALSE,
                                      events |-> {[kind |-> "complete", doc |-> 0]}]]
  /\ obs' = [obs EXCEPT ![h] = [NoWatch EXCEPT !.used = TRUE]]
  /\ LET rest == Detached(q, obs')
     IN  q' = IF rest.alive /\ q.source = h THEN Wake(rest) ELSE rest
  /\ UNCHANGED <<val, view, changes>>

Steps == \/ Bind \/ ReadView \/ ScanDocument \/ Drain
         \/ UpdateDocument \/ CheckView \/ Publish \/ FenceView \/ EmitResult

QueryNext ==
  \/ WriteDocument \/ SwitchView \/ Steps \/ RetryTimer \/ CheckViews
  \/ LimitExceeded
  \/ \E h \in Handles : Notified(h) \/ Watch(h) \/ CancelWatch(h) \/ CloseHandle(h)

QuerySpec == QueryInit /\ [][QueryNext]_queryVars

-----------------------------------------------------------------------------
(* When a watch is called back, the result is what the alias shows at that *)
(* moment, except for documents whose notification is still on its way, or *)
(* when a switch of the view is: a result never mixes two views and never  *)
(* ignores a change the query has been told of.                            *)
ResultCurrent ==
  [][\A h \in Handles :
       obs'[h].on /\ obs'[h] # obs[h] /\ obs'[h].shown =>
         \/ \E e \in handle[q.source].events : e.kind = "view"
         \/ q.viewHint \/ ~handle[q.source].open
         \/ \A d \in QDocs : \/ obs'[h].last[d] = val[d]
                             \/ [kind |-> "row", doc |-> d] \in handle[q.source].events]_queryVars

(* No wake-up is lost: in whatever order changes, switches of the view and *)
(* closed handles came, a query that rests on an open handle (no run, no   *)
(* retry and no notification under way) has shown every open watch the     *)
(* alias as it is, without waiting for the poll.  Only a handle that is    *)
(* closed in the last moments of a run, when schedule still sees the run,  *)
(* leaves the query resting on it until the poll of ten seconds.           *)
RestShowsAlias ==
  q.alive /\ ~Running(q) /\ ~q.timer /\ handle[q.source] = [open |-> TRUE, events |-> {}] =>
    \A h \in Handles : obs[h].on => obs[h].shown /\ obs[h].last = val
=============================================================================
