--------------------------- MODULE ReplicaEpochs ---------------------------
(***************************************************************************)
(* The durable life of one replicated collection of the client SDK (an     *)
(* alias): a manifest and the physical stores (epochs) it lists, shared by *)
(* the browser tabs that have the alias open.  Opening creates or repairs  *)
(* the alias; local edits and replication write rows into the active       *)
(* epoch; compaction and reset build a second epoch and flip the manifest  *)
(* to it; removal leaves the manifest as a fence and deletes the stores.   *)
(*                                                                         *)
(* A tab can die between any two durable writes, and a manifest write can  *)
(* be reported as failed although it was committed.  Ordinary accesses     *)
(* hold the alias lock shared and the view lock for one callback, so each  *)
(* is a single step that needs the alias lock free of an exclusive owner;  *)
(* opening, maintenance and removal hold it exclusively over many steps.   *)
(***************************************************************************)
EXTENDS Naturals, FiniteSets

CONSTANTS Tabs,        \* browser tabs or workers that share the storage
          Docs,        \* document ids of the collection
          Nobody,      \* no exclusive owner of the alias lock
          MaxEpoch,    \* how many physical epochs may ever be named
          MaxLife      \* how often the alias may be created

ASSUME NobodyAssumption == Nobody \notin Tabs

ASSUME BoundsAssumption == MaxEpoch \in Nat /\ MaxLife \in Nat

VARIABLES
  manifest,     \* the manifest row
  stores,  \* the epochs whose physical collections exist
  rows,    \* their rows: what a document is in each epoch
  lock,    \* the exclusive owner of the alias lock
  tab,     \* what each tab is doing
  fresh,   \* the last epoch and lifecycle ids handed out
  shown    \* ghost: the rows edits and replication have built up

vars == <<manifest, stores, rows, lock, tab, fresh, shown>>

Epochs == 1..MaxEpoch

(* A document's rows in one epoch: a member of the active source           *)
(* generation, equal to its assumed state; left over from an earlier       *)
(* generation; or holding a local edit that is pinned or differs from its  *)
(* assumed state.                                                          *)
Kinds == {"none", "member", "retired", "edited"}

NoRows == [d \in Docs |-> "none"]

(* What the application sees of a row: leftovers are invisible.            *)
Visible(row) == [d \in Docs |-> IF row[d] = "retired" THEN "none" ELSE row[d]]

NoManifest == [state |-> "none", life |-> 0, active |-> 0, epochs |-> {},
               maintenance |-> FALSE, partial |-> FALSE, issue |-> FALSE]

ClosedTab == [at |-> "closed", life |-> 0, scope |-> 0, op |-> "none",
              old |-> 0, new |-> 0]

(* The places at which a tab owns the alias lock exclusively.              *)
Owning == {"openPurge", "openStore", "openReady", "openTrim", "cleanFirst",
           "check", "stage", "openNew", "seed", "flip", "catch", "cleanLast",
           "removeWrite", "removeStores"}

Places == Owning \cup {"closed", "open", "wait"}

ManifestRecord == [state : {"none", "creating", "ready", "removed"},
                   life : 0..MaxLife, active : 0..MaxEpoch,
                   epochs : SUBSET Epochs, maintenance : BOOLEAN,
                   partial : BOOLEAN, issue : BOOLEAN]

TabRecord == [at : Places, life : 0..MaxLife, scope : 0..MaxEpoch,
              op : {"none", "compact", "reset"},
              old : 0..MaxEpoch, new : 0..MaxEpoch]

Init ==
  /\ manifest = NoManifest
  /\ stores = {}
  /\ rows = [e \in Epochs |-> NoRows]
  /\ lock = Nobody
  /\ tab = [t \in Tabs |-> ClosedTab]
  /\ fresh = [epoch |-> 0, life |-> 0]
  /\ shown = NoRows

-----------------------------------------------------------------------------
(* Tabs and the lock.                                                      *)

At(t, place) == tab[t].at = place

Goto(t, place) == tab' = [tab EXCEPT ![t].at = place]

Release(t) == lock' = Nobody

(* Ending an exclusive section with the handle as it was before.           *)
Handle(t) == IF tab[t].life = 0 THEN "closed" ELSE "open"

Leave(t) ==
  /\ Release(t)
  /\ tab' = [tab EXCEPT ![t] = [@ EXCEPT !.at = Handle(t), !.op = "none",
                                         !.old = 0, !.new = 0]]

(* assertLifecycle: the manifest still belongs to the life this tab opened. *)
Current(t) == manifest.life = tab[t].life /\ manifest.state # "removed"

RemovePhysical(e) ==
  /\ stores' = stores \ {e}
  /\ rows' = [rows EXCEPT ![e] = NoRows]

OpenPhysical(e) ==
  /\ stores' = stores \cup {e}
  /\ UNCHANGED rows

-----------------------------------------------------------------------------
(* openAliasStorage: the exclusive section that creates or repairs.        *)

Open(t) ==
  /\ At(t, "closed")
  /\ lock = Nobody
  /\ lock' = t
  /\ tab' = [tab EXCEPT ![t] =
               IF manifest.state \in {"none", "removed"}
               THEN [@ EXCEPT !.at = "openPurge"]
               ELSE [@ EXCEPT !.at = "openStore", !.life = manifest.life]]
  /\ UNCHANGED <<manifest, stores, rows, fresh, shown>>

(* A removed alias may have left stores behind: delete what it lists.      *)
OpenPurge(t) ==
  /\ At(t, "openPurge")
  /\ \E e \in manifest.epochs \cap stores : RemovePhysical(e)
  /\ UNCHANGED <<manifest, lock, tab, fresh, shown>>

MutantOpenCreate(t) ==
  /\ At(t, "openPurge")
  /\ fresh.epoch < MaxEpoch /\ fresh.life < MaxLife
  /\ fresh' = [epoch |-> fresh.epoch + 1, life |-> fresh.life + 1]
  /\ manifest' = [NoManifest EXCEPT !.state = "creating", !.life = fresh.life + 1,
                               !.active = fresh.epoch + 1,
                               !.epochs = {fresh.epoch + 1}]
  /\ shown' = NoRows
  /\ tab' = [tab EXCEPT ![t] = [@ EXCEPT !.at = "openStore",
                                         !.life = fresh.life + 1]]
  /\ UNCHANGED <<stores, rows, lock>>

OpenCreate(t) ==
  /\ At(t, "openPurge")
  /\ manifest.epochs \cap stores = {}
  /\ fresh.epoch < MaxEpoch /\ fresh.life < MaxLife
  /\ fresh' = [epoch |-> fresh.epoch + 1, life |-> fresh.life + 1]
  /\ manifest' = [NoManifest EXCEPT !.state = "creating", !.life = fresh.life + 1,
                               !.active = fresh.epoch + 1,
                               !.epochs = {fresh.epoch + 1}]
  /\ shown' = NoRows
  /\ tab' = [tab EXCEPT ![t] = [@ EXCEPT !.at = "openStore",
                                         !.life = fresh.life + 1]]
  /\ UNCHANGED <<stores, rows, lock>>

OpenStore(t) ==
  /\ At(t, "openStore")
  /\ OpenPhysical(manifest.active)
  /\ Goto(t, "openReady")
  /\ UNCHANGED <<manifest, lock, fresh, shown>>

OpenReady(t) ==
  /\ At(t, "openReady")
  /\ manifest' = [manifest EXCEPT !.state = "ready"]
  /\ Goto(t, "openTrim")
  /\ UNCHANGED <<stores, rows, lock, fresh, shown>>

(* Delete the epochs an interrupted transition left, then stop listing them. *)
OpenTrim(t) ==
  /\ At(t, "openTrim")
  /\ \E e \in (manifest.epochs \ {manifest.active}) \cap stores : RemovePhysical(e)
  /\ UNCHANGED <<manifest, lock, tab, fresh, shown>>

OpenDone(t) ==
  /\ At(t, "openTrim")
  /\ (manifest.epochs \ {manifest.active}) \cap stores = {}
  /\ manifest' = [manifest EXCEPT !.epochs = {manifest.active}, !.maintenance = FALSE]
  /\ Leave(t)
  /\ UNCHANGED <<stores, rows, fresh, shown>>

-----------------------------------------------------------------------------
(* Accesses that hold the alias lock shared for one callback.              *)

Access(t) == At(t, "open") /\ lock = Nobody

(* Closing: storage.close, or any access that meets another lifecycle.     *)
Close(t) ==
  /\ At(t, "open")
  /\ tab' = [tab EXCEPT ![t] = ClosedTab]
  /\ UNCHANGED <<manifest, stores, rows, lock, fresh, shown>>

(* mutate: a local edit, with its pin, in the active epoch.                *)
Edit(t, d) ==
  /\ Access(t)
  /\ Current(t)
  /\ rows' = [rows EXCEPT ![manifest.active] = [@ EXCEPT ![d] = "edited"]]
  /\ stores' = stores \cup {manifest.active}
  /\ shown' = [shown EXCEPT ![d] = "edited"]
  /\ UNCHANGED <<manifest, lock, tab, fresh>>

(* captureScope and native: replication is bound to the active epoch.      *)
Attach(t) ==
  /\ Access(t)
  /\ Current(t)
  /\ manifest.state = "ready"
  /\ tab[t].scope = 0
  /\ tab' = [tab EXCEPT ![t].scope = manifest.active]
  /\ UNCHANGED <<manifest, stores, rows, lock, fresh, shown>>

(* Replication in a tab whose epoch was retired by another tab ends at its *)
(* next access.                                                            *)
Retire(t) ==
  /\ Access(t)
  /\ tab[t].scope \notin {0, manifest.active}
  /\ tab' = [tab EXCEPT ![t].scope = 0]
  /\ UNCHANGED <<manifest, stores, rows, lock, fresh, shown>>

Replicating(t) ==
  /\ Access(t)
  /\ Current(t)
  /\ tab[t].scope = manifest.active
  /\ tab[t].scope # 0

(* bulkWrite of the replication: a page changes one document's rows and    *)
(* its checkpoint is still to come.  Rows with a local edit keep it.       *)
Deliver(t, d) ==
  /\ Replicating(t)
  /\ rows[manifest.active][d] # "edited"
  /\ \E kind \in {"member", "retired"} :
       /\ rows' = [rows EXCEPT ![manifest.active] = [@ EXCEPT ![d] = kind]]
       /\ shown' = [shown EXCEPT ![d] =
                      IF kind = "retired" THEN "none" ELSE kind]
  /\ manifest' = [manifest EXCEPT !.partial = TRUE]
  /\ UNCHANGED <<stores, lock, tab, fresh>>

(* The page's checkpoint and control row agree again.                      *)
Complete(t) ==
  /\ Replicating(t)
  /\ manifest.partial
  /\ manifest' = [manifest EXCEPT !.partial = FALSE]
  /\ UNCHANGED <<stores, rows, lock, tab, fresh, shown>>

(* An accepted edit is settled, and its pin removed.                       *)
Settle(t, d) ==
  /\ Replicating(t)
  /\ rows[manifest.active][d] = "edited"
  /\ ~manifest.issue
  /\ rows' = [rows EXCEPT ![manifest.active] = [@ EXCEPT ![d] = "member"]]
  /\ shown' = [shown EXCEPT ![d] = "member"]
  /\ UNCHANGED <<manifest, stores, lock, tab, fresh>>

(* A push that needs a decision leaves an issue in the manifest.           *)
Raise(t) ==
  /\ Replicating(t)
  /\ ~manifest.issue
  /\ \E d \in Docs : rows[manifest.active][d] = "edited"
  /\ manifest' = [manifest EXCEPT !.issue = TRUE]
  /\ UNCHANGED <<stores, rows, lock, tab, fresh, shown>>

-----------------------------------------------------------------------------
(* withMaintenance: stop this tab's replication, then take the lock        *)
(* exclusively for a compaction or for a reset the user asked for.         *)

StartMaintenance(t, op) ==
  /\ At(t, "open")
  /\ tab' = [tab EXCEPT ![t] = [@ EXCEPT !.at = "wait", !.op = op,
                                         !.scope = 0]]
  /\ UNCHANGED <<manifest, stores, rows, lock, fresh, shown>>

(* Compaction first finishes an earlier interrupted attempt; a reset needs *)
(* an issue and no attempt pending.                                        *)
EnterMaintenance(t) ==
  /\ At(t, "wait")
  /\ lock = Nobody
  /\ IF ~Current(t)
     THEN tab' = [tab EXCEPT ![t] = ClosedTab] /\ UNCHANGED lock
     ELSE IF tab[t].op = "compact"
          THEN Goto(t, "cleanFirst") /\ lock' = t
          ELSE IF manifest.issue /\ Cardinality(manifest.epochs) = 1 /\ ~manifest.maintenance
               THEN Goto(t, "stage") /\ lock' = t
               ELSE tab' = [tab EXCEPT ![t] = [@ EXCEPT !.at = "open",
                                                        !.op = "none"]]
                    /\ UNCHANGED lock
  /\ UNCHANGED <<manifest, stores, rows, fresh, shown>>

(* cleanup: delete every listed epoch but the active one, then the list.   *)
Cleanup(t) ==
  /\ tab[t].at \in {"cleanFirst", "cleanLast"}
  /\ \E e \in (manifest.epochs \ {manifest.active}) \cap stores : RemovePhysical(e)
  /\ UNCHANGED <<manifest, lock, tab, fresh, shown>>

CleanupDone(t) ==
  /\ tab[t].at \in {"cleanFirst", "cleanLast"}
  /\ (manifest.epochs \ {manifest.active}) \cap stores = {}
  /\ manifest' = [manifest EXCEPT !.epochs = {manifest.active}, !.maintenance = FALSE]
  /\ IF At(t, "cleanFirst") THEN Goto(t, "check") /\ UNCHANGED lock
                            ELSE Leave(t)
  /\ UNCHANGED <<stores, rows, fresh, shown>>

(* An error outside the guarded part ends the maintenance.                 *)
MaintenanceFails(t) ==
  /\ tab[t].at \in {"cleanFirst", "check", "catch", "cleanLast"}
  /\ Leave(t)
  /\ UNCHANGED <<manifest, stores, rows, fresh, shown>>

MutantClean == manifest.state = "ready" /\ ~manifest.partial /\ ~manifest.issue

(* cleanSource: nothing partial, nothing pending, nothing pinned.          *)
Clean ==
  /\ manifest.state = "ready" /\ ~manifest.partial /\ ~manifest.issue
  /\ \A d \in Docs : rows[manifest.active][d] # "edited"

Check(t) ==
  /\ At(t, "check")
  /\ IF Clean THEN Goto(t, "stage") /\ UNCHANGED lock ELSE Leave(t)
  /\ UNCHANGED <<manifest, stores, rows, fresh, shown>>

(* The manifest lists the new epoch before the store is created.  A write  *)
(* that reports an error may have been committed all the same.             *)
Stage(t) ==
  /\ At(t, "stage")
  /\ fresh.epoch < MaxEpoch
  /\ fresh' = [fresh EXCEPT !.epoch = @ + 1]
  /\ \E committed, reported \in BOOLEAN :
       /\ reported => committed
       /\ manifest' = IF committed
                 THEN [manifest EXCEPT !.epochs = {manifest.active, fresh.epoch + 1},
                                  !.maintenance = TRUE]
                 ELSE manifest
       /\ tab' = [tab EXCEPT ![t] =
                    [@ EXCEPT !.at = IF reported THEN "openNew" ELSE "catch",
                              !.old = manifest.active, !.new = fresh.epoch + 1]]
  /\ UNCHANGED <<stores, rows, lock, shown>>

OpenNew(t) ==
  /\ At(t, "openNew")
  /\ OpenPhysical(tab[t].new)
  /\ Goto(t, IF tab[t].op = "compact" THEN "seed" ELSE "flip")
  /\ UNCHANGED <<manifest, lock, fresh, shown>>

(* The rows compaction keeps: the members of the active generation.        *)
Retained(row) == [d \in Docs |-> IF row[d] = "member" THEN "member" ELSE "none"]

(* seed copies one retained document; verify accepts only the exact copy.  *)
Seed(t) ==
  /\ At(t, "seed")
  /\ \E d \in Docs :
       /\ rows[tab[t].new][d] # Retained(rows[tab[t].old])[d]
       /\ rows' = [rows EXCEPT ![tab[t].new] =
                     [@ EXCEPT ![d] = Retained(rows[tab[t].old])[d]]]
  /\ UNCHANGED <<manifest, stores, lock, tab, fresh, shown>>

Verify(t) ==
  /\ At(t, "seed")
  /\ rows[tab[t].new] = Retained(rows[tab[t].old])
  /\ Goto(t, "flip")
  /\ UNCHANGED <<manifest, stores, rows, lock, fresh, shown>>

(* The flip: one manifest write makes the new epoch the active one.  A     *)
(* reset also forgets the source progress and the issues.                  *)
Flip(t) ==
  /\ At(t, "flip")
  /\ \E committed, reported \in BOOLEAN :
       /\ reported => committed
       /\ manifest' = IF ~committed THEN manifest
                 ELSE IF tab[t].op = "compact"
                      THEN [manifest EXCEPT !.active = tab[t].new]
                      ELSE [manifest EXCEPT !.active = tab[t].new, !.partial = FALSE,
                                       !.issue = FALSE]
       /\ shown' = IF committed /\ tab[t].op = "reset" THEN NoRows ELSE shown
       /\ Goto(t, IF reported THEN "cleanLast" ELSE "catch")
  /\ UNCHANGED <<stores, rows, lock, fresh>>

(* The open of the new epoch, the seed or its verification failed or made  *)
(* no progress for thirty seconds.                                         *)
TransitionFails(t) ==
  /\ tab[t].at \in {"openNew", "seed"}
  /\ Goto(t, "catch")
  /\ UNCHANGED <<manifest, stores, rows, lock, fresh, shown>>

(* The handler reads which epoch is active before either is removed.       *)
Catch(t) ==
  /\ At(t, "catch")
  /\ IF manifest.active \in {tab[t].old, tab[t].new}
     THEN Goto(t, "cleanLast") /\ UNCHANGED lock
     ELSE Leave(t)
  /\ UNCHANGED <<manifest, stores, rows, fresh, shown>>

-----------------------------------------------------------------------------
(* removeAliasStorage, with or without the alias open in this tab.         *)

(* Nothing protected, pinned or pending may be removed.                    *)
Removable ==
  /\ ~manifest.issue
  /\ \A d \in Docs : rows[manifest.active][d] # "edited"

StartRemove(t) ==
  /\ tab[t].at \in {"closed", "open"}
  /\ lock = Nobody
  /\ manifest.state # "none"
  /\ manifest.state # "removed" => Removable
  /\ lock' = t
  /\ tab' = [tab EXCEPT ![t] =
               [@ EXCEPT !.scope = 0,
                         !.at = IF manifest.state = "removed" THEN "removeStores"
                                                         ELSE "removeWrite"]]
  /\ IF manifest.state = "removed" THEN UNCHANGED <<stores, rows>>
                              ELSE OpenPhysical(manifest.active)
  /\ UNCHANGED <<manifest, fresh, shown>>

(* The removed manifest is the fence; a committed write that reported an   *)
(* error is recognised by reading it again.                                *)
RemoveWrite(t) ==
  /\ At(t, "removeWrite")
  /\ \/ /\ manifest' = [manifest EXCEPT !.state = "removed", !.partial = FALSE,
                              !.maintenance = FALSE]
        /\ shown' = NoRows
        /\ Goto(t, "removeStores")
        /\ UNCHANGED lock
     \/ Leave(t) /\ UNCHANGED <<manifest, shown>>
  /\ UNCHANGED <<stores, rows, fresh>>

RemoveStores(t) ==
  /\ At(t, "removeStores")
  /\ \E e \in manifest.epochs \cap stores : RemovePhysical(e)
  /\ UNCHANGED <<manifest, lock, tab, fresh, shown>>

RemoveDone(t) ==
  /\ At(t, "removeStores")
  /\ manifest.epochs \cap stores = {}
  /\ lock' = Nobody
  /\ tab' = [tab EXCEPT ![t] = ClosedTab]
  /\ UNCHANGED <<manifest, stores, rows, fresh, shown>>

RemoveFails(t) ==
  /\ At(t, "removeStores")
  /\ Leave(t)
  /\ UNCHANGED <<manifest, stores, rows, fresh, shown>>

(* The tab dies, or an open fails: the lock manager drops its locks.       *)
Crash(t) ==
  /\ ~At(t, "closed")
  /\ tab' = [tab EXCEPT ![t] = ClosedTab]
  /\ lock' = IF lock = t THEN Nobody ELSE lock
  /\ UNCHANGED <<manifest, stores, rows, fresh, shown>>

-----------------------------------------------------------------------------
Opening(t) == \/ Open(t) \/ OpenPurge(t) \/ OpenCreate(t) \/ OpenStore(t)
              \/ OpenReady(t) \/ OpenTrim(t) \/ OpenDone(t)

Accessing(t) == \/ Close(t) \/ Attach(t) \/ Retire(t) \/ Complete(t) \/ Raise(t)
                \/ \E d \in Docs : Edit(t, d) \/ Deliver(t, d) \/ Settle(t, d)

Maintaining(t) == \/ \E op \in {"compact", "reset"} : StartMaintenance(t, op)
                  \/ EnterMaintenance(t) \/ Cleanup(t) \/ CleanupDone(t)
                  \/ MaintenanceFails(t) \/ Check(t) \/ Stage(t) \/ OpenNew(t)
                  \/ Seed(t) \/ Verify(t) \/ Flip(t) \/ TransitionFails(t)
                  \/ Catch(t)

Removing(t) == \/ StartRemove(t) \/ RemoveWrite(t) \/ RemoveStores(t)
               \/ RemoveDone(t) \/ RemoveFails(t)

Next == \E t \in Tabs : \/ Opening(t) \/ Accessing(t) \/ Maintaining(t)
                        \/ Removing(t) \/ Crash(t)

Spec == Init /\ [][Next]_vars

-----------------------------------------------------------------------------
TypeOK ==
  /\ manifest \in ManifestRecord
  /\ stores \subseteq Epochs
  /\ rows \in [Epochs -> [Docs -> Kinds]]
  /\ lock \in Tabs \cup {Nobody}
  /\ tab \in [Tabs -> TabRecord]
  /\ fresh \in [epoch : 0..MaxEpoch, life : 0..MaxLife]
  /\ shown \in [Docs -> Kinds]

(* Whatever tab died wherever, and whichever manifest write was reported   *)
(* as failed, the epoch the manifest names exists and shows exactly the    *)
(* edits and deliveries the alias accepted: compaction, repair and failed  *)
(* transitions lose none and bring none back, and only a reset the user    *)
(* asked for, or a removal, discards them.                                 *)
ViewKept ==
  manifest.state = "ready" =>
    /\ manifest.active \in stores
    /\ Visible(rows[manifest.active]) = shown

(* No physical store is ever left where the manifest does not list it, so  *)
(* the next open, compaction or removal can still delete it.               *)
StoresListed == stores \subseteq manifest.epochs
=============================================================================
