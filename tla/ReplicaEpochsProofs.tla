------------------------ MODULE ReplicaEpochsProofs ------------------------
(***************************************************************************)
(* TypeOK, ViewKept and StoresListed of ReplicaEpochs for every number of  *)
(* tabs, documents, epochs and lives.                                      *)
(*                                                                         *)
(* ViewKept is not inductive.  What a tab may rely on between two steps of *)
(* an exclusive section follows from its place in that section (Placed)    *)
(* and from nobody else owning the lock (Exclusive); what it may rely on   *)
(* of a life it opened earlier follows from lives being named only once    *)
(* (Lives).                                                                *)
(***************************************************************************)
EXTENDS ReplicaEpochs, FiniteSetTheorems, TLAPS

(* A tab inside an exclusive section owns the lock.                        *)
Exclusive == \A t \in Tabs : tab[t].at \in Owning => lock = t

(* The manifest lists the active epoch, and its ids have been handed out.  *)
ManifestSound ==
  /\ manifest.state # "none" => manifest.active \in manifest.epochs /\ manifest.life # 0
  /\ manifest.epochs \subseteq 1..fresh.epoch
  /\ manifest.life <= fresh.life

(* A store that does not exist has no rows.                                *)
RowsStored == \A e \in Epochs : e \notin stores => rows[e] = NoRows

(* An alias that is being created is still empty.                          *)
CreatingEmpty ==
  manifest.state = "creating" => rows[manifest.active] = NoRows /\ shown = NoRows

DurableSound == ManifestSound /\ RowsStored /\ CreatingEmpty /\ ViewKept /\ StoresListed

(* A tab that has opened the alias saw the life it opened become ready.    *)
Lives(t) ==
  /\ tab[t].life <= fresh.life
  /\ tab[t].at \in {"open", "wait"} => tab[t].life # 0
  /\ tab[t].at = "wait" => tab[t].op # "none"
  /\ tab[t].at \notin {"openPurge", "openStore", "openReady"} /\ tab[t].life # 0 /\ Current(t)
       => manifest.state = "ready"

NoEdits(row) == \A d \in Docs : row[d] # "edited"

(* What holds at each place of an exclusive section.                       *)
Placed(t) ==
  /\ tab[t].at = "openPurge" => manifest.state \in {"none", "removed"}
  /\ tab[t].at \in {"openStore", "openReady"} =>
       manifest.state \in {"creating", "ready"} /\ tab[t].life = manifest.life
  /\ tab[t].at = "openReady" => manifest.active \in stores
  /\ tab[t].at \in {"openTrim", "cleanFirst", "check", "stage", "openNew", "seed",
                    "flip", "catch", "cleanLast"} => manifest.state = "ready"
  /\ tab[t].at \in {"check", "stage"} => manifest.epochs = {manifest.active}
  /\ tab[t].at \in {"cleanFirst", "check", "seed"} => tab[t].op = "compact"
  /\ tab[t].at \in {"stage", "openNew", "seed", "flip"} =>
       /\ tab[t].op \in {"compact", "reset"}
       /\ tab[t].op = "compact" => NoEdits(rows[manifest.active])
  /\ tab[t].at \in {"openNew", "seed", "flip"} =>
       /\ tab[t].old = manifest.active
       /\ tab[t].new \in manifest.epochs /\ tab[t].new # manifest.active
  /\ tab[t].at = "openNew" => tab[t].new \notin stores
  /\ tab[t].at \in {"seed", "flip"} => tab[t].new \in stores
  /\ tab[t].at = "flip" =>
       rows[tab[t].new] = IF tab[t].op = "compact" THEN Retained(rows[manifest.active])
                                                   ELSE NoRows
  /\ tab[t].at = "removeWrite" => manifest.state \in {"creating", "ready"}
  /\ tab[t].at = "removeStores" => manifest.state = "removed"

TabsSound == \A t \in Tabs : Lives(t) /\ Placed(t)

IInv == TypeOK /\ Exclusive /\ DurableSound /\ TabsSound

-----------------------------------------------------------------------------
(* Typing of the writes the actions share.                                 *)

LEMMA GotoType ==
  ASSUME TypeOK, NEW t \in Tabs, NEW p \in Places, Goto(t, p)
  PROVE  tab' \in [Tabs -> TabRecord]
BY DEF TypeOK, Goto, TabRecord

LEMMA PutType ==
  ASSUME TypeOK, NEW t \in Tabs, NEW r \in TabRecord, tab' = [tab EXCEPT ![t] = r]
  PROVE  tab' \in [Tabs -> TabRecord]
BY DEF TypeOK

LEMMA ClosedType == ClosedTab \in TabRecord
BY BoundsAssumption DEF ClosedTab, TabRecord, Places

LEMMA LeaveType ==
  ASSUME TypeOK, NEW t \in Tabs, Leave(t)
  PROVE  tab' \in [Tabs -> TabRecord] /\ lock' \in Tabs \cup {Nobody}
<1> DEFINE r == [tab[t] EXCEPT !.at = Handle(t), !.op = "none", !.old = 0, !.new = 0]
<1>1. Handle(t) \in Places
  BY DEF Handle, Places
<1>2. r \in TabRecord
  <2>1. tab[t] \in TabRecord /\ 0 \in 0..MaxEpoch /\ "none" \in {"none", "compact", "reset"}
    BY BoundsAssumption DEF TypeOK
  <2>2. QED
    BY <1>1, <2>1 DEF TabRecord
<1>3. tab' = [tab EXCEPT ![t] = r]
  BY DEF Leave
<1>4. QED
  BY <1>2, <1>3, PutType DEF Leave, Release

LEMMA ManifestType ==
  ASSUME TypeOK
  PROVE  /\ \A s \in {"none", "creating", "ready", "removed"} :
              [manifest EXCEPT !.state = s] \in ManifestRecord
         /\ \A b \in BOOLEAN : [manifest EXCEPT !.partial = b] \in ManifestRecord
         /\ \A b \in BOOLEAN : [manifest EXCEPT !.issue = b] \in ManifestRecord
         /\ \A b \in BOOLEAN, E \in SUBSET Epochs :
              [manifest EXCEPT !.epochs = E, !.maintenance = b] \in ManifestRecord
         /\ \A e \in Epochs :
              /\ [manifest EXCEPT !.active = e] \in ManifestRecord
              /\ [manifest EXCEPT !.active = e, !.partial = FALSE, !.issue = FALSE]
                   \in ManifestRecord
         /\ [manifest EXCEPT !.state = "removed", !.partial = FALSE, !.maintenance = FALSE]
              \in ManifestRecord
<1>1. manifest \in ManifestRecord /\ Epochs \subseteq 0..MaxEpoch
  BY BoundsAssumption DEF TypeOK, Epochs
<1>2. \A s \in {"none", "creating", "ready", "removed"} :
        [manifest EXCEPT !.state = s] \in ManifestRecord
  BY <1>1 DEF ManifestRecord
<1>3. \A b \in BOOLEAN : /\ [manifest EXCEPT !.partial = b] \in ManifestRecord
                        /\ [manifest EXCEPT !.issue = b] \in ManifestRecord
  BY <1>1 DEF ManifestRecord
<1>4. \A b \in BOOLEAN, E \in SUBSET Epochs :
        [manifest EXCEPT !.epochs = E, !.maintenance = b] \in ManifestRecord
  BY <1>1 DEF ManifestRecord
<1>5. \A e \in Epochs : [manifest EXCEPT !.active = e] \in ManifestRecord
  BY <1>1 DEF ManifestRecord
<1>6. \A e \in Epochs : [manifest EXCEPT !.active = e, !.partial = FALSE, !.issue = FALSE]
                          \in ManifestRecord
  BY <1>1 DEF ManifestRecord
<1>7. [manifest EXCEPT !.state = "removed", !.partial = FALSE, !.maintenance = FALSE]
        \in ManifestRecord
  BY <1>1 DEF ManifestRecord
<1>8. QED
  BY <1>2, <1>3, <1>4, <1>5, <1>6, <1>7

-----------------------------------------------------------------------------
(* A step that one tab takes alone leaves the others sound: they are       *)
(* outside every exclusive section, and no life becomes theirs again.      *)

LEMMA OthersSound ==
  ASSUME IInv, TypeOK', NEW t \in Tabs, lock \in {t, Nobody}, lock' \in {t, Nobody},
         \A u \in Tabs \ {t} : tab'[u] = tab[u],
         tab'[t].at \in Owning => lock' = t,
         fresh'.life >= fresh.life,
         \/ /\ manifest'.life = manifest.life
            /\ manifest'.state \in {manifest.state, "ready", "removed"}
         \/ manifest'.life > fresh.life,
         Lives(t)', Placed(t)'
  PROVE  Exclusive' /\ TabsSound'
<1>1. \A u \in Tabs \ {t} : tab[u].at \notin Owning
  BY NobodyAssumption DEF IInv, Exclusive
<1>2. Exclusive'
  BY <1>1 DEF Exclusive
<1>3. ASSUME NEW u \in Tabs \ {t} PROVE Placed(u)'
  BY <1>1, <1>3 DEF Placed, Owning
<1>4. ASSUME NEW u \in Tabs \ {t} PROVE Lives(u)'
  BY <1>1, <1>4, BoundsAssumption
     DEF IInv, TabsSound, Lives, Current, TypeOK, TabRecord, ManifestRecord, Owning
<1>5. QED
  BY <1>2, <1>3, <1>4 DEF TabsSound

LEMMA DurableKept ==
  ASSUME IInv, UNCHANGED <<manifest, stores, rows, fresh, shown>>
  PROVE  DurableSound'
BY DEF IInv, DurableSound, ManifestSound, RowsStored, CreatingEmpty, ViewKept, StoresListed

(* The same for a step that only moves a tab outside the sections, while   *)
(* another tab may be inside one.                                          *)
LEMMA AsideSound ==
  ASSUME IInv, NEW t \in Tabs, NEW r \in TabRecord,
         tab' = [tab EXCEPT ![t] = r], r.at \notin Owning, Lives(t)',
         lock' \in Tabs \cup {Nobody}, lock' = lock \/ lock = t,
         UNCHANGED <<manifest, stores, rows, fresh, shown>>
  PROVE  IInv'
<1>1. TypeOK'
  BY PutType DEF IInv, TypeOK
<1>2. tab'[t] = r /\ \A u \in Tabs \ {t} : tab'[u] = tab[u]
  BY DEF IInv, TypeOK
<1>3. Exclusive'
  BY <1>2 DEF IInv, Exclusive
<1>4. \A u \in Tabs \ {t} : Lives(u)' /\ Placed(u)'
  BY <1>2 DEF IInv, TabsSound, Lives, Placed, Current
<1>5. Placed(t)'
  BY <1>2 DEF Placed, Owning
<1>6. QED
  BY <1>1, <1>3, <1>4, <1>5, DurableKept DEF IInv, TabsSound

(* Moving inside a section, or leaving it, without a durable write.        *)
LEMMA MoveSound ==
  ASSUME IInv, NEW t \in Tabs, lock \in {t, Nobody}, lock' \in {t, Nobody},
         tab' \in [Tabs -> TabRecord],
         \A u \in Tabs \ {t} : tab'[u] = tab[u],
         tab'[t].at \in Owning => lock' = t,
         UNCHANGED <<manifest, stores, rows, fresh, shown>>,
         Lives(t)', Placed(t)'
  PROVE  IInv'
<1>1. TypeOK'
  BY DEF IInv, TypeOK
<1>2. fresh'.life >= fresh.life
  BY BoundsAssumption DEF IInv, TypeOK
<1>3. Exclusive' /\ TabsSound'
  BY <1>1, <1>2, OthersSound
<1>4. QED
  BY <1>1, <1>3, DurableKept DEF IInv

LEMMA Owner ==
  ASSUME IInv, NEW t \in Tabs, tab[t].at \in Owning
  PROVE  lock = t /\ Lives(t) /\ Placed(t)
BY DEF IInv, Exclusive, TabsSound

(* Leaving a section without a durable write, with the handle as it was.   *)
LEMMA LeaveSound ==
  ASSUME IInv, NEW t \in Tabs, Leave(t), tab[t].at \in Owning,
         tab[t].at \notin {"openPurge", "openStore", "openReady"},
         UNCHANGED <<manifest, stores, rows, fresh, shown>>
  PROVE  IInv'
<1>1. tab' \in [Tabs -> TabRecord]
  BY LeaveType DEF IInv
<1>2. /\ \A u \in Tabs \ {t} : tab'[u] = tab[u]
      /\ tab'[t].at = Handle(t) /\ tab'[t].life = tab[t].life
  BY DEF Leave, IInv, TypeOK, TabRecord
<1>3. Handle(t) \notin Owning
  BY DEF Handle, Owning
<1>4. Lives(t)'
  BY <1>2, Owner DEF Lives, Handle, Current
<1>5. Placed(t)'
  BY <1>2, <1>3 DEF Placed, Owning
<1>6. QED
  BY <1>1, <1>2, <1>3, <1>4, <1>5, Owner, MoveSound DEF Leave, Release

-----------------------------------------------------------------------------
(* Steps that write nothing durable.                                       *)

LEMMA OpenStep == ASSUME IInv, NEW t \in Tabs, Open(t) PROVE IInv'
<1> DEFINE r == IF manifest.state \in {"none", "removed"}
                THEN [tab[t] EXCEPT !.at = "openPurge"]
                ELSE [tab[t] EXCEPT !.at = "openStore", !.life = manifest.life]
<1>1. tab' = [tab EXCEPT ![t] = r]
  BY DEF Open
<1>2. r \in TabRecord
  <2>1. tab[t] \in TabRecord /\ manifest.life \in 0..MaxLife
    BY DEF IInv, TypeOK, ManifestRecord
  <2>2. {"openPurge", "openStore"} \subseteq Places
    BY DEF Places, Owning
  <2>3. QED
    BY <2>1, <2>2 DEF TabRecord
<1>3. tab' \in [Tabs -> TabRecord] /\ tab'[t] = r /\ \A u \in Tabs \ {t} : tab'[u] = tab[u]
  BY <1>1, <1>2, PutType DEF IInv, TypeOK
<1>4. Lives(t)' /\ Placed(t)'
  BY <1>3 DEF Open, IInv, TabsSound, DurableSound, ManifestSound, Lives, Placed, TypeOK,
              TabRecord, ManifestRecord
<1>5. QED
  BY <1>3, <1>4, MoveSound DEF Open

LEMMA CloseStep == ASSUME IInv, NEW t \in Tabs, Close(t) \/ Crash(t) PROVE IInv'
<1>1. /\ tab' = [tab EXCEPT ![t] = ClosedTab]
      /\ lock' \in Tabs \cup {Nobody} /\ (lock' = lock \/ lock = t)
      /\ UNCHANGED <<manifest, stores, rows, fresh, shown>>
  BY DEF Close, Crash, IInv, TypeOK
<1>2. ClosedTab.at \notin Owning
  BY DEF ClosedTab, Owning
<1>3. Lives(t)'
  BY <1>1 DEF ClosedTab, Lives, IInv, TypeOK
<1>4. QED
  BY <1>1, <1>2, <1>3, ClosedType, AsideSound

(* Attach, Retire and StartMaintenance change nothing a life depends on.   *)
LEMMA StayStep ==
  ASSUME IInv, NEW t \in Tabs,
         Attach(t) \/ Retire(t) \/ StartMaintenance(t, "compact") \/ StartMaintenance(t, "reset")
  PROVE  IInv'
<1>1. PICK r \in TabRecord : /\ tab' = [tab EXCEPT ![t] = r]
                             /\ r.at \in {"open", "wait"} /\ r.life = tab[t].life
                             /\ r.at = "wait" => r.op # "none"
  <2>1. tab[t] \in TabRecord /\ tab[t].at = "open" /\ manifest.active \in 0..MaxEpoch
        /\ 0 \in 0..MaxEpoch
    BY BoundsAssumption DEF Attach, Retire, StartMaintenance, Access, At, IInv, TypeOK, ManifestRecord
  <2>2. {"open", "wait"} \subseteq Places
    BY DEF Places
  <2>3. CASE Attach(t)
    <3>1. [tab[t] EXCEPT !.scope = manifest.active] \in TabRecord
      BY <2>1 DEF TabRecord
    <3>2. QED
      BY <2>1, <2>3, <3>1 DEF Attach, TabRecord
  <2>4. CASE Retire(t)
    <3>1. [tab[t] EXCEPT !.scope = 0] \in TabRecord
      BY <2>1 DEF TabRecord
    <3>2. QED
      BY <2>1, <2>4, <3>1 DEF Retire, TabRecord
  <2>5. ASSUME NEW op \in {"compact", "reset"}, StartMaintenance(t, op)
        PROVE \E r \in TabRecord : /\ tab' = [tab EXCEPT ![t] = r]
                                   /\ r.at \in {"open", "wait"} /\ r.life = tab[t].life
                                   /\ r.at = "wait" => r.op # "none"
    <3>1. [tab[t] EXCEPT !.at = "wait", !.op = op, !.scope = 0] \in TabRecord
      BY <2>1, <2>2 DEF TabRecord
    <3>2. QED
      BY <2>1, <2>5, <3>1 DEF StartMaintenance, TabRecord
  <2>6. QED
    BY <2>3, <2>4, <2>5
<1>2. tab[t].at = "open" /\ lock' = lock /\ UNCHANGED <<manifest, stores, rows, fresh, shown>>
  BY DEF Attach, Retire, StartMaintenance, Access, At
<1>3. r.at \notin Owning /\ tab'[t] = r
  BY <1>1 DEF Owning, IInv, TypeOK
<1>4. Lives(t)'
  BY <1>1, <1>2, <1>3 DEF Lives, Current, IInv, TabsSound
<1>5. lock' \in Tabs \cup {Nobody}
  BY <1>2 DEF IInv, TypeOK
<1>6. QED
  BY <1>1, <1>2, <1>3, <1>4, <1>5, AsideSound

(* Going to another place of the section.                                  *)
LEMMA GotoSound ==
  ASSUME IInv, NEW t \in Tabs, NEW p \in Owning, Goto(t, p),
         lock \in {t, Nobody}, lock' = t,
         UNCHANGED <<manifest, stores, rows, fresh, shown>>,
         Lives(t)', Placed(t)'
  PROVE  IInv'
<1>1. tab' \in [Tabs -> TabRecord] /\ \A u \in Tabs \ {t} : tab'[u] = tab[u]
  BY GotoType DEF Places, Goto, IInv, TypeOK
<1>2. QED
  BY <1>1, MoveSound

LEMMA Singleton ==
  ASSUME IInv, manifest.state = "ready", Cardinality(manifest.epochs) = 1
  PROVE  manifest.epochs = {manifest.active}
<1>1. IsFiniteSet(manifest.epochs)
  <2>1. IsFiniteSet(Epochs) /\ manifest.epochs \subseteq Epochs
    BY FS_Interval, BoundsAssumption DEF Epochs, IInv, TypeOK, ManifestRecord
  <2>2. QED
    BY <2>1, FS_Subset
<1>2. PICK e : manifest.epochs = {e}
  BY <1>1, FS_Singleton
<1>3. manifest.active \in manifest.epochs
  BY DEF IInv, DurableSound, ManifestSound
<1>4. QED
  BY <1>2, <1>3

LEMMA EnterStep == ASSUME IInv, NEW t \in Tabs, EnterMaintenance(t) PROVE IInv'
<1>1. /\ tab[t].at = "wait" /\ lock = Nobody /\ Lives(t) /\ tab[t] \in TabRecord
      /\ UNCHANGED <<manifest, stores, rows, fresh, shown>>
  BY DEF EnterMaintenance, At, IInv, TabsSound, TypeOK
<1>2. CASE ~Current(t)
  <2>1. tab' = [tab EXCEPT ![t] = ClosedTab] /\ lock' = lock
    BY <1>2 DEF EnterMaintenance
  <2>2. ClosedTab.at \notin Owning /\ tab'[t] = ClosedTab
    BY <2>1 DEF ClosedTab, Owning, IInv, TypeOK
  <2>3. Lives(t)'
    BY <1>1, <2>2 DEF ClosedTab, Lives, IInv, TypeOK
  <2>4. QED
    BY <1>1, <2>1, <2>2, <2>3, ClosedType, AsideSound
<1>3. CASE Current(t) /\ tab[t].op = "compact"
  <2>1. Goto(t, "cleanFirst") /\ lock' = t
    BY <1>3 DEF EnterMaintenance
  <2>2. tab'[t] = [tab[t] EXCEPT !.at = "cleanFirst"]
    BY <2>1 DEF Goto, IInv, TypeOK
  <2>3. Lives(t)' /\ Placed(t)'
    BY <1>1, <1>3, <2>2 DEF Lives, Placed, Current, TabRecord
  <2>4. QED
    BY <1>1, <2>1, <2>3, GotoSound DEF Owning
<1>4. CASE /\ Current(t) /\ tab[t].op # "compact" /\ manifest.issue
           /\ Cardinality(manifest.epochs) = 1 /\ ~manifest.maintenance
  <2>1. Goto(t, "stage") /\ lock' = t
    BY <1>4 DEF EnterMaintenance
  <2>2. tab'[t] = [tab[t] EXCEPT !.at = "stage"] /\ manifest.state = "ready"
    BY <1>1, <1>4, <2>1 DEF Goto, IInv, TypeOK, Lives
  <2>3. manifest.epochs = {manifest.active}
    BY <1>4, <2>2, Singleton
  <2>4. Lives(t)' /\ Placed(t)'
    BY <1>1, <1>4, <2>2, <2>3 DEF Lives, Placed, Current, TabRecord
  <2>5. QED
    BY <1>1, <2>1, <2>4, GotoSound DEF Owning
<1>5. CASE /\ Current(t) /\ tab[t].op # "compact"
           /\ ~(manifest.issue /\ Cardinality(manifest.epochs) = 1 /\ ~manifest.maintenance)
  <2> DEFINE r == [tab[t] EXCEPT !.at = "open", !.op = "none"]
  <2>1. tab' = [tab EXCEPT ![t] = r] /\ lock' = lock
    BY <1>5 DEF EnterMaintenance
  <2>2. r \in TabRecord
    BY <1>1 DEF TabRecord, Places
  <2>3. r.at \notin Owning /\ tab'[t] = r
    BY <1>1, <2>1 DEF Owning, IInv, TypeOK, TabRecord
  <2>4. Lives(t)'
    BY <1>1, <2>3 DEF Lives, Current, TabRecord
  <2>5. QED
    BY <1>1, <2>1, <2>2, <2>3, <2>4, AsideSound DEF IInv, TypeOK
<1>6. QED
  BY <1>2, <1>3, <1>4, <1>5

LEMMA CheckStep == ASSUME IInv, NEW t \in Tabs, Check(t) PROVE IInv'
<1>1. tab[t].at = "check" /\ UNCHANGED <<manifest, stores, rows, fresh, shown>>
  BY DEF Check, At
<1>2. lock = t /\ Lives(t) /\ Placed(t)
  BY <1>1, Owner DEF Owning
<1>3. CASE Clean
  <2>1. Goto(t, "stage") /\ lock' = t
    BY <1>2, <1>3 DEF Check
  <2>2. tab'[t] = [tab[t] EXCEPT !.at = "stage"] /\ tab[t] \in TabRecord
    BY <2>1 DEF Goto, IInv, TypeOK
  <2>3. Lives(t)' /\ Placed(t)'
    BY <1>1, <1>2, <1>3, <2>2 DEF Lives, Placed, Current, TabRecord, Clean, NoEdits
  <2>4. QED
    BY <1>1, <1>2, <2>1, <2>3, GotoSound DEF Owning
<1>4. CASE ~Clean
  BY <1>1, <1>4, LeaveSound DEF Check, Owning
<1>5. QED
  BY <1>3, <1>4

(* Verify, TransitionFails and a Catch that finds either epoch active.     *)
LEMMA VerifyStep == ASSUME IInv, NEW t \in Tabs, Verify(t) PROVE IInv'
<1>1. /\ tab[t].at = "seed" /\ UNCHANGED <<manifest, stores, rows, lock, fresh, shown>>
      /\ Goto(t, "flip") /\ rows[tab[t].new] = Retained(rows[tab[t].old])
  BY DEF Verify, At
<1>2. lock = t /\ Lives(t) /\ Placed(t)
  BY <1>1, Owner DEF Owning
<1>3. tab'[t] = [tab[t] EXCEPT !.at = "flip"] /\ tab[t] \in TabRecord
  BY <1>1 DEF Goto, IInv, TypeOK
<1>4. Lives(t)'
  BY <1>1, <1>2, <1>3 DEF Lives, Current, TabRecord
<1>5. Placed(t)'
  BY <1>1, <1>2, <1>3 DEF Placed, TabRecord, Retained
<1>6. QED
  BY <1>1, <1>2, <1>4, <1>5, GotoSound DEF Owning

LEMMA FallStep ==
  ASSUME IInv, NEW t \in Tabs, NEW p \in {"catch", "cleanLast"}, Goto(t, p),
         tab[t].at \in {"openNew", "seed", "catch"},
         UNCHANGED <<manifest, stores, rows, lock, fresh, shown>>
  PROVE  IInv'
<1>1. lock = t /\ Lives(t) /\ Placed(t)
  BY Owner DEF Owning
<1>2. tab'[t] = [tab[t] EXCEPT !.at = p] /\ tab[t] \in TabRecord
  BY DEF Goto, IInv, TypeOK
<1>3. Lives(t)' /\ Placed(t)'
  BY <1>1, <1>2 DEF Lives, Placed, Current, TabRecord
<1>4. QED
  BY <1>1, <1>3, GotoSound DEF Owning

LEMMA FailSteps ==
  ASSUME IInv, NEW t \in Tabs,
         MaintenanceFails(t) \/ TransitionFails(t) \/ Catch(t) \/ RemoveFails(t)
  PROVE  IInv'
<1>1. CASE MaintenanceFails(t) \/ RemoveFails(t)
  BY <1>1, LeaveSound DEF MaintenanceFails, RemoveFails, At, Owning
<1>2. CASE TransitionFails(t)
  BY <1>2, FallStep DEF TransitionFails
<1>3. CASE Catch(t) /\ manifest.active \in {tab[t].old, tab[t].new}
  BY <1>3, FallStep DEF Catch, At
<1>4. CASE Catch(t) /\ manifest.active \notin {tab[t].old, tab[t].new}
  BY <1>4, LeaveSound DEF Catch, At, Owning
<1>5. QED
  BY <1>1, <1>2, <1>3, <1>4

-----------------------------------------------------------------------------
(* Steps of a section that write the manifest, a store or its rows.        *)

(* Deleting a listed store that is not the active one of a living alias.   *)
LEMMA PurgeStep ==
  ASSUME IInv, NEW t \in Tabs,
         tab[t].at \in {"openPurge", "openTrim", "cleanFirst", "cleanLast", "removeStores"},
         NEW e \in manifest.epochs \cap stores, RemovePhysical(e),
         e # manifest.active \/ manifest.state \in {"none", "removed"},
         UNCHANGED <<manifest, lock, tab, fresh, shown>>
  PROVE  IInv'
<1>1. lock = t /\ Lives(t) /\ Placed(t)
  BY Owner DEF Owning
<1>2. NoRows \in [Docs -> Kinds] /\ rows \in [Epochs -> [Docs -> Kinds]] /\ e \in Epochs
  BY DEF NoRows, Kinds, IInv, TypeOK
<1>3. TypeOK'
  BY <1>2 DEF RemovePhysical, IInv, TypeOK
<1>4. \A f \in Epochs : rows'[f] = IF f = e THEN NoRows ELSE rows[f]
  BY <1>2 DEF RemovePhysical
<1>5. ManifestSound' /\ StoresListed'
  BY DEF IInv, DurableSound, ManifestSound, StoresListed, RemovePhysical
<1>6. RowsStored'
  BY <1>4 DEF IInv, DurableSound, RowsStored, RemovePhysical
<1>7. manifest.state # "none" => manifest.active \in Epochs
  BY DEF IInv, DurableSound, ManifestSound, TypeOK, ManifestRecord
<1>8. CreatingEmpty'
  BY <1>4, <1>7 DEF IInv, DurableSound, CreatingEmpty
<1>9. ViewKept'
  BY <1>4, <1>7 DEF IInv, DurableSound, ViewKept, RemovePhysical
<1>10. Lives(t)' /\ Placed(t)'
  BY <1>1 DEF Lives, Placed, Current, RemovePhysical
<1>11. Exclusive' /\ TabsSound'
  <2>1. fresh'.life >= fresh.life
    BY DEF IInv, TypeOK
  <2>2. QED
    BY <1>1, <1>3, <1>10, <2>1, OthersSound
<1>12. QED
  BY <1>3, <1>5, <1>6, <1>8, <1>9, <1>11 DEF IInv, DurableSound

LEMMA PurgeSteps ==
  ASSUME IInv, NEW t \in Tabs,
         OpenPurge(t) \/ OpenTrim(t) \/ Cleanup(t) \/ RemoveStores(t)
  PROVE  IInv'
<1>1. CASE OpenPurge(t) \/ RemoveStores(t)
  <2>1. tab[t].at \in {"openPurge", "removeStores"}
    BY <1>1 DEF OpenPurge, RemoveStores, At
  <2>2. manifest.state \in {"none", "removed"}
    BY <2>1, Owner DEF Owning, Placed
  <2>3. QED
    BY <1>1, <2>1, <2>2, PurgeStep DEF OpenPurge, RemoveStores
<1>2. CASE OpenTrim(t) \/ Cleanup(t)
  <2>1. tab[t].at \in {"openTrim", "cleanFirst", "cleanLast"}
    BY <1>2 DEF OpenTrim, Cleanup, At
  <2>2. QED
    BY <1>2, <2>1, PurgeStep DEF OpenTrim, Cleanup
<1>3. QED
  BY <1>1, <1>2

LEMMA CreateStep == ASSUME IInv, NEW t \in Tabs, OpenCreate(t) PROVE IInv'
<1> DEFINE e == fresh.epoch + 1
           l == fresh.life + 1
           r == [tab[t] EXCEPT !.at = "openStore", !.life = l]
<1>1. tab[t].at = "openPurge" /\ lock = t /\ Lives(t) /\ Placed(t)
  BY Owner DEF OpenCreate, At, Owning
<1>2. /\ e \in Epochs /\ l \in 0..MaxLife /\ l # 0 /\ e \in 0..MaxEpoch
      /\ fresh'.epoch = e /\ fresh'.life = l
      /\ fresh' \in [epoch : 0..MaxEpoch, life : 0..MaxLife]
  BY BoundsAssumption DEF OpenCreate, IInv, TypeOK, Epochs
<1>3. /\ manifest' \in ManifestRecord
      /\ manifest'.state = "creating" /\ manifest'.life = l /\ manifest'.active = e
      /\ manifest'.epochs = {e}
  BY <1>2 DEF OpenCreate, NoManifest, ManifestRecord
<1>4. tab' \in [Tabs -> TabRecord] /\ tab'[t] = r /\ \A u \in Tabs \ {t} : tab'[u] = tab[u]
  <2>1. tab[t] \in TabRecord /\ "openStore" \in Places
    BY DEF IInv, TypeOK, Places, Owning
  <2>2. r \in TabRecord
    BY <1>2, <2>1 DEF TabRecord
  <2>3. QED
    BY <2>2, PutType DEF OpenCreate, IInv, TypeOK
<1>5. TypeOK'
  BY <1>2, <1>3, <1>4 DEF OpenCreate, IInv, TypeOK, NoRows, Kinds
<1>6. stores = {} /\ rows[e] = NoRows
  BY <1>2 DEF OpenCreate, IInv, DurableSound, StoresListed, RowsStored
<1>7. DurableSound'
  BY <1>2, <1>3, <1>6 DEF OpenCreate, IInv, TypeOK, DurableSound, ManifestSound, RowsStored,
       CreatingEmpty, ViewKept, StoresListed
<1>8. tab'[t].at = "openStore" /\ tab'[t].life = l
  BY <1>4 DEF IInv, TypeOK, TabRecord
<1>9. Lives(t)' /\ Placed(t)'
  BY <1>2, <1>3, <1>8, BoundsAssumption DEF Lives, Placed, Current, IInv, TypeOK
<1>10. Exclusive' /\ TabsSound'
  <2>1. fresh'.life >= fresh.life /\ manifest'.life > fresh.life
    BY <1>2, <1>3 DEF IInv, TypeOK
  <2>2. QED
    BY <1>1, <1>4, <1>5, <1>9, <2>1, OthersSound DEF OpenCreate
<1>11. QED
  BY <1>5, <1>7, <1>10 DEF IInv

LEMMA OpenStoreStep == ASSUME IInv, NEW t \in Tabs, OpenStore(t) PROVE IInv'
<1>1. tab[t].at = "openStore" /\ lock = t /\ Lives(t) /\ Placed(t)
  BY Owner DEF OpenStore, At, Owning
<1>2. manifest.active \in manifest.epochs /\ manifest.active \in Epochs
  BY <1>1 DEF Placed, IInv, DurableSound, ManifestSound, TypeOK, ManifestRecord
<1>3. tab' \in [Tabs -> TabRecord] /\ \A u \in Tabs \ {t} : tab'[u] = tab[u]
  BY GotoType DEF OpenStore, Places, Owning, Goto, IInv, TypeOK
<1>4. tab'[t].at = "openReady" /\ tab'[t].life = tab[t].life
  BY DEF OpenStore, Goto, IInv, TypeOK, TabRecord
<1>5. TypeOK'
  BY <1>2, <1>3 DEF OpenStore, OpenPhysical, IInv, TypeOK
<1>6. DurableSound'
  BY <1>2 DEF OpenStore, OpenPhysical, IInv, TypeOK, DurableSound, ManifestSound, RowsStored,
       CreatingEmpty, ViewKept, StoresListed
<1>7. Lives(t)' /\ Placed(t)'
  BY <1>1, <1>4 DEF Lives, Placed, Current, OpenStore, OpenPhysical
<1>8. Exclusive' /\ TabsSound'
  <2>1. fresh'.life >= fresh.life
    BY DEF OpenStore, IInv, TypeOK
  <2>2. QED
    BY <1>1, <1>3, <1>5, <1>7, <2>1, OthersSound DEF OpenStore
<1>9. QED
  BY <1>5, <1>6, <1>8 DEF IInv

LEMMA EmptyVisible == Visible(NoRows) = NoRows
BY DEF Visible, NoRows

LEMMA ReadyStep == ASSUME IInv, NEW t \in Tabs, OpenReady(t) PROVE IInv'
<1>1. tab[t].at = "openReady" /\ lock = t /\ Lives(t) /\ Placed(t)
  BY Owner DEF OpenReady, At, Owning
<1>2. /\ manifest' \in ManifestRecord /\ manifest'.state = "ready"
      /\ manifest'.life = manifest.life /\ manifest'.active = manifest.active
      /\ manifest'.epochs = manifest.epochs
  <2>1. manifest' \in ManifestRecord
    BY ManifestType DEF OpenReady, IInv
  <2>2. QED
    BY <2>1 DEF OpenReady, IInv, TypeOK, ManifestRecord
<1>3. tab' \in [Tabs -> TabRecord] /\ \A u \in Tabs \ {t} : tab'[u] = tab[u]
  BY GotoType DEF OpenReady, Places, Owning, Goto, IInv, TypeOK
<1>4. tab'[t].at = "openTrim" /\ tab'[t].life = tab[t].life
  BY DEF OpenReady, Goto, IInv, TypeOK, TabRecord
<1>5. TypeOK'
  BY <1>2, <1>3 DEF OpenReady, IInv, TypeOK
<1>6. manifest.active \in stores /\ Visible(rows[manifest.active]) = shown
  BY <1>1, EmptyVisible DEF Placed, IInv, DurableSound, CreatingEmpty, ViewKept
<1>7. DurableSound'
  BY <1>1, <1>2, <1>6 DEF Placed, OpenReady, IInv, DurableSound, ManifestSound, RowsStored,
       CreatingEmpty, ViewKept, StoresListed
<1>8. Lives(t)' /\ Placed(t)'
  BY <1>1, <1>2, <1>4 DEF Lives, Placed, Current, OpenReady
<1>9. Exclusive' /\ TabsSound'
  <2>1. fresh'.life >= fresh.life
    BY DEF OpenReady, IInv, TypeOK
  <2>2. QED
    BY <1>1, <1>2, <1>3, <1>5, <1>8, <2>1, OthersSound DEF OpenReady
<1>10. QED
  BY <1>5, <1>7, <1>9 DEF IInv

(* The manifest write that ends a cleanup.                                 *)
LEMMA TrimStep ==
  ASSUME IInv, NEW t \in Tabs,
         tab[t].at \in {"openTrim", "cleanFirst", "cleanLast"},
         (manifest.epochs \ {manifest.active}) \cap stores = {},
         manifest' = [manifest EXCEPT !.epochs = {manifest.active}, !.maintenance = FALSE],
         \/ tab[t].at = "cleanFirst" /\ Goto(t, "check") /\ UNCHANGED lock
         \/ Leave(t),
         UNCHANGED <<stores, rows, fresh, shown>>
  PROVE  IInv'
<1>1. lock = t /\ Lives(t) /\ Placed(t)
  BY Owner DEF Owning
<1>2. /\ manifest.state = "ready" /\ manifest.active \in manifest.epochs
      /\ manifest.active \in Epochs /\ manifest.active \in 1..fresh.epoch
  BY <1>1 DEF Placed, IInv, DurableSound, ManifestSound, TypeOK, ManifestRecord
<1>3. /\ manifest' \in ManifestRecord /\ manifest'.state = "ready"
      /\ manifest'.life = manifest.life /\ manifest'.active = manifest.active
      /\ manifest'.epochs = {manifest.active}
  <2>1. manifest' \in ManifestRecord
    <3>1. {manifest.active} \in SUBSET Epochs
      BY <1>2
    <3>2. QED
      BY <3>1, ManifestType DEF IInv
  <2>2. QED
    BY <1>2, <2>1 DEF IInv, TypeOK, ManifestRecord
<1>4. /\ tab' \in [Tabs -> TabRecord] /\ \A u \in Tabs \ {t} : tab'[u] = tab[u]
      /\ tab'[t].life = tab[t].life
      /\ \/ /\ lock' = t /\ tab'[t].at = "check" /\ tab'[t].op = tab[t].op
            /\ tab[t].at = "cleanFirst"
         \/ lock' = Nobody /\ tab'[t].at = Handle(t)
  <2>1. CASE tab[t].at = "cleanFirst" /\ Goto(t, "check") /\ UNCHANGED lock
    <3>1. tab' \in [Tabs -> TabRecord]
      BY <2>1, GotoType DEF Places, Owning, IInv
    <3>2. /\ \A u \in Tabs \ {t} : tab'[u] = tab[u]
          /\ tab'[t] = [tab[t] EXCEPT !.at = "check"] /\ tab[t] \in TabRecord
      BY <2>1 DEF Goto, IInv, TypeOK
    <3>3. tab'[t].at = "check" /\ tab'[t].op = tab[t].op /\ tab'[t].life = tab[t].life
      BY <3>2 DEF TabRecord
    <3>4. QED
      BY <1>1, <2>1, <3>1, <3>2, <3>3
  <2>2. CASE Leave(t)
    <3>1. /\ \A u \in Tabs \ {t} : tab'[u] = tab[u]
          /\ tab'[t].at = Handle(t) /\ tab'[t].life = tab[t].life
      BY <2>2 DEF Leave, IInv, TypeOK, TabRecord
    <3>2. QED
      BY <2>2, <3>1, LeaveType DEF Leave, Release, IInv
  <2>3. QED
    BY <2>1, <2>2
<1>5. TypeOK'
  BY <1>3, <1>4 DEF IInv, TypeOK
<1>6. DurableSound'
  BY <1>2, <1>3 DEF IInv, DurableSound, ManifestSound, RowsStored, CreatingEmpty, ViewKept,
       StoresListed
<1>7. Handle(t) \in {"closed", "open"} /\ (Handle(t) = "open" => tab[t].life # 0)
  BY DEF Handle
<1>8. Lives(t)'
  BY <1>1, <1>3, <1>4, <1>7 DEF Lives, Current
<1>9. Placed(t)'
  BY <1>1, <1>3, <1>4, <1>7 DEF Placed
<1>10. Exclusive' /\ TabsSound'
  <2>1. fresh'.life >= fresh.life
    BY DEF IInv, TypeOK
  <2>2. tab'[t].at \in Owning => lock' = t
    BY <1>4, <1>7 DEF Owning
  <2>3. QED
    BY <1>1, <1>2, <1>3, <1>4, <1>5, <1>8, <1>9, <2>1, <2>2, OthersSound
<1>11. QED
  BY <1>5, <1>6, <1>10 DEF IInv

LEMMA TrimSteps == ASSUME IInv, NEW t \in Tabs, OpenDone(t) \/ CleanupDone(t) PROVE IInv'
<1>1. CASE OpenDone(t)
  BY <1>1, TrimStep DEF OpenDone, At
<1>2. CASE CleanupDone(t)
  BY <1>2, TrimStep DEF CleanupDone, At
<1>3. QED
  BY <1>1, <1>2

LEMMA StartRemoveStep == ASSUME IInv, NEW t \in Tabs, StartRemove(t) PROVE IInv'
<1> DEFINE p == IF manifest.state = "removed" THEN "removeStores" ELSE "removeWrite"
           r == [tab[t] EXCEPT !.scope = 0, !.at = p]
<1>1. /\ tab[t].at \in {"closed", "open"} /\ lock = Nobody /\ lock' = t
      /\ manifest.state # "none" /\ Lives(t) /\ tab' = [tab EXCEPT ![t] = r]
      /\ UNCHANGED <<manifest, fresh, shown>>
  BY DEF StartRemove, IInv, TabsSound
<1>2. manifest.active \in manifest.epochs /\ manifest.active \in Epochs
  BY <1>1 DEF IInv, DurableSound, ManifestSound, TypeOK, ManifestRecord
<1>3. /\ tab' \in [Tabs -> TabRecord] /\ \A u \in Tabs \ {t} : tab'[u] = tab[u]
      /\ tab'[t].at = p /\ tab'[t].life = tab[t].life
  <2>1. tab[t] \in TabRecord /\ p \in Places /\ 0 \in 0..MaxEpoch
    BY BoundsAssumption DEF IInv, TypeOK, Places, Owning
  <2>2. r \in TabRecord
    BY <2>1 DEF TabRecord
  <2>3. r.at = p /\ r.life = tab[t].life
    BY <2>1 DEF TabRecord
  <2>4. QED
    BY <1>1, <2>2, <2>3, PutType DEF IInv, TypeOK
<1>4. stores' \in {stores, stores \cup {manifest.active}} /\ rows' = rows
  BY DEF StartRemove, OpenPhysical
<1>5. TypeOK'
  BY <1>1, <1>2, <1>3, <1>4 DEF IInv, TypeOK
<1>6. DurableSound'
  BY <1>1, <1>2, <1>4 DEF IInv, DurableSound, ManifestSound, RowsStored, CreatingEmpty,
       ViewKept, StoresListed
<1>7. Lives(t)' /\ Placed(t)'
  <2>1. manifest.state \in {"creating", "ready", "removed"}
    BY <1>1 DEF IInv, TypeOK, ManifestRecord
  <2>2. manifest.state = "ready" \/ ~(tab[t].life # 0 /\ Current(t))
    BY <1>1 DEF Lives, IInv, DurableSound, ManifestSound, Current
  <2>3. QED
    BY <1>1, <1>3, <2>1, <2>2 DEF Lives, Placed, Current
<1>8. Exclusive' /\ TabsSound'
  <2>1. fresh'.life >= fresh.life
    BY <1>1 DEF IInv, TypeOK
  <2>2. QED
    BY <1>1, <1>3, <1>5, <1>7, <2>1, OthersSound
<1>9. QED
  BY <1>5, <1>6, <1>8 DEF IInv

(* The fence is written, or the write fails and the handle stays.          *)
LEMMA RemoveWriteStep == ASSUME IInv, NEW t \in Tabs, RemoveWrite(t) PROVE IInv'
<1>1. tab[t].at = "removeWrite" /\ lock = t /\ Lives(t) /\ Placed(t)
  BY Owner DEF RemoveWrite, At, Owning
<1>2. CASE Leave(t) /\ UNCHANGED <<manifest, shown>>
  BY <1>1, <1>2, LeaveSound DEF RemoveWrite, Owning
<1>3. CASE /\ manifest' = [manifest EXCEPT !.state = "removed", !.partial = FALSE,
                                      !.maintenance = FALSE]
           /\ shown' = NoRows /\ Goto(t, "removeStores") /\ UNCHANGED lock
  <2>1. /\ manifest' \in ManifestRecord /\ manifest'.state = "removed"
        /\ manifest'.life = manifest.life /\ manifest'.active = manifest.active
        /\ manifest'.epochs = manifest.epochs
    <3>1. manifest' \in ManifestRecord
      BY <1>3, ManifestType DEF IInv
    <3>2. QED
      BY <1>3, <3>1 DEF IInv, TypeOK, ManifestRecord
  <2>2. /\ tab' \in [Tabs -> TabRecord] /\ \A u \in Tabs \ {t} : tab'[u] = tab[u]
        /\ tab'[t].at = "removeStores" /\ tab'[t].life = tab[t].life
    <3>1. tab' \in [Tabs -> TabRecord]
      BY <1>3, GotoType DEF Places, Owning, IInv
    <3>2. QED
      BY <1>3, <3>1 DEF Goto, IInv, TypeOK, TabRecord
  <2>3. TypeOK'
    BY <1>3, <2>1, <2>2 DEF RemoveWrite, IInv, TypeOK, NoRows, Kinds
  <2>4. DurableSound'
    BY <1>1, <2>1 DEF Placed, RemoveWrite, IInv, DurableSound, ManifestSound, RowsStored,
         CreatingEmpty, ViewKept, StoresListed
  <2>5. Lives(t)' /\ Placed(t)'
    BY <1>1, <2>1, <2>2 DEF Lives, Placed, Current, RemoveWrite
  <2>6. Exclusive' /\ TabsSound'
    <3>1. fresh'.life >= fresh.life
      BY DEF RemoveWrite, IInv, TypeOK
    <3>2. QED
      BY <1>1, <1>3, <2>1, <2>2, <2>3, <2>5, <3>1, OthersSound
  <2>7. QED
    BY <2>3, <2>4, <2>6 DEF IInv
<1>4. QED
  BY <1>2, <1>3 DEF RemoveWrite

LEMMA RemoveDoneStep == ASSUME IInv, NEW t \in Tabs, RemoveDone(t) PROVE IInv'
<1>1. /\ tab[t].at = "removeStores" /\ lock' = Nobody /\ tab' = [tab EXCEPT ![t] = ClosedTab]
      /\ UNCHANGED <<manifest, stores, rows, fresh, shown>>
  BY DEF RemoveDone, At
<1>2. lock = t
  BY <1>1, Owner DEF Owning
<1>3. ClosedTab.at \notin Owning /\ tab'[t] = ClosedTab
  BY <1>1 DEF ClosedTab, Owning, IInv, TypeOK
<1>4. Lives(t)'
  BY <1>1, <1>3 DEF ClosedTab, Lives, IInv, TypeOK
<1>5. QED
  BY <1>1, <1>2, <1>3, <1>4, ClosedType, AsideSound

(* Whether or not the write that lists the new epoch was committed, and    *)
(* whatever it reported.                                                   *)
LEMMA StageStep == ASSUME IInv, NEW t \in Tabs, Stage(t) PROVE IInv'
<1> DEFINE e == fresh.epoch + 1
<1>1. tab[t].at = "stage" /\ lock = t /\ Lives(t) /\ Placed(t)
  BY Owner DEF Stage, At, Owning
<1>2. /\ manifest.state = "ready" /\ manifest.epochs = {manifest.active}
      /\ manifest.active \in Epochs /\ manifest.active \in 1..fresh.epoch
      /\ tab[t] \in TabRecord
  BY <1>1 DEF Placed, IInv, DurableSound, ManifestSound, TypeOK, ManifestRecord
<1>3. /\ e \in Epochs /\ e \in 0..MaxEpoch /\ e # manifest.active /\ e \notin stores
      /\ fresh' \in [epoch : 0..MaxEpoch, life : 0..MaxLife]
      /\ fresh'.epoch = e /\ fresh'.life = fresh.life
  BY <1>2, BoundsAssumption DEF Stage, IInv, TypeOK, Epochs, DurableSound, StoresListed
<1>4. PICK committed \in BOOLEAN, reported \in BOOLEAN :
        /\ reported => committed
        /\ manifest' = IF committed
                       THEN [manifest EXCEPT !.epochs = {manifest.active, e},
                                             !.maintenance = TRUE]
                       ELSE manifest
        /\ tab' = [tab EXCEPT ![t] =
                     [@ EXCEPT !.at = IF reported THEN "openNew" ELSE "catch",
                               !.old = manifest.active, !.new = e]]
  BY DEF Stage
<1>5. /\ manifest' \in ManifestRecord /\ manifest'.state = "ready"
      /\ manifest'.life = manifest.life /\ manifest'.active = manifest.active
      /\ manifest'.epochs \in {{manifest.active}, {manifest.active, e}}
      /\ committed => e \in manifest'.epochs
  <2>1. {manifest.active, e} \in SUBSET Epochs
    BY <1>2, <1>3
  <2>2. manifest' \in ManifestRecord
    BY <1>4, <2>1, ManifestType DEF IInv, TypeOK
  <2>3. QED
    BY <1>2, <1>4, <2>2 DEF IInv, TypeOK, ManifestRecord
<1>6. /\ tab' \in [Tabs -> TabRecord] /\ \A u \in Tabs \ {t} : tab'[u] = tab[u]
      /\ tab'[t].at = IF reported THEN "openNew" ELSE "catch"
      /\ tab'[t].life = tab[t].life /\ tab'[t].op = tab[t].op
      /\ tab'[t].old = manifest.active /\ tab'[t].new = e
  <2> DEFINE p == IF reported THEN "openNew" ELSE "catch"
             r == [tab[t] EXCEPT !.at = p, !.old = manifest.active, !.new = e]
  <2>1. p \in Places /\ manifest.active \in 0..MaxEpoch
    BY <1>2, BoundsAssumption DEF Places, Owning, Epochs
  <2>2. r \in TabRecord
    BY <1>2, <1>3, <2>1 DEF TabRecord
  <2>3. /\ r.at = p /\ r.life = tab[t].life /\ r.op = tab[t].op
        /\ r.old = manifest.active /\ r.new = e
    BY <1>2 DEF TabRecord
  <2>4. tab' = [tab EXCEPT ![t] = r]
    BY <1>4
  <2>5. tab'[t] = r /\ \A u \in Tabs \ {t} : tab'[u] = tab[u]
    BY <2>4 DEF IInv, TypeOK
  <2>6. tab' \in [Tabs -> TabRecord]
    BY <2>2, <2>4, PutType DEF IInv
  <2>7. QED
    BY <2>3, <2>5, <2>6
<1>7. TypeOK'
  BY <1>3, <1>5, <1>6 DEF Stage, IInv, TypeOK
<1>8. DurableSound'
  <2>1. ManifestSound'
    BY <1>1, <1>2, <1>3, <1>5, BoundsAssumption DEF IInv, TypeOK, DurableSound, ManifestSound
  <2>2. QED
    BY <1>2, <1>5, <2>1 DEF Stage, IInv, DurableSound, RowsStored, CreatingEmpty, ViewKept,
         StoresListed
<1>9. Lives(t)' /\ Placed(t)'
  BY <1>1, <1>2, <1>3, <1>4, <1>5, <1>6 DEF Lives, Placed, Current, Stage
<1>10. Exclusive' /\ TabsSound'
  <2>1. fresh'.life >= fresh.life
    BY <1>3 DEF IInv, TypeOK
  <2>2. QED
    BY <1>1, <1>2, <1>5, <1>6, <1>7, <1>9, <2>1, OthersSound DEF Stage
<1>11. QED
  BY <1>7, <1>8, <1>10 DEF IInv

LEMMA OpenNewStep == ASSUME IInv, NEW t \in Tabs, OpenNew(t) PROVE IInv'
<1> DEFINE p == IF tab[t].op = "compact" THEN "seed" ELSE "flip"
<1>1. tab[t].at = "openNew" /\ lock = t /\ Lives(t) /\ Placed(t)
  BY Owner DEF OpenNew, At, Owning
<1>2. tab[t].new \in manifest.epochs /\ tab[t].new \in Epochs /\ tab[t].new \notin stores
  BY <1>1 DEF Placed, IInv, TypeOK, ManifestRecord
<1>3. tab' \in [Tabs -> TabRecord] /\ tab'[t] = [tab[t] EXCEPT !.at = p]
      /\ \A u \in Tabs \ {t} : tab'[u] = tab[u]
  <2>1. p \in Places /\ Goto(t, p)
    BY DEF Places, Owning, OpenNew
  <2>2. QED
    BY <2>1, GotoType DEF Goto, IInv, TypeOK
<1>4. /\ tab'[t].at = p /\ tab'[t].life = tab[t].life /\ tab'[t].op = tab[t].op
      /\ tab'[t].old = tab[t].old /\ tab'[t].new = tab[t].new
  BY <1>3 DEF IInv, TypeOK, TabRecord
<1>5. rows[tab[t].new] = NoRows
  BY <1>2 DEF IInv, DurableSound, RowsStored
<1>6. TypeOK'
  BY <1>2, <1>3 DEF OpenNew, OpenPhysical, IInv, TypeOK
<1>7. DurableSound'
  BY <1>2 DEF OpenNew, OpenPhysical, IInv, DurableSound, ManifestSound, RowsStored,
       CreatingEmpty, ViewKept, StoresListed
<1>8. Lives(t)' /\ Placed(t)'
  BY <1>1, <1>2, <1>4, <1>5 DEF Lives, Placed, Current, OpenNew, OpenPhysical
<1>9. Exclusive' /\ TabsSound'
  <2>1. fresh'.life >= fresh.life
    BY DEF OpenNew, IInv, TypeOK
  <2>2. QED
    BY <1>1, <1>3, <1>6, <1>8, <2>1, OthersSound DEF OpenNew
<1>10. QED
  BY <1>6, <1>7, <1>9 DEF IInv

(* Seeding writes only into the new epoch, which nobody sees yet.          *)
LEMMA SeedStep == ASSUME IInv, NEW t \in Tabs, Seed(t) PROVE IInv'
<1> DEFINE n == tab[t].new
<1>1. tab[t].at = "seed" /\ lock = t /\ Lives(t) /\ Placed(t)
  BY Owner DEF Seed, At, Owning
<1>2. /\ n \in Epochs /\ n # manifest.active /\ n \in stores
      /\ manifest.state = "ready" /\ manifest.active \in Epochs
  BY <1>1 DEF Placed, IInv, TypeOK, ManifestRecord, DurableSound, ManifestSound
<1>3. /\ rows' \in [Epochs -> [Docs -> Kinds]]
      /\ \A f \in Epochs : f # n => rows'[f] = rows[f]
  <2>1. PICK d \in Docs :
          rows' = [rows EXCEPT ![n] = [@ EXCEPT ![d] = Retained(rows[tab[t].old])[d]]]
    BY DEF Seed
  <2>2. Retained(rows[tab[t].old])[d] \in Kinds
    BY DEF Retained, Kinds
  <2>3. rows \in [Epochs -> [Docs -> Kinds]]
    BY DEF IInv, TypeOK
  <2>4. [rows[n] EXCEPT ![d] = Retained(rows[tab[t].old])[d]] \in [Docs -> Kinds]
    BY <1>2, <2>2, <2>3
  <2>5. QED
    BY <2>1, <2>3, <2>4
<1>4. TypeOK'
  BY <1>3 DEF Seed, IInv, TypeOK
<1>5. DurableSound'
  BY <1>2, <1>3 DEF Seed, IInv, DurableSound, ManifestSound, RowsStored, CreatingEmpty,
       ViewKept, StoresListed
<1>6. Lives(t)' /\ Placed(t)'
  BY <1>1, <1>2, <1>3 DEF Lives, Placed, Current, Seed
<1>7. Exclusive' /\ TabsSound'
  <2>1. fresh'.life >= fresh.life
    BY DEF Seed, IInv, TypeOK
  <2>2. QED
    BY <1>1, <1>4, <1>6, <2>1, OthersSound DEF Seed
<1>8. QED
  BY <1>4, <1>5, <1>7 DEF IInv

(* Without edits, the rows compaction keeps are the rows one can see.      *)
LEMMA RetainedVisible ==
  ASSUME NEW row \in [Docs -> Kinds], NoEdits(row)
  PROVE  Visible(Retained(row)) = Visible(row)
<1>1. \A d \in Docs : Retained(row)[d] = IF row[d] = "member" THEN "member" ELSE "none"
  BY DEF Retained
<1>2. \A d \in Docs : (IF Retained(row)[d] = "retired" THEN "none" ELSE Retained(row)[d])
                      = (IF row[d] = "retired" THEN "none" ELSE row[d])
  BY <1>1 DEF NoEdits, Kinds
<1>3. QED
  BY <1>2 DEF Visible

LEMMA FlipStep == ASSUME IInv, NEW t \in Tabs, Flip(t) PROVE IInv'
<1> DEFINE n == tab[t].new
<1>1. tab[t].at = "flip" /\ lock = t /\ Lives(t) /\ Placed(t)
  BY Owner DEF Flip, At, Owning
<1>2. /\ n \in Epochs /\ n \in manifest.epochs /\ n \in stores /\ manifest.active \in Epochs
      /\ manifest.state = "ready" /\ tab[t].op \in {"compact", "reset"}
      /\ rows \in [Epochs -> [Docs -> Kinds]]
      /\ Visible(rows[manifest.active]) = shown
  BY <1>1 DEF Placed, IInv, TypeOK, ManifestRecord, DurableSound, ManifestSound, ViewKept
<1>3. PICK committed \in BOOLEAN, reported \in BOOLEAN :
        /\ reported => committed
        /\ manifest' = IF ~committed THEN manifest
                       ELSE IF tab[t].op = "compact"
                            THEN [manifest EXCEPT !.active = n]
                            ELSE [manifest EXCEPT !.active = n, !.partial = FALSE,
                                                  !.issue = FALSE]
        /\ shown' = IF committed /\ tab[t].op = "reset" THEN NoRows ELSE shown
        /\ Goto(t, IF reported THEN "cleanLast" ELSE "catch")
  BY DEF Flip
<1>4. /\ manifest' \in ManifestRecord /\ manifest'.state = "ready"
      /\ manifest'.life = manifest.life /\ manifest'.epochs = manifest.epochs
      /\ manifest'.active = IF committed THEN n ELSE manifest.active
  <2>1. manifest' \in ManifestRecord
    BY <1>2, <1>3, ManifestType DEF IInv, TypeOK
  <2>2. QED
    BY <1>2, <1>3, <2>1 DEF IInv, TypeOK, ManifestRecord
<1>5. /\ tab' \in [Tabs -> TabRecord] /\ \A u \in Tabs \ {t} : tab'[u] = tab[u]
      /\ tab'[t].at \in {"cleanLast", "catch"} /\ tab'[t].life = tab[t].life
  <2> DEFINE p == IF reported THEN "cleanLast" ELSE "catch"
  <2>1. p \in Places /\ Goto(t, p)
    BY <1>3 DEF Places, Owning
  <2>2. tab' \in [Tabs -> TabRecord]
    BY <2>1, GotoType DEF IInv
  <2>3. QED
    BY <2>1, <2>2 DEF Goto, IInv, TypeOK, TabRecord
<1>6. TypeOK'
  BY <1>3, <1>4, <1>5 DEF Flip, IInv, TypeOK, NoRows, Kinds
<1>7. ViewKept'
  <2>1. CASE ~committed
    BY <1>3, <1>4, <2>1 DEF Flip, IInv, DurableSound, ViewKept
  <2>2. CASE committed /\ tab[t].op = "compact"
    <3>1. NoEdits(rows[manifest.active]) /\ rows[n] = Retained(rows[manifest.active])
      BY <1>1, <2>2 DEF Placed
    <3>2. Visible(rows[n]) = shown
      BY <1>2, <3>1, RetainedVisible
    <3>3. QED
      BY <1>2, <1>3, <1>4, <2>2, <3>2 DEF Flip, ViewKept
  <2>3. CASE committed /\ tab[t].op = "reset"
    <3>1. rows[n] = NoRows
      BY <1>1, <2>3 DEF Placed
    <3>2. QED
      BY <1>2, <1>3, <1>4, <2>3, <3>1, EmptyVisible DEF Flip, ViewKept
  <2>4. QED
    BY <1>2, <2>1, <2>2, <2>3
<1>8. DurableSound'
  BY <1>2, <1>4, <1>7 DEF Flip, IInv, DurableSound, ManifestSound, RowsStored, CreatingEmpty,
       StoresListed
<1>9. Lives(t)' /\ Placed(t)'
  BY <1>1, <1>4, <1>5 DEF Lives, Placed, Current, Flip
<1>10. Exclusive' /\ TabsSound'
  <2>1. fresh'.life >= fresh.life
    BY DEF Flip, IInv, TypeOK
  <2>2. QED
    BY <1>1, <1>2, <1>4, <1>5, <1>6, <1>9, <2>1, OthersSound DEF Flip
<1>11. QED
  BY <1>6, <1>8, <1>10 DEF IInv

-----------------------------------------------------------------------------
(* Accesses under the shared lock: no tab is inside a section, and the     *)
(* accessing one has a ready alias before it.                              *)

LEMMA AccessReady ==
  ASSUME IInv, NEW t \in Tabs, Access(t), Current(t)
  PROVE  /\ manifest.state = "ready" /\ manifest.active \in manifest.epochs
         /\ manifest.active \in Epochs /\ manifest.active \in stores
         /\ Visible(rows[manifest.active]) = shown
         /\ \A u \in Tabs : tab[u].at \notin Owning
<1>1. manifest.state = "ready"
  BY DEF Access, At, IInv, TabsSound, Lives
<1>2. QED
  BY <1>1, NobodyAssumption DEF Access, IInv, TypeOK, ManifestRecord, DurableSound,
       ManifestSound, ViewKept, Exclusive

LEMMA WriteRowStep ==
  ASSUME IInv, NEW t \in Tabs, NEW d \in Docs, NEW kind \in Kinds \ {"none"},
         Access(t), Current(t),
         rows' = [rows EXCEPT ![manifest.active] = [@ EXCEPT ![d] = kind]],
         shown' = [shown EXCEPT ![d] = IF kind = "retired" THEN "none" ELSE kind],
         stores' = stores \cup {manifest.active} \/ stores' = stores,
         manifest' = manifest \/ manifest' = [manifest EXCEPT !.partial = TRUE],
         UNCHANGED <<lock, tab, fresh>>
  PROVE  IInv'
<1> DEFINE a == manifest.active
           row == [rows[a] EXCEPT ![d] = kind]
<1>1. /\ manifest.state = "ready" /\ a \in manifest.epochs /\ a \in Epochs /\ a \in stores
      /\ Visible(rows[a]) = shown /\ \A u \in Tabs : tab[u].at \notin Owning
  BY AccessReady
<1>2. /\ rows[a] \in [Docs -> Kinds] /\ shown \in [Docs -> Kinds]
      /\ rows \in [Epochs -> [Docs -> Kinds]] /\ row \in [Docs -> Kinds]
  BY <1>1 DEF IInv, TypeOK
<1>3. /\ rows' \in [Epochs -> [Docs -> Kinds]] /\ rows'[a] = row
      /\ \A f \in Epochs : f # a => rows'[f] = rows[f]
  BY <1>1, <1>2
<1>4. /\ manifest' \in ManifestRecord /\ manifest'.state = manifest.state
      /\ manifest'.life = manifest.life /\ manifest'.active = a
      /\ manifest'.epochs = manifest.epochs
  <2>1. manifest' \in ManifestRecord
    BY ManifestType DEF IInv, TypeOK
  <2>2. QED
    BY <2>1 DEF IInv, TypeOK, ManifestRecord
<1>5. stores' = stores
  BY <1>1
<1>6. TypeOK'
  BY <1>2, <1>3, <1>4, <1>5 DEF IInv, TypeOK, Kinds
<1>7. Visible(row) = shown'
  <2>1. \A x \in Docs : shown[x] = IF rows[a][x] = "retired" THEN "none" ELSE rows[a][x]
    BY <1>1 DEF Visible
  <2>2. \A x \in Docs : shown'[x] = IF row[x] = "retired" THEN "none" ELSE row[x]
    BY <1>2, <2>1
  <2>3. shown' = [x \in Docs |-> shown'[x]]
    BY <1>2
  <2>4. QED
    BY <2>2, <2>3 DEF Visible
<1>8. DurableSound'
  BY <1>1, <1>3, <1>4, <1>5, <1>7 DEF IInv, DurableSound, ManifestSound, RowsStored,
       CreatingEmpty, ViewKept, StoresListed
<1>9. Exclusive'
  BY DEF IInv, Exclusive
<1>10. ASSUME NEW u \in Tabs PROVE Lives(u)' /\ Placed(u)'
  <2>1. Lives(u)'
    BY <1>4 DEF IInv, TabsSound, Lives, Current
  <2>2. Placed(u)'
    BY <1>1 DEF Placed, Owning
  <2>3. QED
    BY <2>1, <2>2
<1>11. QED
  BY <1>6, <1>8, <1>9, <1>10 DEF IInv, TabsSound

LEMMA RowSteps ==
  ASSUME IInv, NEW t \in Tabs, NEW d \in Docs, Edit(t, d) \/ Deliver(t, d) \/ Settle(t, d)
  PROVE  IInv'
<1>1. CASE Edit(t, d)
  BY <1>1, WriteRowStep DEF Edit, Kinds
<1>2. CASE Deliver(t, d)
  BY <1>2, WriteRowStep DEF Deliver, Replicating, Kinds
<1>3. CASE Settle(t, d)
  BY <1>3, WriteRowStep DEF Settle, Replicating, Kinds
<1>4. QED
  BY <1>1, <1>2, <1>3

LEMMA FlagSteps == ASSUME IInv, NEW t \in Tabs, Complete(t) \/ Raise(t) PROVE IInv'
<1>1. /\ \/ manifest' = [manifest EXCEPT !.partial = FALSE]
         \/ manifest' = [manifest EXCEPT !.issue = TRUE]
      /\ Access(t) /\ Current(t) /\ UNCHANGED <<stores, rows, lock, tab, fresh, shown>>
  BY DEF Complete, Raise, Replicating
<1>2. \A u \in Tabs : tab[u].at \notin Owning
  BY <1>1, AccessReady
<1>3. /\ manifest' \in ManifestRecord /\ manifest'.state = manifest.state
      /\ manifest'.life = manifest.life /\ manifest'.active = manifest.active
      /\ manifest'.epochs = manifest.epochs
  <2>1. manifest' \in ManifestRecord
    BY <1>1, ManifestType DEF IInv
  <2>2. QED
    BY <1>1, <2>1 DEF IInv, TypeOK, ManifestRecord
<1>4. TypeOK' /\ Exclusive'
  BY <1>1, <1>3 DEF IInv, TypeOK, Exclusive
<1>5. DurableSound'
  BY <1>1, <1>3 DEF IInv, DurableSound, ManifestSound, RowsStored, CreatingEmpty, ViewKept,
       StoresListed
<1>6. ASSUME NEW u \in Tabs PROVE Lives(u)' /\ Placed(u)'
  <2>1. Lives(u)'
    BY <1>1, <1>3 DEF IInv, TabsSound, Lives, Current
  <2>2. Placed(u)'
    BY <1>1, <1>2 DEF Placed, Owning
  <2>3. QED
    BY <2>1, <2>2
<1>7. QED
  BY <1>4, <1>5, <1>6 DEF IInv, TabsSound

-----------------------------------------------------------------------------
(* The theorems.                                                           *)

LEMMA InitSound == Init => IInv
<1> SUFFICES ASSUME Init PROVE IInv
  OBVIOUS
<1>1. NoManifest \in ManifestRecord
  BY BoundsAssumption DEF NoManifest, ManifestRecord
<1>2. TypeOK
  BY <1>1, ClosedType, BoundsAssumption DEF Init, TypeOK, NoRows, Kinds
<1>3. Exclusive
  BY DEF Init, Exclusive, ClosedTab, Owning
<1>4. DurableSound
  BY DEF Init, NoManifest, DurableSound, ManifestSound, RowsStored, CreatingEmpty, ViewKept,
       StoresListed
<1>5. TabsSound
  BY DEF Init, ClosedTab, TabsSound, Lives, Placed
<1>6. QED
  BY <1>2, <1>3, <1>4, <1>5 DEF IInv

LEMMA NextSound == IInv /\ [Next]_vars => IInv'
<1> SUFFICES ASSUME IInv, [Next]_vars PROVE IInv'
  OBVIOUS
<1>1. CASE UNCHANGED vars
  <2>1. TypeOK' /\ Exclusive' /\ DurableSound'
    BY <1>1, DurableKept DEF vars, IInv, TypeOK, Exclusive
  <2>2. \A t \in Tabs : Lives(t)'
    BY <1>1 DEF vars, IInv, TabsSound, Lives, Current
  <2>3. \A t \in Tabs : Placed(t)'
    BY <1>1 DEF vars, IInv, TabsSound, Placed
  <2>4. QED
    BY <2>1, <2>2, <2>3 DEF IInv, TabsSound
<1>2. ASSUME NEW t \in Tabs, Opening(t) PROVE IInv'
  BY <1>2, OpenStep, PurgeSteps, CreateStep, OpenStoreStep, ReadyStep, TrimSteps DEF Opening
<1>3. ASSUME NEW t \in Tabs, Accessing(t) PROVE IInv'
  BY <1>3, CloseStep, StayStep, FlagSteps, RowSteps DEF Accessing
<1>4. ASSUME NEW t \in Tabs, Maintaining(t) PROVE IInv'
  BY <1>4, StayStep, EnterStep, PurgeSteps, TrimSteps, FailSteps, CheckStep, StageStep,
     OpenNewStep, SeedStep, VerifyStep, FlipStep DEF Maintaining
<1>5. ASSUME NEW t \in Tabs, Removing(t) PROVE IInv'
  BY <1>5, StartRemoveStep, RemoveWriteStep, PurgeSteps, RemoveDoneStep, FailSteps DEF Removing
<1>6. QED
  BY <1>1, <1>2, <1>3, <1>4, <1>5, CloseStep DEF Next

LEMMA Invariant == Spec => []IInv
BY InitSound, NextSound, PTL DEF Spec

(* Every record, row and place of the alias storage keeps its type.        *)
THEOREM EpochsTypeCorrect == Spec => []TypeOK
<1>1. IInv => TypeOK
  BY DEF IInv
<1>2. QED
  BY <1>1, Invariant, PTL

(* However many tabs share the alias, wherever one dies and whatever a     *)
(* manifest write reports, the active epoch of a ready alias exists and    *)
(* shows what edits and replication built up.                              *)
THEOREM ViewSafe == Spec => []ViewKept
<1>1. IInv => ViewKept
  BY DEF IInv, DurableSound
<1>2. QED
  BY <1>1, Invariant, PTL

(* No transition, failure or crash leaves a store the manifest does not    *)
(* list.                                                                   *)
THEOREM StoresSafe == Spec => []StoresListed
<1>1. IInv => StoresListed
  BY DEF IInv, DurableSound
<1>2. QED
  BY <1>1, Invariant, PTL
=============================================================================
