----------------------- MODULE DatabaseRegistryProofs -----------------------
(***************************************************************************)
(* NoOrphanDocuments of DatabaseRegistry for every number of processes,    *)
(* handlers, databases and documents, whatever the caches answer.          *)
(*                                                                         *)
(* The property speaks of removed databases only; it is kept because the   *)
(* same bound already holds from the probe that found nothing, and because *)
(* nothing but the worker removes the row it is working on.                *)
(***************************************************************************)
EXTENDS DatabaseRegistry, TLAPS

Counted == docs \in [Ids -> Nat] /\ late \in [Ids -> Nat] /\ DOMAIN rows = Ids

Phases == {"batch", "probe", "index", "drop"}

(* The worker is at rest, or the database in its hands and those it still  *)
(* has to clean up have their rows.                                        *)
Working ==
    /\ worker.pc \in Phases
    /\ worker \in [pc : Phases, id : Ids, batch : Nat, todo : SUBSET Ids]
    /\ worker.id \in Rows /\ worker.todo \subseteq Rows \ {worker.id}

WorkerSound == worker = Resting \/ Working

LateBound == \A i \in Ids : Gone(i) \/ FoundEmpty(i) => docs[i] <= late[i]

IInv == Counted /\ WorkerSound /\ LateBound

-----------------------------------------------------------------------------
(* What the next database of a cycle is.                                   *)
LEMMA NextOfSound ==
    ASSUME NEW todo \in SUBSET Ids, todo \subseteq Rows', worker' \in NextOf(todo)
    PROVE  WorkerSound' /\ worker'.pc \in {"idle", "batch"}
<1>1. CASE todo = {}
    BY <1>1 DEF NextOf, WorkerSound, Resting
<1>2. CASE todo # {}
    <2>1. PICK i \in todo :
            worker' = [pc |-> "batch", id |-> i, batch |-> 0, todo |-> todo \ {i}]
        BY <1>2 DEF NextOf
    <2>2. /\ worker'.pc = "batch" /\ worker'.id = i /\ worker'.todo = todo \ {i}
          /\ worker' \in [pc : Phases, id : Ids, batch : Nat, todo : SUBSET Ids]
        BY <2>1 DEF Phases
    <2>3. QED
        BY <2>2 DEF WorkerSound, Working, Phases
<1>3. QED
    BY <1>1, <1>2

(* Steps that leave the rows, the documents and the worker alone.          *)
LEMMA Aside ==
    ASSUME IInv, UNCHANGED <<rows, docs, late, worker>>, used' = used
    PROVE  IInv'
BY DEF IInv, Counted, WorkerSound, Working, Rows, LateBound, Gone, FoundEmpty

(* A row that is inserted or updated: no database is removed.              *)
LEMMA PutRow ==
    ASSUME IInv, NEW i \in Ids, NEW s, NEW st, rows' = [rows EXCEPT ![i] = Row(s, st)],
           used' = used \/ used' = used \cup {i}, UNCHANGED <<docs, late, worker>>
    PROVE  IInv'
<1>1. /\ rows'[i].live /\ \A j \in Ids \ {i} : rows'[j] = rows[j]
      /\ DOMAIN rows' = Ids
    BY DEF IInv, Counted, Row
<1>2. Counted'
    BY <1>1 DEF IInv, Counted
<1>3. Rows \subseteq Rows'
    BY <1>1 DEF Rows
<1>4. WorkerSound'
    BY <1>3 DEF IInv, WorkerSound, Working
<1>5. \A j \in Ids : Gone(j)' => Gone(j)
    BY <1>1 DEF Gone
<1>6. LateBound'
    BY <1>5 DEF IInv, LateBound, FoundEmpty
<1>7. QED
    BY <1>2, <1>4, <1>6 DEF IInv

-----------------------------------------------------------------------------
(* The handlers.                                                           *)

(* A document is stored under some ID: what is written after the probe is  *)
(* counted as late.                                                        *)
LEMMA WriteStep == ASSUME IInv, NEW r \in Reqs, WriteDocument(r) PROVE IInv'
<1> DEFINE i == heap[req[r].obj].id
<1>1. /\ docs' = [docs EXCEPT ![i] = IF @ < MaxDocs THEN @ + 1 ELSE @]
      /\ late' = [late EXCEPT ![i] =
                    IF @ < MaxDocs /\ (Gone(i) \/ FoundEmpty(i)) THEN @ + 1 ELSE @]
      /\ UNCHANGED <<rows, used, worker>>
    BY DEF WriteDocument
<1>2. MaxDocs \in Nat /\ docs \in [Ids -> Nat] /\ late \in [Ids -> Nat]
    BY RegistryAssumption DEF IInv, Counted
<1>3. /\ docs' \in [Ids -> Nat] /\ \A j \in Ids \ {i} : docs'[j] = docs[j]
      /\ i \in Ids => docs'[i] = IF docs[i] < MaxDocs THEN docs[i] + 1 ELSE docs[i]
    <2> DEFINE m == IF docs[i] < MaxDocs THEN docs[i] + 1 ELSE docs[i]
    <2>1. i \in Ids => m \in Nat
        BY <1>2
    <2>2. docs' = [docs EXCEPT ![i] = m]
        BY <1>1
    <2> HIDE DEF m
    <2>3. /\ docs' \in [Ids -> Nat] /\ \A j \in Ids \ {i} : docs'[j] = docs[j]
          /\ i \in Ids => docs'[i] = m
        BY <1>2, <2>1, <2>2
    <2>4. QED
        BY <2>3 DEF m
<1>4. /\ late' \in [Ids -> Nat] /\ \A j \in Ids \ {i} : late'[j] = late[j]
      /\ i \in Ids => late'[i] = IF late[i] < MaxDocs /\ (Gone(i) \/ FoundEmpty(i))
                               THEN late[i] + 1 ELSE late[i]
    <2> DEFINE m == IF late[i] < MaxDocs /\ (Gone(i) \/ FoundEmpty(i))
                    THEN late[i] + 1 ELSE late[i]
    <2>1. i \in Ids => m \in Nat
        BY <1>2
    <2>2. late' = [late EXCEPT ![i] = m]
        BY <1>1
    <2> HIDE DEF m
    <2>3. /\ late' \in [Ids -> Nat] /\ \A j \in Ids \ {i} : late'[j] = late[j]
          /\ i \in Ids => late'[i] = m
        BY <1>2, <2>1, <2>2
    <2>4. QED
        BY <2>3 DEF m
<1>5. Counted' /\ WorkerSound'
    BY <1>1, <1>3, <1>4 DEF IInv, Counted, WorkerSound, Working, Rows
<1>6. LateBound'
    <2> SUFFICES ASSUME NEW j \in Ids, (Gone(j) \/ FoundEmpty(j))' PROVE docs'[j] <= late'[j]
        BY DEF LateBound
    <2>1. Gone(j) \/ FoundEmpty(j)
        BY <1>1 DEF Gone, FoundEmpty
    <2>2. docs[j] <= late[j]
        BY <2>1 DEF IInv, LateBound
    <2>3. QED
        BY <1>2, <1>3, <1>4, <2>1, <2>2
<1>7. QED
    BY <1>5, <1>6 DEF IInv

LEMMA StoreStep == ASSUME IInv, NEW r \in Reqs, StoreUpdate(r) PROVE IInv'
<1> DEFINE rec == heap[req[r].obj]
           i == rec.id
<1>1. UNCHANGED <<used, docs, late, worker>>
    BY DEF StoreUpdate
<1>2. CASE UNCHANGED rows
    BY <1>1, <1>2, Aside
<1>3. CASE \E s : rows' = [rows EXCEPT ![i] = Row(s, rec.status)]
    <2>1. PICK s : rows' = [rows EXCEPT ![i] = Row(s, rec.status)]
        BY <1>3
    <2>2. CASE i \in Ids
        BY <1>1, <2>1, <2>2, PutRow
    <2>3. CASE i \notin Ids
        <3>1. DOMAIN rows' = Ids /\ \A j \in Ids : rows'[j] = rows[j]
            BY <2>1, <2>3 DEF IInv, Counted
        <3>2. QED
            BY <1>1, <3>1 DEF IInv, Counted, WorkerSound, Working, Rows, LateBound, Gone,
                 FoundEmpty
    <2>4. QED
        BY <2>2, <2>3
<1>4. QED
    BY <1>2, <1>3 DEF StoreUpdate

LEMMA InsertStep == ASSUME IInv, NEW r \in Reqs, Insert(r) PROVE IInv'
<1>1. UNCHANGED <<docs, late, worker>>
    BY DEF Insert
<1>2. CASE UNCHANGED <<rows, used>>
    BY <1>1, <1>2, Aside
<1>3. CASE \E i \in Ids \ used : /\ rows' = [rows EXCEPT ![i] = Row(req[r].slug, "active")]
                                /\ used' = used \cup {i}
    BY <1>1, <1>3, PutRow
<1>4. QED
    BY <1>2, <1>3 DEF Insert

LEMMA HandlerStep == ASSUME IInv, NEW r \in Reqs, Handler(r) PROVE IInv'
<1>1. CASE Fetch(r) \/ Install(r) \/ InstallNegative(r) \/ Apply(r) \/ Invalidate(r) \/ Admit(r)
    BY <1>1, Aside DEF Fetch, Install, InstallNegative, Apply, Invalidate, Admit, catalog
<1>2. QED
    BY <1>1, WriteStep, StoreStep, InsertStep DEF Handler

-----------------------------------------------------------------------------
(* The worker.                                                             *)

(* The worker turns to another database and no document is written.        *)
LEMMA TurnStep ==
    ASSUME IInv, NEW todo \in SUBSET Ids, todo \subseteq Rows', worker' \in NextOf(todo),
           \A i \in Ids : Gone(i)' => docs'[i] <= late'[i], Counted'
    PROVE  IInv'
<1>1. WorkerSound' /\ worker'.pc \in {"idle", "batch"}
    BY NextOfSound
<1>2. \A i \in Ids : ~FoundEmpty(i)'
    BY <1>1 DEF FoundEmpty
<1>3. QED
    BY <1>1, <1>2 DEF IInv, LateBound

LEMMA Busy ==
    ASSUME IInv, worker.pc # "idle"
    PROVE  /\ Working /\ worker.id \in Ids /\ rows[worker.id].live
           /\ worker.todo \in SUBSET Ids /\ worker.todo \subseteq Rows \ {worker.id}
BY DEF IInv, WorkerSound, Working, Resting, Rows

LEMMA ListStep == ASSUME IInv, ListDeleting PROVE IInv'
<1> DEFINE todo == {i \in Rows : rows[i].status = "deleting"}
<1>1. worker' \in NextOf(todo) /\ UNCHANGED <<rows, used, docs, late>>
    BY DEF ListDeleting, catalog
<1>2. todo \in SUBSET Ids /\ todo \subseteq Rows'
    BY <1>1 DEF Rows
<1>3. Counted' /\ \A i \in Ids : Gone(i)' => docs'[i] <= late'[i]
    BY <1>1 DEF IInv, Counted, LateBound, Gone
<1>4. QED
    BY <1>1, <1>2, <1>3, TurnStep

LEMMA BatchStep == ASSUME IInv, DeleteBatch PROVE IInv'
<1> DEFINE n == SmallerOf(docs[worker.id], BatchSize)
           last == n < BatchSize \/ worker.batch + 1 = MaxBatches
<1>1. /\ Working /\ worker.id \in Ids /\ rows[worker.id].live
      /\ worker.todo \in SUBSET Ids /\ worker.todo \subseteq Rows \ {worker.id}
      /\ UNCHANGED <<rows, used, late>>
    BY Busy DEF DeleteBatch
<1>2. CASE worker' \in NextOf(worker.todo) /\ UNCHANGED docs
    <2>1. Counted' /\ \A i \in Ids : Gone(i)' => docs'[i] <= late'[i]
        BY <1>1, <1>2 DEF IInv, Counted, LateBound, Gone
    <2>2. worker.todo \subseteq Rows'
        BY <1>1 DEF Rows
    <2>3. QED
        BY <1>1, <1>2, <2>1, <2>2, TurnStep
<1>3. CASE /\ docs' = [docs EXCEPT ![worker.id] = @ - n]
           /\ worker' = [worker EXCEPT !.batch = @ + 1,
                                       !.pc = IF last THEN "probe" ELSE "batch"]
    <2>1. BatchSize \in Nat /\ docs \in [Ids -> Nat] /\ docs[worker.id] \in Nat
          /\ late \in [Ids -> Nat]
        BY <1>1, RegistryAssumption DEF IInv, Counted
    <2>2. n \in Nat /\ docs[worker.id] - n \in Nat /\ docs[worker.id] - n <= docs[worker.id]
        BY <2>1 DEF SmallerOf
    <2>3. /\ docs' \in [Ids -> Nat] /\ docs'[worker.id] <= docs[worker.id]
          /\ \A i \in Ids \ {worker.id} : docs'[i] = docs[i]
        BY <1>1, <1>3, <2>1, <2>2
    <2>4. Counted' /\ \A i \in Ids : Gone(i)' => docs'[i] <= late'[i]
        BY <1>1, <2>1, <2>3 DEF IInv, Counted, LateBound, Gone
    <2>5. /\ worker'.pc \in {"probe", "batch"} /\ worker'.id = worker.id
          /\ worker'.todo = worker.todo
          /\ worker' \in [pc : Phases, id : Ids, batch : Nat, todo : SUBSET Ids]
        <3>1. (IF last THEN "probe" ELSE "batch") \in Phases
            BY DEF Phases
        <3>2. worker \in [pc : Phases, id : Ids, batch : Nat, todo : SUBSET Ids]
              /\ worker.batch + 1 \in Nat
            BY <1>1 DEF Working
        <3>3. worker'.pc \in {"probe", "batch"} /\ worker'.id = worker.id
              /\ worker'.todo = worker.todo
            BY <1>3, <3>2
        <3>4. QED
            BY <1>3, <3>1, <3>2, <3>3
    <2>6. Working' /\ \A i \in Ids : ~FoundEmpty(i)'
        BY <1>1, <2>5 DEF Working, Rows, FoundEmpty, Phases
    <2>7. QED
        BY <2>4, <2>6 DEF IInv, WorkerSound, LateBound
<1>4. QED
    BY <1>2, <1>3 DEF DeleteBatch

(* The probe that finds nothing establishes the bound: 0 <= late.          *)
LEMMA ProbeStep == ASSUME IInv, Probe PROVE IInv'
<1>1. /\ Working /\ worker.id \in Ids /\ rows[worker.id].live
      /\ worker.todo \in SUBSET Ids /\ worker.todo \subseteq Rows \ {worker.id}
      /\ UNCHANGED <<rows, used, late>> /\ docs \in [Ids -> Nat] /\ late \in [Ids -> Nat]
    BY Busy DEF Probe, IInv, Counted
<1>2. CASE docs[worker.id] = 0 /\ worker' = [worker EXCEPT !.pc = "index"] /\ UNCHANGED docs
    <2>1. /\ worker'.pc = "index" /\ worker'.id = worker.id /\ worker'.todo = worker.todo
          /\ worker' \in [pc : Phases, id : Ids, batch : Nat, todo : SUBSET Ids]
        BY <1>1, <1>2 DEF Working, Phases
    <2>2. Working' /\ Counted'
        BY <1>1, <1>2, <2>1 DEF IInv, Counted, Working, Rows, Phases
    <2>3. LateBound'
        BY <1>1, <1>2, <2>1 DEF IInv, LateBound, Gone, FoundEmpty
    <2>4. QED
        BY <2>2, <2>3 DEF IInv, WorkerSound
<1>3. CASE /\ worker' \in NextOf(worker.todo)
           /\ \/ docs[worker.id] # 0 /\ docs' = [docs EXCEPT ![worker.id] = @ - 1]
              \/ UNCHANGED docs
    <2>1. /\ docs' \in [Ids -> Nat] /\ docs'[worker.id] <= docs[worker.id]
          /\ \A i \in Ids \ {worker.id} : docs'[i] = docs[i]
        BY <1>1, <1>3
    <2>2. Counted' /\ \A i \in Ids : Gone(i)' => docs'[i] <= late'[i]
        BY <1>1, <2>1 DEF IInv, Counted, LateBound, Gone
    <2>3. worker.todo \subseteq Rows'
        BY <1>1 DEF Rows
    <2>4. QED
        BY <1>1, <1>3, <2>2, <2>3, TurnStep
<1>4. QED
    BY <1>2, <1>3 DEF Probe

LEMMA IndexStep == ASSUME IInv, InvalidateIndexes PROVE IInv'
<1>1. /\ Working /\ worker.pc = "index" /\ worker' = [worker EXCEPT !.pc = "drop"]
      /\ UNCHANGED <<rows, used, docs, late>>
    BY Busy DEF InvalidateIndexes, catalog
<1>2. /\ worker'.pc = "drop" /\ worker'.id = worker.id /\ worker'.todo = worker.todo
      /\ worker' \in [pc : Phases, id : Ids, batch : Nat, todo : SUBSET Ids]
    BY <1>1 DEF Working, Phases
<1>3. QED
    BY <1>1, <1>2 DEF IInv, Counted, WorkerSound, Working, Rows, Phases, LateBound, Gone,
         FoundEmpty

(* The row goes: the bound that held since the probe is what remains.      *)
LEMMA DropStep == ASSUME IInv, HardDelete PROVE IInv'
<1>1. /\ Working /\ worker.id \in Ids /\ rows[worker.id].live /\ worker.pc = "drop"
      /\ worker.todo \in SUBSET Ids /\ worker.todo \subseteq Rows \ {worker.id}
      /\ UNCHANGED <<used, docs>> /\ docs \in [Ids -> Nat] /\ late \in [Ids -> Nat]
      /\ worker' \in NextOf(worker.todo) /\ DOMAIN rows = Ids
    BY Busy DEF HardDelete, IInv, Counted
<1>2. CASE rows' = [rows EXCEPT ![worker.id] = NoRow] /\ UNCHANGED late
    <2>1. DOMAIN rows' = Ids /\ \A i \in Ids \ {worker.id} : rows'[i] = rows[i]
        BY <1>1, <1>2
    <2>2. Counted' /\ worker.todo \subseteq Rows'
        BY <1>1, <1>2, <2>1 DEF Counted, Rows
    <2>3. docs[worker.id] <= late[worker.id]
        BY <1>1 DEF IInv, LateBound, FoundEmpty
    <2>4. \A i \in Ids : Gone(i)' => docs'[i] <= late'[i]
        BY <1>1, <1>2, <2>1, <2>3 DEF IInv, LateBound, Gone
    <2>5. QED
        BY <1>1, <2>2, <2>4, TurnStep
<1>3. CASE UNCHANGED rows /\ late' = [late EXCEPT ![worker.id] = 0]
    <2>1. late' \in [Ids -> Nat] /\ \A i \in Ids \ {worker.id} : late'[i] = late[i]
        BY <1>1, <1>3
    <2>2. Counted' /\ worker.todo \subseteq Rows'
        BY <1>1, <1>3, <2>1 DEF Counted, Rows
    <2>3. \A i \in Ids : Gone(i)' => docs'[i] <= late'[i]
        BY <1>1, <1>3, <2>1 DEF IInv, LateBound, Gone
    <2>4. QED
        BY <1>1, <2>2, <2>3, TurnStep
<1>4. QED
    BY <1>2, <1>3 DEF HardDelete

LEMMA StopStep == ASSUME IInv, StopWorker PROVE IInv'
<1>1. /\ Working /\ worker.id \in Ids /\ rows[worker.id].live
      /\ UNCHANGED <<rows, used, docs>> /\ late \in [Ids -> Nat]
      /\ worker' = Resting
      /\ late' \in {late, [late EXCEPT ![worker.id] = 0]}
    BY Busy DEF StopWorker, IInv, Counted
<1>2. late' \in [Ids -> Nat] /\ \A i \in Ids \ {worker.id} : late'[i] = late[i]
    BY <1>1
<1>3. Counted' /\ WorkerSound' /\ \A i \in Ids : ~FoundEmpty(i)'
    BY <1>1, <1>2 DEF IInv, Counted, WorkerSound, FoundEmpty, Resting
<1>4. LateBound'
    BY <1>1, <1>2, <1>3 DEF IInv, LateBound, Gone
<1>5. QED
    BY <1>3, <1>4 DEF IInv

-----------------------------------------------------------------------------
(* The theorem.                                                            *)

LEMMA InitSound == Init => IInv
BY DEF Init, IInv, Counted, WorkerSound, LateBound, Gone, FoundEmpty, Resting

LEMMA NextSound == IInv /\ [Next]_vars => IInv'
<1> SUFFICES ASSUME IInv, [Next]_vars PROVE IInv'
    OBVIOUS
<1>1. CASE UNCHANGED vars
    BY <1>1, Aside DEF vars, catalog
<1>2. CASE \E r \in Reqs, n \in Nodes, kind \in Kinds, k \in Keys : Begin(r, n, kind, k)
    BY <1>2, Aside DEF Begin, catalog
<1>3. CASE \E r \in Reqs, n \in Nodes, s \in (Slugs \ Protected) \cup {None} : CountByOwner(r, n, s)
    BY <1>3, Aside DEF CountByOwner, catalog
<1>4. CASE \E n \in Nodes, i \in Ids : Expire(n, i)
    BY <1>4, Aside DEF Expire, catalog
<1>5. CASE \E n \in Nodes, k \in Keys : ExpireNegative(n, k)
    BY <1>5, Aside DEF ExpireNegative, catalog
<1>6. CASE \E s \in Slugs : EnsureDefault(s)
    BY <1>6, PutRow DEF EnsureDefault
<1>7. CASE Worker
    BY <1>7, ListStep, BatchStep, ProbeStep, IndexStep, DropStep DEF Worker
<1>8. QED
    BY <1>1, <1>2, <1>3, <1>4, <1>5, <1>6, <1>7, HandlerStep, StopStep DEF Next

(* Whatever stale record a handler writes through, and wherever the worker *)
(* fails or stops, the documents left under a removed database are those   *)
(* written after the worker's probe found none.                            *)
THEOREM OrphansAreLate == Spec => []NoOrphanDocuments
<1>1. IInv => NoOrphanDocuments
    BY DEF IInv, LateBound, NoOrphanDocuments
<1>2. QED
    BY <1>1, InitSound, NextSound, PTL DEF Spec
=============================================================================
