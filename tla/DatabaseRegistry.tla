-------------------------- MODULE DatabaseRegistry --------------------------
(***************************************************************************)
(* The catalog of logical databases: the PostgreSQL rows, the metadata     *)
(* cache of every service process, the handlers of the database service,   *)
(* and the worker that cleans up a database after its deletion.            *)
(*                                                                         *)
(* A cached record is one Go object: the cache hands out the pointer it    *)
(* holds, and a handler that changes the record changes what the cache     *)
(* answers.  `heap' holds these objects: the object cached by node n for   *)
(* database i is heap[<<n, i>>]; one that only handlers still refer to is  *)
(* kept under the name of a handler.                                       *)
(***************************************************************************)
EXTENDS Integers, FiniteSets

CONSTANTS
    Nodes,         \* service processes, each with a cache of its own
    Reqs,          \* handlers that may run at the same time
    Ids,           \* generated database IDs, each used at most once
    Slugs,         \* slugs, unique over the rows
    Protected,     \* the slugs DeleteDatabase refuses ("default")
    Kinds,         \* the requests made: some of KnownKinds
    Keys,          \* the identifiers they name: some of the IDs and slugs
    Quota,         \* MaxDatabasesPerUser, for the one owner modelled
    BatchSize, MaxBatches, \* bounds of one cleanup cycle
    MaxDocs,       \* bound: documents stored per database
    MaxFailures,   \* bound: store errors and stops of the worker
    None

Statuses == {"active", "suspended", "deleting"}
\* A status stands for an administrator's request to set it.
KnownKinds == {"rename", "slug", "delete", "write"} \cup Statuses

ASSUME RegistryAssumption ==
    /\ Protected \subseteq Slugs
    /\ Kinds \subseteq KnownKinds /\ Keys \subseteq Ids \cup Slugs
    /\ {Quota, BatchSize, MaxBatches} \subseteq Nat \ {0}
    /\ {MaxDocs, MaxFailures} \subseteq Nat
    /\ None \notin Ids \cup Slugs \cup Reqs \cup Nodes

VARIABLES
    rows,     \* the catalog: the row of every ID, or NoRow
    used,     \* IDs ever inserted
    docs,     \* documents stored under every ID
    late,     \* of `docs', those written since the probe that found none
    heap,     \* the record objects, those of idCache among them
    slugs,    \* slugCache of every node: the ID cached for a slug
    neg,      \* negativeCache of every node
    req,      \* the running handlers
    worker,   \* the deletion worker
    failures \* store errors and worker stops so far

catalog == <<rows, used, docs, late>>
caches == <<heap, slugs, neg>>
vars == <<catalog, caches, req, worker, failures>>

-----------------------------------------------------------------------------
(* Records and objects.                                                    *)

NoRow == [live |-> FALSE, slug |-> None, status |-> "deleting"]
Row(s, st) == [live |-> TRUE, slug |-> s, status |-> st]

Record == [id : Ids, slug : Slugs \cup {None}, status : Statuses]
Idle == [pc |-> "idle"]

Cached == Nodes \X Ids
Objs == Cached \cup Reqs

\* The handlers, of the requests q, that refer to an object.
Holders(q, o) == {r \in Reqs : "obj" \in DOMAIN q[r] /\ q[r].obj = o}

\* A name for an object that only handlers refer to.
FreeObj(q) == CHOOSE o \in Reqs : Holders(q, o) = {}

\* The row of an ID as a record.
RowRecord(i) == [id |-> i, slug |-> rows[i].slug, status |-> rows[i].status]

Rows == {i \in Ids : rows[i].live}
\* The rows of the owner; the protected database belongs to an administrator.
Owned == {i \in Rows : rows[i].slug \notin Protected}
Gone(i) == i \in used /\ ~rows[i].live

\* The probe found no document of this database, and its row is still there.
FoundEmpty(i) == worker.pc \in {"index", "drop"} /\ worker.id = i

\* The requests become q; an object nobody refers to any more is dropped.
Proceed(q) ==
    /\ req' = q
    /\ heap' = [o \in Objs |-> IF o \in Cached \/ Holders(q, o) # {} THEN heap[o] ELSE None]

Finished(r) == [req EXCEPT ![r] = Idle]
Finish(r) == Proceed(Finished(r))

\* A store call may fail, at most MaxFailures times.
StoreError == failures < MaxFailures /\ failures' = failures + 1

-----------------------------------------------------------------------------
(* The cache.                                                              *)

\* The requests become q, and object o, or None, becomes the entry of node n
\* for database i.  Handlers that refer to the old object keep that object.
Replace(n, i, o, q) ==
    LET e == <<n, i>>
        old == Holders(q, e)
        new == IF o = None THEN {} ELSE Holders(q, o)
        name == FreeObj(q)
    IN  /\ req' = [r \in Reqs |->
                     IF r \in old THEN [q[r] EXCEPT !.obj = name]
                     ELSE IF r \in new THEN [q[r] EXCEPT !.obj = e] ELSE q[r]]
        /\ heap' = [x \in Objs |->
                      IF x = e THEN (IF o = None THEN None ELSE heap[o])
                      ELSE IF old # {} /\ x = name THEN heap[e]
                      ELSE IF x \in Cached \/ (x # o /\ Holders(q, x) # {}) THEN heap[x]
                      ELSE None]

\* addToCache: the entry, the slug mapping, and no negative entry for either.
AddToCache(n, o, q) ==
    LET i == heap[o].id
        s == heap[o].slug
    IN  /\ Replace(n, i, o, q)
        /\ slugs' = IF s = None THEN slugs ELSE [slugs EXCEPT ![n][s] = i]
        /\ neg' = [neg EXCEPT ![n] = @ \ {i, s}]

\* Removing an entry also removes the mapping of the given slug.
DropEntry(n, i, s, q) ==
    /\ Replace(n, i, None, q)
    /\ slugs' = IF s = None THEN slugs ELSE [slugs EXCEPT ![n][s] = None]
    /\ UNCHANGED neg

\* An entry whose TTL ended counts as missing; an entry over the capacity is
\* removed although its TTL has not.  Both happen at any time here.
Expire(n, i) ==
    /\ heap[<<n, i>>] # None
    /\ DropEntry(n, i, heap[<<n, i>>].slug, req)
    /\ UNCHANGED <<catalog, worker, failures>>

ExpireNegative(n, k) ==
    /\ k \in neg[n]
    /\ neg' = [neg EXCEPT ![n] = @ \ {k}]
    /\ UNCHANGED <<catalog, heap, slugs, req, worker, failures>>

\* The object a lookup by ID or slug finds, or None.
Lookup(n, k) ==
    LET i == IF k \in Ids THEN k ELSE slugs[n][k]
    IN  IF i = None \/ heap[<<n, i>>] = None THEN None ELSE <<n, i>>

\* The ID the store finds for an ID or slug.
StoreIds(k) == {i \in Rows : i = k \/ rows[i].slug = k}

-----------------------------------------------------------------------------
(* resolveIdentifier, the first half of every handler but CreateDatabase.  *)

Begin(r, n, kind, k) ==
    /\ req[r] = Idle
    /\ LET o == Lookup(n, k)
       IN  req' = [req EXCEPT ![r] =
                IF o # None
                THEN [pc |-> "held", node |-> n, kind |-> kind, obj |-> o]
                ELSE IF k \in neg[n] THEN Idle
                ELSE [pc |-> "fetch", node |-> n, kind |-> kind, key |-> k]]
    /\ req'[r] # Idle
    /\ UNCHANGED <<catalog, caches, worker, failures>>

\* Mutant: a missing row is taken for a record.
MutantFetchMissing(r) ==
    /\ req[r].pc = "fetch"
    /\ \E i \in used \cap (StoreIds(req[r].key) \cup {req[r].key}) :
         /\ heap' = [heap EXCEPT ![FreeObj(req)] =
                       [id |-> i, slug |-> None, status |-> "active"]]
         /\ req' = [req EXCEPT ![r] = [pc |-> "install", node |-> req[r].node,
                                       kind |-> req[r].kind, obj |-> FreeObj(req)]]
    /\ UNCHANGED <<catalog, slugs, neg, worker, failures>>

\* The store is read with no lock held.
Fetch(r) ==
    /\ req[r].pc = "fetch"
    /\ LET q == req[r]
       IN  \/ /\ StoreIds(q.key) = {}
              /\ req' = [req EXCEPT ![r] = [q EXCEPT !.pc = "missing"]]
              /\ UNCHANGED <<heap, failures>>
           \/ \E i \in StoreIds(q.key) :
              /\ heap' = [heap EXCEPT ![FreeObj(req)] = RowRecord(i)]
              /\ req' = [req EXCEPT ![r] = [pc |-> "install", node |-> q.node,
                                            kind |-> q.kind, obj |-> FreeObj(req)]]
              /\ UNCHANGED failures
           \/ StoreError /\ Finish(r)
    /\ UNCHANGED <<catalog, slugs, neg, worker>>

Install(r) ==
    /\ req[r].pc = "install"
    /\ AddToCache(req[r].node, req[r].obj,
                  IF req[r].kind = "create" THEN Finished(r)
                  ELSE [req EXCEPT ![r].pc = "held"])
    /\ UNCHANGED <<catalog, worker, failures>>

InstallNegative(r) ==
    /\ req[r].pc = "missing"
    /\ neg' = [neg EXCEPT ![req[r].node] = @ \cup {req[r].key}]
    /\ Finish(r)
    /\ UNCHANGED <<catalog, slugs, worker, failures>>

-----------------------------------------------------------------------------
(* UpdateDatabase, DeleteDatabase, and a document request admitted by      *)
(* ResolveDatabase.  The record is changed in place, then stored.          *)

\* The record after the request's change; None if the request is refused.
Changed(kind, rec, s) ==
    CASE kind = "rename" -> rec
      [] kind = "slug"   -> IF rec.slug = None THEN [rec EXCEPT !.slug = s] ELSE None
      [] kind = "delete" -> IF rec.slug \in Protected THEN None
                            ELSE [rec EXCEPT !.status = "deleting"]
      [] OTHER           -> [rec EXCEPT !.status = kind]

Apply(r) ==
    /\ req[r].pc = "held" /\ req[r].kind # "write"
    /\ \E s \in Slugs :
         LET o == req[r].obj
             new == Changed(req[r].kind, heap[o], s)
         IN  IF new = None
             THEN Finish(r)
             ELSE /\ heap' = [heap EXCEPT ![o] = new]
                  /\ req' = [req EXCEPT ![r].pc = "store"]
    /\ UNCHANGED <<catalog, slugs, neg, worker, failures>>

\* UPDATE ... WHERE id: the whole record, but a slug that is set stays.
StoreUpdate(r) ==
    /\ req[r].pc = "store"
    /\ LET rec == heap[req[r].obj]
           i == rec.id
           slug == IF rows[i].slug # None THEN rows[i].slug ELSE rec.slug
           taken == slug # None /\ \E j \in Rows \ {i} : rows[j].slug = slug
       IN  \/ /\ rows[i].live /\ ~taken
              /\ rows' = [rows EXCEPT ![i] = Row(slug, rec.status)]
              /\ req' = [req EXCEPT ![r].pc = "invalidate"]
              /\ UNCHANGED <<heap, failures>>
           \/ /\ ~rows[i].live \/ taken
              /\ Finish(r)
              /\ UNCHANGED <<rows, failures>>
           \/ /\ StoreError /\ Finish(r)
              /\ UNCHANGED rows
    /\ UNCHANGED <<used, docs, late, slugs, neg, worker>>

Invalidate(r) ==
    /\ req[r].pc = "invalidate"
    /\ LET rec == heap[req[r].obj]
       IN  /\ DropEntry(req[r].node, rec.id, rec.slug, Finished(r))
    /\ UNCHANGED <<catalog, worker, failures>>

\* validateResolvedDatabase on the record in hand, then the document is stored.
Admit(r) ==
    /\ req[r].pc = "held" /\ req[r].kind = "write"
    /\ IF heap[req[r].obj].status = "active"
       THEN req' = [req EXCEPT ![r].pc = "write"] /\ UNCHANGED heap
       ELSE Finish(r)
    /\ UNCHANGED <<catalog, slugs, neg, worker, failures>>

WriteDocument(r) ==
    /\ req[r].pc = "write"
    /\ LET i == heap[req[r].obj].id
       IN  /\ docs' = [docs EXCEPT ![i] = IF @ < MaxDocs THEN @ + 1 ELSE @]
           /\ late' = [late EXCEPT ![i] =
                IF @ < MaxDocs /\ (Gone(i) \/ FoundEmpty(i)) THEN @ + 1 ELSE @]
    /\ Finish(r)
    /\ UNCHANGED <<rows, used, slugs, neg, worker, failures>>

-----------------------------------------------------------------------------
(* CreateDatabase: the quota is counted and the row inserted by two calls. *)

CountByOwner(r, n, s) ==
    /\ req[r] = Idle
    /\ Cardinality(Owned) < Quota
    /\ req' = [req EXCEPT ![r] = [pc |-> "insert", node |-> n, slug |-> s]]
    /\ UNCHANGED <<catalog, caches, worker, failures>>

Insert(r) ==
    /\ req[r].pc = "insert"
    /\ LET s == req[r].slug
       IN  IF s # None /\ \E j \in Rows : rows[j].slug = s
           THEN Finish(r) /\ UNCHANGED <<rows, used, failures>>
           ELSE \/ \E i \in Ids \ used :
                   /\ rows' = [rows EXCEPT ![i] = Row(s, "active")]
                   /\ used' = used \cup {i}
                   /\ heap' = [heap EXCEPT ![FreeObj(req)] =
                                 [id |-> i, slug |-> s, status |-> "active"]]
                   /\ req' = [req EXCEPT ![r] = [pc |-> "install",
                        node |-> req[r].node, kind |-> "create", obj |-> FreeObj(req)]]
                   /\ UNCHANGED failures
                \/ StoreError /\ Finish(r) /\ UNCHANGED <<rows, used>>
    /\ UNCHANGED <<docs, late, slugs, neg, worker>>

\* EnsureDefaultDatabase, when a process starts: the protected database exists
\* afterwards, created here or by another process.
EnsureDefault(s) ==
    /\ s \in Protected /\ StoreIds(s) = {}
    /\ \E i \in Ids \ used :
         /\ rows' = [rows EXCEPT ![i] = Row(s, "active")]
         /\ used' = used \cup {i}
    /\ UNCHANGED <<docs, late, caches, req, worker, failures>>

-----------------------------------------------------------------------------
(* The deletion worker.                                                    *)

Resting == [pc |-> "idle", todo |-> {}]

\* The next database of the cycle, or the end of the cycle.
NextOf(todo) ==
    IF todo = {} THEN {Resting}
    ELSE {[pc |-> "batch", id |-> i, batch |-> 0, todo |-> todo \ {i}] : i \in todo}

\* processDeletingDatabases lists the databases once.
ListDeleting ==
    /\ worker.pc = "idle"
    /\ LET todo == {i \in Rows : rows[i].status = "deleting"}
       IN  todo # {} /\ worker' \in NextOf(todo)
    /\ UNCHANGED <<catalog, caches, req, failures>>

SmallerOf(a, b) == IF a < b THEN a ELSE b

\* One batch; a short one, or the last of the cycle, is followed by the probe.
DeleteBatch ==
    /\ worker.pc = "batch"
    /\ \/ LET n == SmallerOf(docs[worker.id], BatchSize)
              last == n < BatchSize \/ worker.batch + 1 = MaxBatches
          IN  /\ docs' = [docs EXCEPT ![worker.id] = @ - n]
              /\ worker' = [worker EXCEPT !.batch = @ + 1,
                                          !.pc = IF last THEN "probe" ELSE "batch"]
              /\ UNCHANGED failures
       \/ StoreError /\ worker' \in NextOf(worker.todo) /\ UNCHANGED docs
    /\ UNCHANGED <<rows, used, late, caches, req>>

\* Mutant: a full last batch is taken for the end of the documents.
MutantProbe ==
    /\ worker.pc = "probe"
    /\ worker' = [worker EXCEPT !.pc = "index"]
    /\ UNCHANGED <<catalog, caches, req, failures>>

\* The probe deletes one document; finding one ends the work on this database.
Probe ==
    /\ worker.pc = "probe"
    /\ \/ IF docs[worker.id] = 0
          THEN /\ worker' = [worker EXCEPT !.pc = "index"]
               /\ UNCHANGED <<docs, failures>>
          ELSE /\ docs' = [docs EXCEPT ![worker.id] = @ - 1]
               /\ worker' \in NextOf(worker.todo)
               /\ UNCHANGED failures
       \/ StoreError /\ worker' \in NextOf(worker.todo) /\ UNCHANGED docs
    /\ UNCHANGED <<rows, used, late, caches, req>>

\* The indexer is told, and its answer ignored.
InvalidateIndexes ==
    /\ worker.pc = "index"
    /\ worker' = [worker EXCEPT !.pc = "drop"]
    /\ UNCHANGED <<catalog, caches, req, failures>>

\* Mutant: the row is kept when the cleanup is over.
MutantHardDelete ==
    /\ worker.pc = "drop"
    /\ worker' \in NextOf(worker.todo)
    /\ UNCHANGED <<catalog, caches, req, failures>>

HardDelete ==
    /\ worker.pc = "drop"
    /\ \/ /\ rows' = [rows EXCEPT ![worker.id] = NoRow]
          /\ UNCHANGED <<late, failures>>
       \/ /\ StoreError /\ UNCHANGED rows
          /\ late' = [late EXCEPT ![worker.id] = 0]
    /\ worker' \in NextOf(worker.todo)
    /\ UNCHANGED <<used, docs, caches, req>>

\* Stop, or the end of the process: the cycle is abandoned where it is.
StopWorker ==
    /\ worker.pc # "idle"
    /\ StoreError
    /\ worker' = Resting
    /\ late' = IF FoundEmpty(worker.id) THEN [late EXCEPT ![worker.id] = 0] ELSE late
    /\ UNCHANGED <<rows, used, docs, caches, req>>

-----------------------------------------------------------------------------
Init ==
    /\ rows = [i \in Ids |-> NoRow] /\ used = {}
    /\ docs = [i \in Ids |-> 0] /\ late = [i \in Ids |-> 0]
    /\ heap = [o \in Objs |-> None]
    /\ slugs = [n \in Nodes |-> [s \in Slugs |-> None]]
    /\ neg = [n \in Nodes |-> {}]
    /\ req = [r \in Reqs |-> Idle]
    /\ worker = Resting
    /\ failures = 0

Handler(r) ==
    \/ Fetch(r) \/ Install(r) \/ InstallNegative(r)
    \/ Apply(r) \/ StoreUpdate(r) \/ Invalidate(r)
    \/ Admit(r) \/ WriteDocument(r) \/ Insert(r)

Worker ==
    ListDeleting \/ DeleteBatch \/ Probe \/ InvalidateIndexes \/ HardDelete

Next ==
    \/ \E r \in Reqs : Handler(r)
    \/ \E r \in Reqs, n \in Nodes, kind \in Kinds, k \in Keys : Begin(r, n, kind, k)
    \/ \E r \in Reqs, n \in Nodes, s \in (Slugs \ Protected) \cup {None} : CountByOwner(r, n, s)
    \/ \E n \in Nodes, i \in Ids : Expire(n, i)
    \/ \E n \in Nodes, k \in Keys : ExpireNegative(n, k)
    \/ \E s \in Slugs : EnsureDefault(s)
    \/ Worker \/ StopWorker

\* Handlers and the worker run on; entries reach the end of their TTL.
Fairness ==
    /\ \A r \in Reqs : WF_vars(Handler(r))
    /\ \A n \in Nodes, i \in Ids : WF_vars(Expire(n, i))
    /\ WF_vars(Worker)

Spec == Init /\ [][Next]_vars /\ Fairness

-----------------------------------------------------------------------------
(* Properties.                                                             *)

TypeOK ==
    /\ rows \in [Ids -> [live : BOOLEAN, slug : Slugs \cup {None}, status : Statuses]]
    /\ used \subseteq Ids
    /\ docs \in [Ids -> 0..MaxDocs] /\ late \in [Ids -> 0..MaxDocs]
    /\ heap \in [Objs -> Record \cup {None}]
    /\ slugs \in [Nodes -> [Slugs -> Ids \cup {None}]]
    /\ neg \in [Nodes -> SUBSET (Ids \cup Slugs)]
    /\ \A n \in Nodes, i \in Ids : heap[<<n, i>>] # None => heap[<<n, i>>].id = i
    /\ failures \in 0..MaxFailures

\* deletion_worker.go finalizes a database only after its probe found no
\* document, so that what is left under a removed ID was written later, by a
\* request admitted from a record resolved before the removal.
NoOrphanDocuments == \A i \in Ids : Gone(i) => docs[i] <= late[i]

\* A database that is being deleted is removed in the end, unless an update
\* takes it out of the status: documents arriving through stale caches, errors
\* and stops of the worker only delay it.
DeletionCompletes ==
    \A i \in Ids : (rows[i].live /\ rows[i].status = "deleting")
                     ~> (~rows[i].live \/ rows[i].status # "deleting")

\* Once its row is removed, an ID ends up in no cache for good: a lookup that
\* was under way may install the removed record again, but only for its TTL.
RemovedIsForgotten ==
    \A i \in Ids, n \in Nodes : <>Gone(i) => <>[](heap[<<n, i>>] = None)

=============================================================================
