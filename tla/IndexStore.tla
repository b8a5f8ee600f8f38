------------------------------ MODULE IndexStore ------------------------------
(***************************************************************************)
(* What an index store promises its users (indexer/store/store.go), as the *)
(* in-memory store implements it under one mutex (indexer/mem_store), with *)
(* the durability the persistent store adds: what survives a crash is an   *)
(* earlier value of the postings together with the progress saved with it. *)
(***************************************************************************)
EXTENDS IndexShapes

VARIABLES
  data,    \* postings and progress as readers see them
  saved,   \* postings and progress that a crash leaves
  snap,    \* the batch being made durable: at most one
  meta     \* catalogs, failures, partitions and retirements: write-through

storeVars == <<data, saved, snap, meta>>

-----------------------------------------------------------------------------

\* One document replaced in some partitions, together with a progress marker.
ApplyDocumentProjection ==
  /\ data' \in Data
  /\ \E x \in Docs : \A c \in Cells : c[2] # x => data'.post[c] = data.post[c]
  /\ data.parts \subseteq data'.parts
  /\ UNCHANGED <<saved, snap, meta>>

DeleteDatabase ==
  \E d \in Databases :
    /\ snap = {}
    /\ data' = Purged(data, d)
    /\ saved' = Purged(saved, d)
    /\ meta' = Retired(meta, d)
    /\ UNCHANGED snap

SetFailure ==
  \E r \in Refs :
    /\ Recorded(meta, r)
    /\ meta' = Failed(meta, r)
    /\ data' = [data EXCEPT !.parts = @ \cup {r}]
    /\ saved' = [saved EXCEPT !.parts = @ \cup {r}]
    /\ snap' = {[s EXCEPT !.parts = @ \cup {r}] : s \in snap}

PublishBootstrapCatalogs ==
  \E dbs \in SUBSET Databases, g \in 1..MaxGen, b \in 0..Last :
    /\ snap = {}
    /\ data' = [data EXCEPT !.progress = b]
    /\ saved' = data'
    /\ meta' = Published(meta, dbs, g, b)
    /\ UNCHANGED snap

-----------------------------------------------------------------------------
(* Durability: what the persistent store adds.                             *)

BeginSave ==
  /\ snap = {}
  /\ snap' = {data}
  /\ UNCHANGED <<data, saved, meta>>

\* The whole batch becomes durable at once.
EndSave ==
  \E s \in snap :
    /\ saved' = s
    /\ snap' = {}
    /\ UNCHANGED <<data, meta>>

\* Or none of it.
AbandonSave ==
  /\ snap # {}
  /\ snap' = {}
  /\ UNCHANGED <<data, saved, meta>>

Crash ==
  /\ data' = saved
  /\ snap' = {}
  /\ UNCHANGED <<saved, meta>>

\* An operator replaces the store by an empty one.
Reset ==
  /\ data' = EmptyData
  /\ saved' = EmptyData
  /\ snap' = {}
  /\ meta' = EmptyMeta

StoreInit ==
  /\ data = EmptyData
  /\ saved = EmptyData
  /\ snap = {}
  /\ meta = EmptyMeta

StoreNext ==
  \/ ApplyDocumentProjection \/ DeleteDatabase \/ SetFailure
  \/ PublishBootstrapCatalogs
  \/ BeginSave \/ EndSave \/ AbandonSave \/ Crash \/ Reset

StoreSpec == StoreInit /\ [][StoreNext]_storeVars

=============================================================================
