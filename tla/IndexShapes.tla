----------------------------- MODULE IndexShapes -----------------------------
(***************************************************************************)
(* The contents of an index store and the rules on them that every store   *)
(* of indexer/store/store.go follows: replacing documents, retiring a      *)
(* database, publishing bootstrap catalogs and resolving a generation.     *)
(*                                                                         *)
(* A partition is a template and a generation; the collection is left out. *)
(* A posting set is the number of the change it was projected from, and 0  *)
(* when it is empty. Progress 0 is the empty progress marker.              *)
(***************************************************************************)
EXTENDS Naturals

CONSTANTS
  Databases,    \* database identifiers
  Templates,    \* index templates (fingerprints)
  TemplateDb,   \* [Templates -> Databases], template.go DatabaseTemplates
  Docs,         \* documents
  DocDb,        \* [Docs -> Databases]
  MaxGen,       \* bound: bootstrap attempts, one generation each
  Last          \* bound: number of changes of the source

ASSUME ShapeAssumption ==
  /\ MaxGen \in Nat /\ Last \in Nat
  /\ TemplateDb \in [Templates -> Databases]
  /\ DocDb \in [Docs -> Databases]

-----------------------------------------------------------------------------

Refs == Templates \X (1..MaxGen)

\* A place for one document in one partition.
Cells == {c \in Refs \X Docs : TemplateDb[c[1][1]] = DocDb[c[2]]}

Values == 0..Last

Data == [post: [Cells -> Values],   \* posting set of each document
         progress: 0..Last,         \* progress saved with them
         parts: SUBSET Refs]        \* partitions ListQueryIndexes reports

Meta == [catalogs: [Databases -> 0..MaxGen],  \* generation, 0 for no catalog
         boundary: 0..Last,                   \* their common BootstrapProgress
         failed: SUBSET Refs,                 \* generation records with a Failure
         retired: SUBSET Databases]

EmptyData == [post |-> [c \in Cells |-> 0], progress |-> 0, parts |-> {}]

EmptyMeta == [catalogs |-> [d \in Databases |-> 0], boundary |-> 0,
              failed |-> {}, retired |-> {}]

TemplatesOf(d) == {t \in Templates : TemplateDb[t] = d}

RefsOf(d) == TemplatesOf(d) \X (1..MaxGen)

\* Replacements map cells to their new posting sets. An empty progress marker
\* leaves the stored one alone.
Replaced(dat, ops, progress) ==
  [post |-> [c \in Cells |-> IF c \in DOMAIN ops THEN ops[c] ELSE dat.post[c]],
   progress |-> IF progress # 0 THEN progress ELSE dat.progress,
   parts |-> dat.parts \cup {c[1] : c \in DOMAIN ops}]

\* Everything a database has in the index removed, the progress kept.
Purged(dat, d) ==
  [dat EXCEPT !.post = [c \in Cells |-> IF DocDb[c[2]] = d THEN 0 ELSE dat.post[c]],
              !.parts = @ \ RefsOf(d)]

\* Metadata once a database is retired.
Retired(met, d) ==
  [met EXCEPT !.catalogs[d] = 0, !.failed = @ \ RefsOf(d), !.retired = @ \cup {d}]

\* Metadata once a complete inventory with generation g replaces the catalogs.
Published(met, dbs, g, boundary) ==
  [met EXCEPT !.catalogs = [d \in Databases |-> IF d \in dbs THEN g ELSE 0],
              !.boundary = boundary, !.retired = @ \ dbs]

\* A failure of another generation than the catalog's is not recorded.
Recorded(met, r) == met.catalogs[TemplateDb[r[1]]] \in {0, r[2]}

\* A template has one generation record per collection: the failure replaces it.
Failed(met, r) ==
  [met EXCEPT !.failed = {q \in @ : q[1] # r[1]} \cup {r}]

\* ReadGeneration with the test its callers make: the generation that serves
\* template t, or 0 when none is found, ready and free of failure.
Generation(met, t) ==
  LET g == met.catalogs[TemplateDb[t]]
  IN IF TemplateDb[t] \in met.retired \/ <<t, g>> \in met.failed THEN 0 ELSE g

=============================================================================
