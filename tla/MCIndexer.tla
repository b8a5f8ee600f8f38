------------------------------ MODULE MCIndexer ------------------------------
(***************************************************************************)
(* Two databases; the first has a template that drops tombstones and one   *)
(* that keeps them. Document x is written, deleted and removed for good;   *)
(* the last version of y cannot be projected.                              *)
(***************************************************************************)
EXTENDS Indexer

CONSTANTS d1, d2, t1, t2, t3, x, y

mcTemplateDb == [t \in {t1, t2, t3} |-> IF t = t3 THEN d2 ELSE d1]

mcDocDb == [z \in {x, y} |-> IF z = x THEN d1 ELSE d2]

mcLog == <<[doc |-> x, op |-> "put"], [doc |-> y, op |-> "put"],
           [doc |-> x, op |-> "tombstone"], [doc |-> x, op |-> "physical"],
           [doc |-> y, op |-> "put"]>>

mcUnprojectable == {<<5, t3>>}

mcScanOrder == <<x, y>>

=============================================================================
