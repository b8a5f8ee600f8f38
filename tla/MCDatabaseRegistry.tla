------------------------- MODULE MCDatabaseRegistry -------------------------
(* The registry with named processes, requests, IDs and slugs.             *)
EXTENDS DatabaseRegistry

CONSTANTS n1, r1, r2, i1, s1
=============================================================================
