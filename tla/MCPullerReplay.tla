--------------------------- MODULE MCPullerReplay ---------------------------
(* Three source events: the first two share a cluster time and arrive in   *)
(* the opposite order of their keys; the third is later.                   *)
EXTENDS PullerReplay

MCEvents == 1 .. 3
MCKeys == {11, 12, 21}
MCKey == <<12, 11, 21>>
MCGroup == [k \in MCKeys |-> IF k < 20 THEN 10 ELSE 20]
=============================================================================
