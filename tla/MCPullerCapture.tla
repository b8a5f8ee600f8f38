--------------------------- MODULE MCPullerCapture --------------------------
(* Three source events.  The second and third share a cluster time and     *)
(* have keys in the opposite order of their arrival.                       *)
EXTENDS PullerCapture

MCEvents == 1 .. 3
MCKeys == {11, 21, 22}
MCKey == <<11, 22, 21>>
MCGroup == [k \in MCKeys |-> IF k < 20 THEN 10 ELSE 20]
=============================================================================
