---------------------------- MODULE MCTriggerPipeline ----------------------------
(***************************************************************************)
(* Three events: two for one document that match a rule and, between them, *)
(* one that is not sent on.  One worker serves them, so order and room     *)
(* matter.                                                                 *)
(***************************************************************************)
EXTENDS TriggerPipeline

CONSTANTS a, w1

MCMatch == <<<<a>>, <<>>, <<a>>>>
MCTasks == {<<1, a>>, <<3, a>>}
MCWorkerOf == [t \in MCTasks |-> w1]
=============================================================================
