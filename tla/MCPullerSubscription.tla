------------------------ MODULE MCPullerSubscription ------------------------
(* Instances of PullerSubscription for TLC.                                *)
EXTENDS PullerSubscription

\* A consumer may resume inside the first group.
ResumeTime == <<1, 1, 2>>
ResumeKey == <<12, 11, 21>>

\* Enough to overflow the queue, for the liveness run.
ShortTime == <<1, 2>>
ShortKey == <<11, 21>>

\* A first group that is larger than the subscriber's queue.
WideTime == <<1, 1, 1, 2>>
WideKey == <<11, 12, 13, 21>>
=============================================================================
