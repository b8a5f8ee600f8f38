---------------------------- MODULE StreamBounds ----------------------------
(***************************************************************************)
(* The instance of the streaming path: identifiers of registrations and    *)
(* the bounds on what happens to them.                                     *)
(***************************************************************************)
EXTENDS Naturals

CONSTANTS Ids,         \* registration identifiers, each used by one Subscribe
          MaxEvents,   \* bound: events matched
          MaxGen       \* bound: transport generations

ASSUME StreamAssumption == MaxEvents \in Nat /\ MaxGen \in Nat \ {0}
=============================================================================
