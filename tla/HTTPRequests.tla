---------------------------- MODULE HTTPRequests ----------------------------
(* What the server that drains and the router that answers have in common. *)
EXTENDS FiniteSets

CONSTANT Requests   \* the requests that may arrive

ASSUME RequestsFinite == IsFiniteSet(Requests)
=============================================================================
