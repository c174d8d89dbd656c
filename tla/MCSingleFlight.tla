--------------------------- MODULE MCSingleFlight ---------------------------
(***************************************************************************)
(* SingleFlight with four readers and as many flights: enough for one that *)
(* is driven, one that has landed, and others on their way out.            *)
(***************************************************************************)
EXTENDS SingleFlight
=============================================================================
