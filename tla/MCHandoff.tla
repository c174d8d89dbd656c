------------------------------ MODULE MCHandoff ------------------------------
(***************************************************************************)
(* Two publishes compete for two folder names, with one mishap.           *)
(***************************************************************************)
EXTENDS Handoff
=============================================================================
