------------------------------ MODULE MCRestore ------------------------------
(***************************************************************************)
(* Two restores and an undo, with four crashes or failures.                *)
(***************************************************************************)
EXTENDS Restore
=============================================================================
