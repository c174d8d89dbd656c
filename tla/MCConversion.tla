---------------------------- MODULE MCConversion ----------------------------
(***************************************************************************)
(* One file with two names, two requests and two surprises.                *)
(***************************************************************************)
EXTENDS Conversion
=============================================================================
