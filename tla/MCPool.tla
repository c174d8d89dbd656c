------------------------------- MODULE MCPool -------------------------------
(***************************************************************************)
(* Pool with two connections at a time, and headroom kept from two up: a   *)
(* hedge and a background call with one retry of either kind each.         *)
(***************************************************************************)
EXTENDS Pool
=============================================================================
