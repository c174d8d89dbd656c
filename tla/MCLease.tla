------------------------------- MODULE MCLease -------------------------------
(***************************************************************************)
(* Lease with two streams, two background requests, a warmer and two       *)
(* tests, so that one lease may be dropped while the next waits for it.    *)
(***************************************************************************)
EXTENDS Lease
=============================================================================
