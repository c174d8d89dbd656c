----------------------------- MODULE MCMigration -----------------------------
(***************************************************************************)
(* Two rows, an upgrade and three mishaps.                                 *)
(***************************************************************************)
EXTENDS Migration

CONSTANTS k1, k2
=============================================================================
