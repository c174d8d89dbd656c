------------------------------ MODULE MCBreaker ------------------------------
(***************************************************************************)
(* Breaker with durations scaled down: the window spans three coalescing   *)
(* intervals, and the ladder of cooldowns 2, 4, 5 reaches its cap in two   *)
(* steps.  The clock runs long enough for a trip, a failed probe and a     *)
(* second trip.                                                            *)
(***************************************************************************)
EXTENDS Breaker, TLC

Symmetry == Permutations(Attempts)
=============================================================================
