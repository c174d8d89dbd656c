----------------------------- MODULE MCDownloads -----------------------------
(***************************************************************************)
(* A small instance of Downloads for TLC: playback calls s1, s2, s3 and    *)
(* background calls b1, b2 share three slots.  Weight 5 is capped at all   *)
(* three and 0 is raised to 1, so in either lane a light call waits next   *)
(* to one too heavy for what is free.                                      *)
(***************************************************************************)
EXTENDS Downloads

CONSTANTS s1, s2, s3, b1, b2

MCUrgent == {s1, s2, s3}
MCRequests == MCUrgent \cup {b1, b2}
MCAsked == [r \in MCRequests |-> CASE r \in {s1, b2} -> 2 [] r = b1 -> 5 [] OTHER -> 0]

MCSweepAt == {2}
=============================================================================
