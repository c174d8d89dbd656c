------------------------------ MODULE MCCascade ------------------------------
(***************************************************************************)
(* A body request and a STAT side by side over two providers of one        *)
(* backbone; the second is on the next level and has a quota.              *)
(***************************************************************************)
EXTENDS Cascade

CONSTANTS p1, p2, body, stat, backbone

MCProviders == {p1, p2}
MCBackbone == [p \in MCProviders |-> backbone]
MCPriority == [p \in MCProviders |-> IF p = p2 THEN 1 ELSE 0]
=============================================================================
