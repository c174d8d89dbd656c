------------------------------ MODULE MCWindow ------------------------------
(***************************************************************************)
(* A reader of three segments, the last a hole, and one of a segment that  *)
(* takes the whole budget.                                                 *)
(***************************************************************************)
EXTENDS Window

CONSTANTS a, b

Costs == [r \in {a, b} |-> IF r = a THEN <<1, 1, 1>> ELSE <<2>>]

LastOfA == {<<a, 3>>}
Halves == [r \in {a, b} |-> IF r = a THEN 2 ELSE 1]
=============================================================================
