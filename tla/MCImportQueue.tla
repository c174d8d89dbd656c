---------------------------- MODULE MCImportQueue ----------------------------
(***************************************************************************)
(* Three jobs, of which two have the same content: the third may be queued *)
(* beside either of them, with a higher priority.  Two are submitted.      *)
(***************************************************************************)
EXTENDS ImportQueue

CONSTANTS j1, j2, j3

MCContent == [j \in Jobs |-> IF j = j3 THEN "b" ELSE "a"]
MCPriority == [j \in Jobs |-> IF j = j3 THEN 1 ELSE 0]

Submissions == 2

\* Bounds of what is explored.  Workers are alike, and so are jobs of one content: the
\* first that is free claims, the first that is unknown is submitted.
Alike(j) == {k \in Jobs \ (accepted \cup checked) : Content[k] = Content[j]}
InOrder ==
    /\ \A w \in Workers : at[w] = "idle" /\ at'[w] # "idle" =>
        w = CHOOSE v \in Workers : at[v] = "idle"
    /\ \A j \in checked' \ checked :
        /\ j = CHOOSE k \in Alike(j) : TRUE
        /\ Cardinality(accepted) < Submissions
=============================================================================
