----------------------------- MODULE SharedFetch -----------------------------
(***************************************************************************)
(* What stream/src/cache.rs promises the readers of one article: those     *)
(* that ask while a fetch is on share it, no second one starts beside it,  *)
(* and it is cancelled as soon as nobody wants it any more.                *)
(***************************************************************************)
CONSTANT Readers

VARIABLES
    sharing,  \* the readers that share the fetch under way; none, no fetch
    served    \* the readers a fetch that has ended has an answer for

vars == <<sharing, served>>

Init == sharing = {} /\ served = {}

\* A reader shares the fetch that is on, or starts one where none is.
Ask(r) ==
    /\ r \notin sharing \cup served
    /\ sharing' = sharing \cup {r}
    /\ UNCHANGED served

\* The fetch ends, for everyone who shares it.
Finish ==
    /\ sharing # {}
    /\ served' = served \cup sharing
    /\ sharing' = {}

Take(r) ==
    /\ r \in served
    /\ served' = served \ {r}
    /\ UNCHANGED sharing

\* With the last reader the fetch goes.
Leave(r) ==
    /\ r \in sharing
    /\ sharing' = sharing \ {r}
    /\ UNCHANGED served

Next == Finish \/ \E r \in Readers : Ask(r) \/ Take(r) \/ Leave(r)

Spec == Init /\ [][Next]_vars
=============================================================================
