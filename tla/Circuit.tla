------------------------------- MODULE Circuit -------------------------------
(***************************************************************************)
(* What a circuit breaker (nntp/src/breaker.rs) promises its callers,      *)
(* without clock, window or cooldowns: it is closed, open, or open with    *)
(* one probe in flight; nothing but that probe moves it once it is open.   *)
(* Breaker implements this; Cascade builds on it.                          *)
(***************************************************************************)
CONSTANT Attempts

VARIABLES
    circuit,  \* "closed", "open" or "probing"
    attempt   \* attempt[a]: "none", or whether the request in flight is the probe

vars == <<circuit, attempt>>

Circuits == {"closed", "open", "probing"}

Outcomes == {"Success", "Miss", "Failure", "Fatal"}

\* What an attempt made now may be; none is an attempt the breaker refuses.
\* Whether an open circuit is due for a probe is a matter of time.
Admissions(c, force) ==
    CASE c = "closed" -> {"plain"}
      [] c = "open" -> {"probe", IF force THEN "plain" ELSE "none"}
      [] c = "probing" -> {IF force THEN "plain" ELSE "none"}

\* The circuit while an attempt of this kind, just admitted, is in flight.
Entered(c, kind) == IF kind = "probe" THEN "probing" ELSE c

\* Where an outcome may leave the circuit.
Answers(c, kind, outcome) ==
    IF kind = "plain" /\ c # "closed" THEN {c}
    ELSE IF outcome \in {"Success", "Miss"} THEN {"closed"}
    ELSE IF outcome = "Fatal" \/ kind = "probe" THEN {"open"}
    ELSE {"closed", "open"}

\* The circuit once an attempt ends without an outcome.
Left(c, kind) == IF kind = "probe" THEN "open" ELSE c

Init == circuit = "closed" /\ attempt = [a \in Attempts |-> "none"]

Admit(a, force) ==
    /\ attempt[a] = "none"
    /\ \E kind \in Admissions(circuit, force) \ {"none"} :
         /\ attempt' = [attempt EXCEPT ![a] = kind]
         /\ circuit' = Entered(circuit, kind)

Finish(a, outcome) ==
    /\ attempt[a] # "none"
    /\ circuit' \in Answers(circuit, attempt[a], outcome)
    /\ attempt' = [attempt EXCEPT ![a] = "none"]

Cancel(a) ==
    /\ attempt[a] # "none"
    /\ circuit' = Left(circuit, attempt[a])
    /\ attempt' = [attempt EXCEPT ![a] = "none"]

Next ==
    \E a \in Attempts :
        \/ \E force \in BOOLEAN : Admit(a, force)
        \/ \E outcome \in Outcomes : Finish(a, outcome)
        \/ Cancel(a)

Spec == Init /\ [][Next]_vars
=============================================================================
