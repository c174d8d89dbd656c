------------------------------- MODULE Breaker -------------------------------
(***************************************************************************)
(* The circuit breaker every provider has (nntp/src/breaker.rs), shared by *)
(* all requests to it.  It opens after spaced failures, stays open for a   *)
(* cooldown, then lets one probe decide.  An attempt holds no lock while   *)
(* its request runs, so it may finish long after the breaker has changed   *)
(* under it; dropping it unfinished is how a cancelled request ends.       *)
(*                                                                         *)
(* Time is a counter and the durations are constants in the same unit.     *)
(***************************************************************************)
EXTENDS Integers, FiniteSets

CONSTANTS
    Attempts,   \* requests that may be in flight at once
    Window,     \* WINDOW
    Coalesce,   \* COALESCE
    Trips,      \* TRIP_FAILURES
    Initial,    \* INITIAL_COOLDOWN
    Longest,    \* MAX_COOLDOWN
    MaxTime     \* bound: the clock of a run stops here

ASSUME BreakerAssumption ==
    /\ {Window, MaxTime} \subseteq Nat
    /\ {Coalesce, Trips, Initial, Longest} \subseteq Nat \ {0}
    /\ Initial <= Longest

VARIABLES
    now,      \* the clock
    state,    \* the breaker's State, behind its mutex
    attempt,  \* attempt[a]: "none", or whether the request in flight is the probe
    failed,   \* history: when failures were recorded since the last reset
    factor    \* history: doubled by every trip since the last body was delivered

breakerVars == <<now, state, attempt, failed, factor>>

\* An Option<Instant> that is None.
NoTime == -1
Times == Nat \cup {NoTime}

Outcomes == {"Success", "Miss", "Failure", "Fatal"}

\* State::closed
Closed(cooldown) ==
    [failures |-> 0, window_start |-> NoTime, last_failure |-> NoTime,
     open_until |-> NoTime, probing |-> FALSE, next_cooldown |-> cooldown]

IsOpen(s) == s.open_until # NoTime

\* `probe_due`: open, cooldown over, and no probe in flight.
ProbeDue(s) == IsOpen(s) /\ now >= s.open_until /\ ~s.probing

BreakerInit ==
    /\ now = 0
    /\ state = Closed(Initial)
    /\ attempt = [a \in Attempts |-> "none"]
    /\ failed = {}
    /\ factor = 1

\* The cooldown after this one.
Doubled(c) == IF 2 * c <= Longest THEN 2 * c ELSE Longest

\* `trip`: open for this cooldown, and note the next one.
Tripped(s) == [Closed(Doubled(s.next_cooldown)) EXCEPT !.open_until = now + s.next_cooldown]

\* A failure of the same burst as the one before.
Coalesced(s) == s.last_failure # NoTime /\ now - s.last_failure < Coalesce

\* Mutant of WindowOver: a window never ends.
WindowOver_Never(s) == s.window_start = NoTime
WindowOver(s) == s.window_start = NoTime \/ now - s.window_start > Window

\* Failures counted so far, with this one.
Count(s) == 1 + IF WindowOver(s) THEN 0 ELSE s.failures

Counted(s) ==
    [s EXCEPT !.failures = Count(s),
              !.window_start = IF WindowOver(s) THEN now ELSE s.window_start,
              !.last_failure = now]

\* A failure that opens the breaker.
Opens(s, outcome, probe) ==
    \/ outcome = "Fatal"
    \/ outcome = "Failure" /\ (probe \/ (~Coalesced(s) /\ Count(s) >= Trips))

\* `record`, once it is clear that this attempt has a say; s has no probe any more.
Recording(s, outcome, probe) ==
    CASE outcome = "Success" -> Closed(Initial)
      [] outcome = "Miss" -> Closed(s.next_cooldown)
      [] Opens(s, outcome, probe) -> Tripped(s)
      [] OTHER -> IF Coalesced(s) THEN s ELSE Counted(s)

\* Requests from before a trip, or forced through it, do not decide.
Ignored(probe) == IsOpen(state) /\ ~probe

----------------------------------------------------------------------------
\* Time passes.
Tick ==
    /\ now < MaxTime
    /\ now' = now + 1
    /\ UNCHANGED <<state, attempt, failed, factor>>

\* `attempt` on a closed breaker, or one that is forced.
Admit(a, force) ==
    /\ attempt[a] = "none"
    /\ ~IsOpen(state) \/ (~ProbeDue(state) /\ force)
    /\ attempt' = [attempt EXCEPT ![a] = "plain"]
    /\ UNCHANGED <<now, state, failed, factor>>

\* `attempt` on an open breaker whose cooldown is over.
AdmitProbe(a) ==
    /\ attempt[a] = "none"
    /\ ProbeDue(state)
    /\ state' = [state EXCEPT !.probing = TRUE]
    /\ attempt' = [attempt EXCEPT ![a] = "probe"]
    /\ UNCHANGED <<now, failed, factor>>

\* `Attempt::finish` with an outcome that counts.
Finish(a, outcome) ==
    LET probe == attempt[a] = "probe"
        s == [state EXCEPT !.probing = FALSE]
    IN  /\ attempt[a] # "none"
        /\ ~Ignored(probe)
        /\ state' = Recording(s, outcome, probe)
        /\ attempt' = [attempt EXCEPT ![a] = "none"]
        /\ failed' = IF outcome = "Failure" /\ ~Opens(s, outcome, probe)
                     THEN failed \cup {now} ELSE {}
        /\ factor' = CASE outcome = "Success" -> 1
                       [] Opens(s, outcome, probe) -> 2 * factor
                       [] OTHER -> factor
        /\ UNCHANGED now

\* `Attempt::finish` of a request the breaker no longer listens to.
FinishIgnored(a) ==
    /\ attempt[a] # "none"
    /\ Ignored(attempt[a] = "probe")
    /\ attempt' = [attempt EXCEPT ![a] = "none"]
    /\ UNCHANGED <<now, state, failed, factor>>

\* Mutant of CancelAttempt: dropping an attempt only forgets it.
CancelAttempt_KeepsProbing(a) ==
    /\ attempt[a] # "none"
    /\ attempt' = [attempt EXCEPT ![a] = "none"]
    /\ UNCHANGED <<now, state, failed, factor>>

\* The request is cancelled; a probe gives its place back.
CancelAttempt(a) ==
    /\ attempt[a] # "none"
    /\ attempt' = [attempt EXCEPT ![a] = "none"]
    /\ state' = IF attempt[a] = "probe" THEN [state EXCEPT !.probing = FALSE] ELSE state
    /\ UNCHANGED <<now, failed, factor>>

BreakerNext ==
    \/ Tick
    \/ \E a \in Attempts :
         \/ \E force \in BOOLEAN : Admit(a, force)
         \/ AdmitProbe(a)
         \/ \E outcome \in Outcomes : Finish(a, outcome)
         \/ FinishIgnored(a)
         \/ CancelAttempt(a)

BreakerSpec == BreakerInit /\ [][BreakerNext]_breakerVars

----------------------------------------------------------------------------
States ==
    [failures : 0 .. (Trips - 1), window_start : Times, last_failure : Times,
     open_until : Times, probing : BOOLEAN, next_cooldown : Initial .. Longest]

BreakerTypeOK ==
    /\ now \in Nat
    /\ state \in States
    /\ attempt \in [Attempts -> {"none", "plain", "probe"}]
    /\ failed \subseteq 0 .. now
    /\ factor \in Nat \ {0}

Probing == {a \in Attempts : attempt[a] = "probe"}

(***************************************************************************)
(* "One probe request decides": while `probing` is set exactly one probe   *)
(* is in flight, so nobody else probes; and when none is in flight it is   *)
(* clear, so the next request after the cooldown may probe.  A flag left   *)
(* behind by a cancelled probe would shut the provider out for good.       *)
(***************************************************************************)
OneProbe ==
    /\ state.probing => \E a \in Attempts : Probing = {a}
    /\ ~state.probing => Probing = {}
    /\ Probing # {} => IsOpen(state) /\ now >= state.open_until

(***************************************************************************)
(* An open breaker only closes, or opens anew, when its probe finishes:    *)
(* whatever requests from before the trip, or forced through it, report.   *)
(***************************************************************************)
OnlyTheProbeDecides ==
    [][IsOpen(state) /\ state'.open_until # state.open_until =>
         \E a \in Probing : attempt'[a] = "none"]_breakerVars

(***************************************************************************)
(* "Failures counted towards a trip must fall within this window", and     *)
(* "closer together than this count once": a closed breaker that opens on  *)
(* a plain failure has seen Trips of them since its last clean answer, far *)
(* enough apart, none more than Window ago.                                *)
(***************************************************************************)
Spaced(times) == \A s, t \in times : s < t => t - s >= Coalesce

TripsAreEarned ==
    [][\A a \in Attempts :
         (/\ attempt[a] = "plain" /\ Finish(a, "Failure")
          /\ ~IsOpen(state) /\ IsOpen(state')) =>
            \E times \in SUBSET {t \in failed : now - t <= Window} :
              Cardinality(times) = Trips - 1 /\ Spaced(times \cup {now})
              /\ now \notin times]_breakerVars

(***************************************************************************)
(* The cooldown doubles with every trip up to its cap until a body is      *)
(* delivered; a clean miss closes the breaker without stepping down.       *)
(***************************************************************************)
Ladder == state.next_cooldown =
    IF Initial * factor <= Longest THEN Initial * factor ELSE Longest

(***************************************************************************)
(* What breaker.rs says of a trip in its comments: both at once, as the    *)
(* cooldown a trip gets is what the trips before it have made of it.       *)
(***************************************************************************)
TripsAsDocumented == TripsAreEarned /\ []Ladder

(***************************************************************************)
(* To its callers the breaker is a Circuit: an open one whose state says   *)
(* `probing` has its probe in flight, whatever clock and cooldown are.     *)
(***************************************************************************)
AsCircuit == CASE ~IsOpen(state) -> "closed"
               [] IsOpen(state) /\ state.probing -> "probing"
               [] OTHER -> "open"

Abstract == INSTANCE Circuit WITH circuit <- AsCircuit

IsACircuit == Abstract!Spec
=============================================================================
