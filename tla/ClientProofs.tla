----------------------------- MODULE ClientProofs -----------------------------
(***************************************************************************)
(* Proofs about the NNTP client: what a breaker promises (Breaker), what   *)
(* requests know of the providers they walk past (Cascade), and what a     *)
(* provider test may count on (Lease), for any providers and callers.      *)
(***************************************************************************)
EXTENDS Cascade, Breaker, Lease, FiniteSetTheorems, TLAPS

----------------------------------------------------------------------------
(***************************************************************************)
(* Breaker, for any number of requests and any durations.  Type            *)
(* correctness and OneProbe are inductive together; that only the probe    *)
(* decides about an open breaker follows from them.  The clock is only     *)
(* ever compared and counted up, so its bound plays no part.               *)
(***************************************************************************)
BreakerInv == BreakerTypeOK /\ OneProbe

USE BreakerAssumption

\* A closed state is well-formed, whatever its cooldown.
LEMMA ClosedType ==
    ASSUME NEW c \in Initial .. Longest
    PROVE  Closed(c) \in States /\ ~IsOpen(Closed(c)) /\ ~Closed(c).probing
BY DEF Closed, States, IsOpen, NoTime, Times

\* So is a tripped one, which is open and has no probe.
LEMMA TrippedType ==
    ASSUME NEW s \in States, now \in Nat
    PROVE  Tripped(s) \in States /\ IsOpen(Tripped(s)) /\ ~Tripped(s).probing
<1> DEFINE c == s.next_cooldown
<1>1. c \in Initial .. Longest /\ c \in Nat
  BY DEF States
<1>2. Doubled(c) \in Initial .. Longest
  BY <1>1 DEF Doubled
<1>3. now + c \in Nat /\ now + c # -1
  BY <1>1
<1> QED
  BY <1>2, <1>3, ClosedType DEF Tripped, Closed, States, IsOpen, NoTime, Times

\* A failure that does not trip leaves a count below Trips.
LEMMA CountedType ==
    ASSUME NEW s \in States, now \in Nat, Count(s) < Trips
    PROVE  Counted(s) \in States /\ Counted(s).open_until = s.open_until
           /\ Counted(s).probing = s.probing
<1>1. s.failures \in Nat
  BY DEF States
<1>2. Count(s) \in 0 .. (Trips - 1)
  BY <1>1 DEF Count
<1> QED
  BY <1>2 DEF Counted, States, Times, NoTime

\* What `record` leaves behind: never a probe, and an open breaker only by a trip
\* or where it was open before.
LEMMA RecordedType ==
    ASSUME NEW s \in States, now \in Nat, NEW outcome \in Outcomes,
           NEW probe \in BOOLEAN, ~s.probing
    PROVE  Recording(s, outcome, probe) \in States /\ ~Recording(s, outcome, probe).probing
<1>1. s.next_cooldown \in Initial .. Longest
  BY DEF States
<1>2. Initial \in Initial .. Longest
  OBVIOUS
<1>3. CASE outcome = "Success"
  BY <1>2, <1>3, ClosedType DEF Recording, Opens
<1>4. CASE outcome = "Miss"
  BY <1>1, <1>4, ClosedType DEF Recording, Opens
<1>5. CASE outcome \in {"Failure", "Fatal"} /\ Opens(s, outcome, probe)
  BY <1>5, TrippedType DEF Recording
<1>6. CASE outcome \in {"Failure", "Fatal"} /\ ~Opens(s, outcome, probe)
  <2>1. Coalesced(s) \/ Count(s) < Trips
    <3>1. s.failures \in Nat
      BY DEF States
    <3> QED
      BY <1>6, <3>1 DEF Opens, Count
  <2>2. Recording(s, outcome, probe) = IF Coalesced(s) THEN s ELSE Counted(s)
    BY <1>6 DEF Recording
  <2> QED
    BY <2>1, <2>2, CountedType
<1> QED
  BY <1>3, <1>4, <1>5, <1>6 DEF Outcomes

LEMMA BreakerInitInv == BreakerInit => BreakerInv
<1> SUFFICES ASSUME BreakerInit PROVE BreakerInv
  OBVIOUS
<1>1. state \in States /\ ~state.probing
  BY ClosedType DEF BreakerInit
<1> QED
  BY <1>1 DEF BreakerInit, BreakerInv, BreakerTypeOK, OneProbe, Probing

\* No probe is in flight, or the one that is.
LEMMA BreakerNextInv == BreakerInv /\ [BreakerNext]_breakerVars => BreakerInv'
<1> SUFFICES ASSUME BreakerInv, [BreakerNext]_breakerVars PROVE BreakerInv'
  OBVIOUS
<1>t. BreakerTypeOK /\ OneProbe
  BY DEF BreakerInv
<1>n. now \in Nat /\ state \in States /\ state.probing \in BOOLEAN
      /\ state.open_until \in Times
  BY <1>t DEF BreakerTypeOK, States
<1>1. CASE Tick
  <2>1. state' = state /\ attempt' = attempt /\ now' = now + 1 /\ now' \in Nat
    BY <1>1, <1>n DEF Tick
  <2>2. BreakerTypeOK'
    BY <1>1, <1>t, <1>n, <2>1 DEF Tick, BreakerTypeOK
  <2>3. OneProbe'
    BY <1>t, <1>n, <2>1 DEF OneProbe, Probing, IsOpen, Times, NoTime
  <2> QED
    BY <2>2, <2>3 DEF BreakerInv
<1>2. ASSUME NEW a \in Attempts, NEW force \in BOOLEAN, Admit(a, force)
      PROVE BreakerInv'
  <2>1. attempt' = [attempt EXCEPT ![a] = "plain"] /\ attempt[a] = "none"
        /\ UNCHANGED <<now, state, failed, factor>>
    BY <1>2 DEF Admit
  <2>2. BreakerTypeOK'
    BY <1>t, <2>1 DEF BreakerTypeOK
  <2>3. Probing' = Probing
    BY <1>t, <2>1 DEF Probing, BreakerTypeOK
  <2> QED
    BY <1>t, <2>1, <2>2, <2>3 DEF BreakerInv, OneProbe, IsOpen
<1>3. ASSUME NEW a \in Attempts, AdmitProbe(a)
      PROVE BreakerInv'
  <2>1. /\ attempt' = [attempt EXCEPT ![a] = "probe"]
        /\ state' = [state EXCEPT !.probing = TRUE]
        /\ ~state.probing /\ IsOpen(state) /\ now >= state.open_until
        /\ UNCHANGED <<now, failed, factor>>
    BY <1>3 DEF AdmitProbe, ProbeDue
  <2>2. BreakerTypeOK'
    <3>1. state' \in States
      BY <1>n, <2>1 DEF States
    <3> QED
      BY <1>t, <2>1, <3>1 DEF BreakerTypeOK
  <2>3. Probing' = {a}
    <3>1. Probing = {}
      BY <1>t, <2>1 DEF OneProbe
    <3> QED
      BY <1>t, <2>1, <3>1 DEF Probing, BreakerTypeOK
  <2>4. state'.probing /\ state'.open_until = state.open_until
    BY <1>n, <2>1 DEF States
  <2> QED
    BY <2>1, <2>2, <2>3, <2>4 DEF BreakerInv, OneProbe, IsOpen
<1>4. ASSUME NEW a \in Attempts, NEW outcome \in Outcomes, Finish(a, outcome)
      PROVE BreakerInv'
  <2> DEFINE probe == attempt[a] = "probe"
             s == [state EXCEPT !.probing = FALSE]
  <2>1. /\ attempt' = [attempt EXCEPT ![a] = "none"]
        /\ state' = Recording(s, outcome, probe)
        /\ now' = now /\ ~Ignored(probe)
    BY <1>4 DEF Finish
  <2>2. s \in States /\ ~s.probing /\ probe \in BOOLEAN
    BY <1>n DEF States
  <2>3. state' \in States /\ ~state'.probing
    <3> HIDE DEF s, probe
    <3> QED
      BY <2>1, <2>2, <1>n, RecordedType
  <2>4. failed' \subseteq 0 .. now
    <3>1. failed' \in {failed \cup {now}, {}}
      BY <1>4 DEF Finish
    <3> QED
      BY <3>1, <1>t, <1>n DEF BreakerTypeOK
  <2>5. factor' \in Nat \ {0}
    <3>1. factor' \in {1, 2 * factor, factor}
      BY <1>4 DEF Finish
    <3> QED
      BY <3>1, <1>t DEF BreakerTypeOK
  <2>6. BreakerTypeOK'
    BY <1>t, <1>n, <2>1, <2>3, <2>4, <2>5 DEF BreakerTypeOK
  <2>7. Probing' = {}
    <3>1. Probing \subseteq {a}
      <4>1. CASE probe
        BY <1>t, <4>1 DEF OneProbe, Probing
      <4>2. CASE ~probe
        <5>1. ~IsOpen(state)
          BY <2>1, <4>2 DEF Ignored
        <5> QED
          BY <5>1, <1>t DEF OneProbe
      <4> QED
        BY <4>1, <4>2
    <3> QED
      BY <3>1, <1>t, <2>1 DEF Probing, BreakerTypeOK
  <2> QED
    BY <2>3, <2>6, <2>7 DEF BreakerInv, OneProbe
<1>5. ASSUME NEW a \in Attempts, FinishIgnored(a)
      PROVE BreakerInv'
  <2>1. attempt' = [attempt EXCEPT ![a] = "none"] /\ attempt[a] # "probe"
        /\ UNCHANGED <<now, state, failed, factor>>
    BY <1>5 DEF FinishIgnored, Ignored
  <2>2. BreakerTypeOK'
    BY <1>t, <2>1 DEF BreakerTypeOK
  <2>3. Probing' = Probing
    BY <1>t, <2>1 DEF Probing, BreakerTypeOK
  <2> QED
    BY <1>t, <2>1, <2>2, <2>3 DEF BreakerInv, OneProbe, IsOpen
<1>6. ASSUME NEW a \in Attempts, CancelAttempt(a)
      PROVE BreakerInv'
  <2>1. attempt' = [attempt EXCEPT ![a] = "none"] /\ UNCHANGED <<now, failed, factor>>
        /\ state' = IF attempt[a] = "probe" THEN [state EXCEPT !.probing = FALSE] ELSE state
    BY <1>6 DEF CancelAttempt
  <2>2. state' \in States /\ state'.open_until = state.open_until
    BY <1>n, <2>1 DEF States
  <2>3. BreakerTypeOK'
    BY <1>t, <2>1, <2>2 DEF BreakerTypeOK
  <2>4. CASE attempt[a] = "probe"
    <3>1. ~state'.probing
      BY <1>n, <2>1, <2>4 DEF States
    <3>2. Probing' = {}
      BY <1>t, <2>1, <2>4 DEF Probing, OneProbe, BreakerTypeOK
    <3> QED
      BY <2>3, <3>1, <3>2 DEF BreakerInv, OneProbe
  <2>5. CASE attempt[a] # "probe"
    <3>1. Probing' = Probing /\ state' = state
      BY <1>t, <2>1, <2>5 DEF Probing, BreakerTypeOK
    <3> QED
      BY <1>t, <2>1, <2>3, <3>1 DEF BreakerInv, OneProbe, IsOpen
  <2> QED
    BY <2>4, <2>5
<1>7. CASE UNCHANGED breakerVars
  BY <1>t, <1>7 DEF breakerVars, BreakerInv, BreakerTypeOK, OneProbe, Probing, IsOpen
<1> QED
  BY <1>1, <1>2, <1>3, <1>4, <1>5, <1>6, <1>7 DEF BreakerNext

THEOREM BreakerInvariance == BreakerSpec => []BreakerInv
BY BreakerInitInv, BreakerNextInv, PTL DEF BreakerSpec

(***************************************************************************)
(* The breaker's state is well-formed: fewer than TRIP_FAILURES counted,   *)
(* and the next cooldown between its first value and its cap.              *)
(***************************************************************************)
THEOREM BreakerTypes == BreakerSpec => []BreakerTypeOK
<1>1. BreakerInv => BreakerTypeOK
  BY DEF BreakerInv
<1> QED
  BY <1>1, BreakerInvariance, PTL

(***************************************************************************)
(* One probe at a time, and none forgotten (`probing`, Attempt::drop).     *)
(***************************************************************************)
THEOREM ProbeIsAlone == BreakerSpec => []OneProbe
<1>1. BreakerInv => OneProbe
  BY DEF BreakerInv
<1> QED
  BY <1>1, BreakerInvariance, PTL

\* What one step does to an open breaker.
LEMMA StepDecides ==
    BreakerInv /\ [BreakerNext]_breakerVars =>
        [IsOpen(state) /\ state'.open_until # state.open_until =>
            \E a \in Probing : attempt'[a] = "none"]_breakerVars
<1> SUFFICES ASSUME BreakerInv, BreakerNext, IsOpen(state), state'.open_until # state.open_until
             PROVE  \E a \in Probing : attempt'[a] = "none"
  OBVIOUS
<1>t. state \in States /\ attempt \in [Attempts -> {"none", "plain", "probe"}]
  BY DEF BreakerInv, BreakerTypeOK
<1>1. state' # state
  OBVIOUS
<1>2. CASE Tick
  BY <1>1, <1>2 DEF Tick
<1>3. ASSUME NEW a \in Attempts, NEW force \in BOOLEAN, Admit(a, force)
      PROVE FALSE
  BY <1>1, <1>3 DEF Admit
<1>4. ASSUME NEW a \in Attempts, AdmitProbe(a)
      PROVE FALSE
  BY <1>t, <1>4 DEF AdmitProbe, States
<1>5. ASSUME NEW a \in Attempts, NEW outcome \in Outcomes, Finish(a, outcome)
      PROVE a \in Probing /\ attempt'[a] = "none"
  BY <1>t, <1>5 DEF Finish, Ignored, Probing
<1>6. ASSUME NEW a \in Attempts, FinishIgnored(a)
      PROVE FALSE
  BY <1>1, <1>6 DEF FinishIgnored
<1>7. ASSUME NEW a \in Attempts, CancelAttempt(a)
      PROVE FALSE
  BY <1>t, <1>7 DEF CancelAttempt, States
<1> QED
  BY <1>2, <1>3, <1>4, <1>5, <1>6, <1>7 DEF BreakerNext

(***************************************************************************)
(* No request but the probe closes or re-trips an open breaker.            *)
(***************************************************************************)
THEOREM ProbeDecides == BreakerSpec => OnlyTheProbeDecides
BY BreakerInvariance, StepDecides, PTL DEF BreakerSpec, OnlyTheProbeDecides

----------------------------------------------------------------------------
(***************************************************************************)
(* Trips are earned.  What has been counted stands for failures that were  *)
(* recorded: as many, in the window that began with the first, each far    *)
(* enough from the one before.                                             *)
(***************************************************************************)
Stands(s, times) ==
    /\ IsFiniteSet(times) /\ Cardinality(times) = s.failures /\ Spaced(times)
    /\ \A t \in times : s.window_start <= t /\ t <= s.last_failure

CountStands ==
    /\ state.window_start <= state.last_failure /\ state.last_failure <= now
    /\ \E times \in SUBSET failed : Stands(state, times)

\* A closed state has counted nothing; nor has one that has just tripped.
LEMMA NothingCounted ==
    ASSUME NEW s, s.failures = 0, s.window_start = NoTime, s.last_failure = NoTime
    PROVE  Stands(s, {}) /\ s.window_start <= s.last_failure
BY FS_EmptySet DEF Stands, Spaced, NoTime

LEMMA ResetFields ==
    /\ \A c : /\ Closed(c).failures = 0 /\ Closed(c).window_start = NoTime
              /\ Closed(c).last_failure = NoTime
    /\ \A s : /\ Tripped(s).failures = 0 /\ Tripped(s).window_start = NoTime
              /\ Tripped(s).last_failure = NoTime
BY DEF Closed, Tripped

\* A failure that is not coalesced comes well after those that were counted.
LEMMA ComesLater ==
    ASSUME NEW s \in States, now \in Nat, NEW times \in SUBSET Nat, Stands(s, times),
           ~Coalesced(s), s.last_failure <= now
    PROVE  Spaced(times \cup {now}) /\ now \notin times
<1>1. s.last_failure \in Times /\ Coalesce \in Nat \ {0}
  BY DEF States
<1>2. \A t \in times : s.last_failure # NoTime /\ t <= s.last_failure /\ t \in Nat
  BY <1>1 DEF Stands, Times, NoTime
<1>3. \A t \in times : now - t >= Coalesce
  BY <1>1, <1>2 DEF Coalesced, Times, NoTime
<1>4. Spaced(times)
  BY DEF Stands
<1>5. \A t \in times : ~(now < t) /\ now # t
  BY <1>1, <1>2, <1>3
<1> QED
  BY <1>3, <1>4, <1>5 DEF Spaced

\* The count goes on standing for recorded failures when one more is counted.
LEMMA OneMoreStands ==
    ASSUME NEW s \in States, now \in Nat, NEW times \in SUBSET Nat, Stands(s, times),
           ~Coalesced(s), s.window_start <= s.last_failure, s.last_failure <= now
    PROVE  \E more \in SUBSET (times \cup {now}) : Stands(Counted(s), more)
<1>1. /\ s.failures \in Nat /\ s.last_failure \in Times /\ s.window_start \in Times
  BY DEF States
<1>2. Counted(s) = [s EXCEPT !.failures = Count(s),
                             !.window_start = IF WindowOver(s) THEN now ELSE s.window_start,
                             !.last_failure = now]
  BY DEF Counted
<1>3. /\ Counted(s).failures = Count(s) /\ Counted(s).last_failure = now
      /\ Counted(s).window_start = IF WindowOver(s) THEN now ELSE s.window_start
  BY <1>2 DEF States
<1>4. CASE WindowOver(s)
  <2>1. IsFiniteSet({now}) /\ Cardinality({now}) = 1
    BY FS_Singleton
  <2>2. Stands(Counted(s), {now})
    BY <1>3, <1>4, <2>1 DEF Stands, Spaced, Count
  <2> QED
    BY <2>2
<1>5. CASE ~WindowOver(s)
  <2>1. Spaced(times \cup {now}) /\ now \notin times
    BY ComesLater
  <2>2. IsFiniteSet(times) /\ Cardinality(times) = s.failures
    BY DEF Stands
  <2>3. IsFiniteSet(times \cup {now}) /\ Cardinality(times \cup {now}) = s.failures + 1
    BY <2>1, <2>2, FS_AddElement
  <2>4. \A t \in times \cup {now} : s.window_start <= t /\ t <= now
    BY <1>1 DEF Stands, Times, NoTime
  <2>5. Stands(Counted(s), times \cup {now})
    BY <1>1, <1>3, <1>5, <2>1, <2>3, <2>4 DEF Stands, Count
  <2> QED
    BY <2>5
<1> QED
  BY <1>4, <1>5

LEMMA CountInit == BreakerInit => CountStands
<1> SUFFICES ASSUME BreakerInit PROVE CountStands
  OBVIOUS
<1>1. /\ state.failures = 0 /\ state.window_start = NoTime /\ state.last_failure = NoTime
      /\ now = 0
  BY ResetFields DEF BreakerInit
<1> QED
  BY <1>1, NothingCounted DEF CountStands, NoTime

\* What is counted is kept while it and what was recorded stay.
LEMMA CountKept ==
    ASSUME BreakerTypeOK, CountStands, now' \in Nat, now <= now', failed \subseteq failed',
           state'.failures = state.failures, state'.window_start = state.window_start,
           state'.last_failure = state.last_failure
    PROVE  CountStands'
<1>1. state.last_failure \in Times /\ now \in Nat
  BY DEF BreakerTypeOK, States
<1>2. PICK times \in SUBSET failed : Stands(state, times)
  BY DEF CountStands
<1>3. Stands(state', times)
  BY <1>2 DEF Stands
<1> QED
  BY <1>1, <1>3 DEF CountStands, Times, NoTime

LEMMA CountNext == BreakerInv /\ CountStands /\ [BreakerNext]_breakerVars => CountStands'
<1> SUFFICES ASSUME BreakerInv, CountStands, [BreakerNext]_breakerVars PROVE CountStands'
  OBVIOUS
<1>t. /\ BreakerTypeOK /\ now \in Nat /\ state \in States /\ failed \subseteq 0 .. now
      /\ failed \in SUBSET Nat
  BY DEF BreakerInv, BreakerTypeOK
<1>1. CASE Tick
  BY <1>1, <1>t, CountKept DEF Tick
<1>2. ASSUME NEW a \in Attempts, NEW force \in BOOLEAN, Admit(a, force)
      PROVE CountStands'
  BY <1>2, <1>t, CountKept DEF Admit
<1>3. ASSUME NEW a \in Attempts, AdmitProbe(a)
      PROVE CountStands'
  <2>1. UNCHANGED <<now, failed>> /\ state' = [state EXCEPT !.probing = TRUE]
    BY <1>3 DEF AdmitProbe
  <2> QED
    BY <1>t, <2>1, CountKept DEF States
<1>4. ASSUME NEW a \in Attempts, NEW outcome \in Outcomes, Finish(a, outcome)
      PROVE CountStands'
  <2> DEFINE probe == attempt[a] = "probe"
             s == [state EXCEPT !.probing = FALSE]
  <2>1. /\ now' = now /\ state' = Recording(s, outcome, probe)
        /\ failed' = IF outcome = "Failure" /\ ~Opens(s, outcome, probe)
                     THEN failed \cup {now} ELSE {}
    BY <1>4 DEF Finish
  <2>2. /\ s \in States /\ s.failures = state.failures
        /\ s.window_start = state.window_start /\ s.last_failure = state.last_failure
    BY <1>t DEF States
  <2> HIDE DEF s, probe
  <2>3. PICK times \in SUBSET failed : Stands(s, times)
    BY <2>2 DEF CountStands, Stands
  <2>4. s.window_start <= s.last_failure /\ s.last_failure <= now
    BY <2>2 DEF CountStands
  <2>5. CASE outcome = "Failure" /\ ~Opens(s, outcome, probe)
    <3>1. state' = IF Coalesced(s) THEN s ELSE Counted(s)
      BY <2>1, <2>5 DEF Recording
    <3>2. CASE Coalesced(s)
      BY <1>t, <2>1, <2>2, <2>5, <3>1, <3>2, CountKept
    <3>3. CASE ~Coalesced(s)
      <4>1. times \in SUBSET Nat
        BY <1>t, <2>3
      <4>2. PICK more \in SUBSET (times \cup {now}) : Stands(Counted(s), more)
        BY <1>t, <2>2, <2>3, <2>4, <3>3, <4>1, OneMoreStands
      <4>3. Stands(state', more) /\ more \in SUBSET failed'
        BY <2>1, <2>3, <2>5, <3>1, <3>3, <4>2
      <4>4. /\ state'.last_failure = now
            /\ state'.window_start = IF WindowOver(s) THEN now ELSE s.window_start
        BY <2>2, <3>1, <3>3 DEF Counted, States
      <4>5. state'.window_start <= now
        BY <1>t, <2>2, <2>4, <4>4 DEF States, Times, NoTime
      <4>6. \E counted \in SUBSET failed' : Stands(state', counted)
        BY <4>3
      <4>7. state'.window_start <= state'.last_failure /\ state'.last_failure <= now'
        BY <1>t, <2>1, <4>4, <4>5
      <4> QED
        BY <4>6, <4>7 DEF CountStands
    <3> QED
      BY <3>2, <3>3
  <2>6. CASE ~(outcome = "Failure" /\ ~Opens(s, outcome, probe))
    <3>1. \/ state' \in {Closed(Initial), Closed(s.next_cooldown)}
          \/ state' = Tripped(s)
      BY <2>1, <2>6 DEF Recording, Outcomes, Opens
    <3>2. /\ state'.failures = 0 /\ state'.window_start = NoTime
          /\ state'.last_failure = NoTime
      BY <3>1, ResetFields
    <3>3. Stands(state', {}) /\ state'.window_start <= state'.last_failure
      BY <3>2, NothingCounted
    <3> QED
      BY <1>t, <2>1, <3>2, <3>3 DEF CountStands, NoTime
  <2> QED
    BY <2>5, <2>6
<1>5. ASSUME NEW a \in Attempts, FinishIgnored(a)
      PROVE CountStands'
  BY <1>5, <1>t, CountKept DEF FinishIgnored
<1>6. ASSUME NEW a \in Attempts, CancelAttempt(a)
      PROVE CountStands'
  <2>1. /\ UNCHANGED <<now, failed>>
        /\ state' \in {state, [state EXCEPT !.probing = FALSE]}
    BY <1>6 DEF CancelAttempt
  <2> QED
    BY <1>t, <2>1, CountKept DEF States
<1>7. CASE UNCHANGED breakerVars
  BY <1>7, <1>t, CountKept DEF breakerVars
<1> QED
  BY <1>1, <1>2, <1>3, <1>4, <1>5, <1>6, <1>7 DEF BreakerNext

\* What a trip on a plain failure has behind it.
Behind(times) ==
    /\ Cardinality(times) = Trips - 1 /\ Spaced(times \cup {now})
    /\ now \notin times

LEMMA TripIsEarned ==
    ASSUME BreakerInv, CountStands, NEW a \in Attempts, attempt[a] = "plain",
           Finish(a, "Failure"), ~IsOpen(state), IsOpen(state')
    PROVE  \E times \in SUBSET {t \in failed : now - t <= Window} : Behind(times)
<1> DEFINE s == [state EXCEPT !.probing = FALSE]
<1>1. /\ now \in Nat /\ failed \in SUBSET Nat /\ s \in States
      /\ s.failures = state.failures /\ s.window_start = state.window_start
      /\ s.last_failure = state.last_failure /\ s.open_until = state.open_until
  <2>1. now \in Nat /\ state \in States /\ failed \subseteq 0 .. now
    BY DEF BreakerInv, BreakerTypeOK
  <2>2. failed \in SUBSET Nat
    BY <2>1
  <2> QED
    BY <2>1, <2>2 DEF States
<1>2. state' = Recording(s, "Failure", FALSE)
  BY DEF Finish
<1> HIDE DEF s
<1>3. ~Coalesced(s) /\ Count(s) >= Trips
  <2>1. SUFFICES ASSUME ~Opens(s, "Failure", FALSE) PROVE FALSE
    BY DEF Opens
  <2>2. state' = IF Coalesced(s) THEN s ELSE Counted(s)
    BY <1>2, <2>1 DEF Recording
  <2>3. state'.open_until = state.open_until
    BY <1>1, <2>2 DEF Counted, States
  <2> QED
    BY <2>3 DEF IsOpen
<1>4. PICK times \in SUBSET failed : Stands(s, times)
  BY <1>1 DEF CountStands, Stands
<1>5. s.window_start <= s.last_failure /\ s.last_failure <= now
  BY <1>1 DEF CountStands
<1>6. s.failures \in 0 .. (Trips - 1) /\ Trips \in Nat \ {0}
  BY <1>1 DEF States
<1>7. CASE WindowOver(s)
  <2>1. Trips = 1
    BY <1>3, <1>6, <1>7 DEF Count
  <2>2. Cardinality({}) = 0
    BY FS_EmptySet
  <2>3. Behind({})
    BY <1>1, <2>1, <2>2 DEF Behind, Spaced
  <2> QED
    BY <2>3
<1>8. CASE ~WindowOver(s)
  <2>1. s.failures = Trips - 1
    BY <1>3, <1>6, <1>8 DEF Count
  <2>2. times \in SUBSET Nat
    BY <1>1, <1>4
  <2>3. Behind(times)
    BY <1>1, <1>3, <1>4, <1>5, <2>1, <2>2, ComesLater DEF Behind, Stands
  <2>4. now - s.window_start <= Window /\ s.window_start \in Nat
    BY <1>1, <1>8 DEF WindowOver, States, Times
  <2>5. \A t \in times : now - t <= Window
    BY <1>1, <1>4, <2>2, <2>4 DEF Stands
  <2> QED
    BY <2>3, <2>5
<1> QED
  BY <1>7, <1>8

\* The ladder: each trip doubles what the last one left, up to the cap.
LEMMA LadderInit == BreakerInit => Ladder
BY DEF BreakerInit, Ladder, Closed

LEMMA LadderNext == BreakerInv /\ Ladder /\ [BreakerNext]_breakerVars => Ladder'
<1> SUFFICES ASSUME BreakerInv, Ladder, [BreakerNext]_breakerVars PROVE Ladder'
  OBVIOUS
<1>t. state \in States /\ factor \in Nat \ {0}
  BY DEF BreakerInv, BreakerTypeOK
<1>1. ASSUME state'.next_cooldown = state.next_cooldown, factor' = factor PROVE Ladder'
  BY <1>1 DEF Ladder
<1>2. ASSUME NEW a \in Attempts, NEW outcome \in Outcomes, Finish(a, outcome)
      PROVE Ladder'
  <2> DEFINE probe == attempt[a] = "probe"
             s == [state EXCEPT !.probing = FALSE]
  <2>1. /\ state' = Recording(s, outcome, probe)
        /\ factor' = CASE outcome = "Success" -> 1
                       [] Opens(s, outcome, probe) -> 2 * factor
                       [] OTHER -> factor
    BY <1>2 DEF Finish
  <2>2. s \in States /\ s.next_cooldown = state.next_cooldown
    BY <1>t DEF States
  <2> HIDE DEF s, probe
  <2>3. CASE outcome = "Success"
    <3>1. state' = Closed(Initial) /\ factor' = 1
      BY <2>1, <2>3 DEF Opens, Recording
    <3> QED
      BY <3>1 DEF Ladder, Closed
  <2>4. CASE Opens(s, outcome, probe)
    <3>1. state' = Tripped(s) /\ factor' = 2 * factor
      BY <2>1, <2>4 DEF Recording, Opens
    <3>2. state'.next_cooldown = Doubled(s.next_cooldown)
      BY <3>1 DEF Tripped, Closed
    <3>3. PICK product \in Nat : product = Initial * factor
      BY <1>t
    <3>4. Initial * (2 * factor) = 2 * product
      BY <1>t, <3>3
    <3>5. state.next_cooldown = IF product <= Longest THEN product ELSE Longest
      BY <3>3 DEF Ladder
    <3>6. Doubled(state.next_cooldown) = IF 2 * product <= Longest THEN 2 * product ELSE Longest
      BY <3>5 DEF Doubled
    <3> QED
      BY <2>2, <3>1, <3>2, <3>4, <3>6 DEF Ladder
  <2>5. CASE outcome # "Success" /\ ~Opens(s, outcome, probe)
    <3>1. factor' = factor
      BY <2>1, <2>5
    <3>2. state' \in {Closed(s.next_cooldown), s, Counted(s)}
      BY <2>1, <2>5 DEF Recording
    <3>3. /\ Closed(s.next_cooldown).next_cooldown = s.next_cooldown
          /\ Counted(s).next_cooldown = s.next_cooldown
      BY <2>2 DEF Closed, Counted, States
    <3>4. state'.next_cooldown = state.next_cooldown
      BY <2>2, <3>2, <3>3
    <3> QED
      BY <1>1, <3>1, <3>4
  <2> QED
    BY <2>3, <2>4, <2>5 DEF Opens
<1>3. CASE Tick
  BY <1>1, <1>3 DEF Tick
<1>4. ASSUME NEW a \in Attempts, NEW force \in BOOLEAN, Admit(a, force)
      PROVE Ladder'
  BY <1>1, <1>4 DEF Admit
<1>5. ASSUME NEW a \in Attempts, AdmitProbe(a)
      PROVE Ladder'
  BY <1>1, <1>5, <1>t DEF AdmitProbe, States
<1>6. ASSUME NEW a \in Attempts, FinishIgnored(a)
      PROVE Ladder'
  BY <1>1, <1>6 DEF FinishIgnored
<1>7. ASSUME NEW a \in Attempts, CancelAttempt(a)
      PROVE Ladder'
  BY <1>1, <1>7, <1>t DEF CancelAttempt, States
<1>8. CASE UNCHANGED breakerVars
  BY <1>1, <1>8 DEF breakerVars
<1> QED
  BY <1>2, <1>3, <1>4, <1>5, <1>6, <1>7, <1>8 DEF BreakerNext

(***************************************************************************)
(* A closed breaker opens on a plain failure only with the failures it     *)
(* asks for, far enough apart and within its window; and its cooldown is   *)
(* the first one, doubled by each trip since a body was delivered, up to   *)
(* the cap (`record`, `trip`).                                             *)
(***************************************************************************)
THEOREM TripsProved == BreakerSpec => TripsAsDocumented
<1> DEFINE Earned ==
      \A a \in Attempts :
        (/\ attempt[a] = "plain" /\ Finish(a, "Failure")
         /\ ~IsOpen(state) /\ IsOpen(state')) =>
           \E times \in SUBSET {t \in failed : now - t <= Window} :
             Cardinality(times) = Trips - 1 /\ Spaced(times \cup {now})
             /\ now \notin times
<1>1. BreakerInv /\ CountStands /\ [BreakerNext]_breakerVars => [Earned]_breakerVars
  BY TripIsEarned DEF Behind
<1>2. (BreakerInit => CountStands)
      /\ (BreakerInv /\ CountStands /\ [BreakerNext]_breakerVars => CountStands')
  BY CountInit, CountNext
<1>3. BreakerSpec => []CountStands
  BY <1>2, BreakerInvariance, PTL DEF BreakerSpec
<1>4. BreakerSpec => [][Earned]_breakerVars
  BY <1>1, <1>3, BreakerInvariance, PTL DEF BreakerSpec
<1>5. BreakerSpec => TripsAreEarned
  BY <1>4 DEF TripsAreEarned
<1>6. BreakerSpec => []Ladder
  BY LadderInit, LadderNext, BreakerInvariance, PTL DEF BreakerSpec
<1> QED
  BY <1>5, <1>6 DEF TripsAsDocumented

----------------------------------------------------------------------------
\* Where `record` leaves the circuit, given that the attempt has a say.
LEMMA RecordedAnswers ==
    ASSUME NEW s \in States, now \in Nat, NEW outcome \in Outcomes,
           NEW probe \in BOOLEAN, ~s.probing, ~IsOpen(s) \/ probe
    PROVE  /\ outcome \in {"Success", "Miss"} => ~IsOpen(Recording(s, outcome, probe))
           /\ (outcome = "Fatal" \/ (outcome = "Failure" /\ probe)) =>
                  IsOpen(Recording(s, outcome, probe))
<1>1. ASSUME outcome \in {"Success", "Miss"}
      PROVE ~IsOpen(Recording(s, outcome, probe))
  <2>1. s.next_cooldown \in Initial .. Longest /\ Initial \in Initial .. Longest
    BY DEF States
  <2>2. Recording(s, outcome, probe) \in {Closed(Initial), Closed(s.next_cooldown)}
    BY <1>1 DEF Recording, Opens
  <2> QED
    BY <2>1, <2>2, ClosedType
<1>2. ASSUME outcome = "Fatal" \/ (outcome = "Failure" /\ probe)
      PROVE IsOpen(Recording(s, outcome, probe))
  <2>1. Opens(s, outcome, probe)
    BY <1>2 DEF Opens
  <2>2. Recording(s, outcome, probe) = Tripped(s)
    BY <1>2, <2>1 DEF Recording
  <2> QED
    BY <2>2, TrippedType
<1> QED
  BY <1>1, <1>2

\* Each step of the breaker is one of the circuit, or none.
LEMMA StepRefines == BreakerInv /\ [BreakerNext]_breakerVars => [Abstract!Next]_(Abstract!vars)
<1> SUFFICES ASSUME BreakerInv, [BreakerNext]_breakerVars PROVE Abstract!Next \/ UNCHANGED Abstract!vars
  OBVIOUS
<1> USE DEF Abstract!vars
<1>t. /\ now \in Nat /\ state \in States /\ state.probing \in BOOLEAN
      /\ attempt \in [Attempts -> {"none", "plain", "probe"}]
      /\ OneProbe
  BY DEF BreakerInv, BreakerTypeOK, States
<1>s. state' = state => AsCircuit' = AsCircuit
  BY DEF AsCircuit, IsOpen
<1>1. CASE Tick
  BY <1>1, <1>s DEF Tick
<1>2. ASSUME NEW a \in Attempts, NEW force \in BOOLEAN, Admit(a, force)
      PROVE Abstract!Admit(a, force)
  <2>1. "plain" \in Abstract!Admissions(AsCircuit, force)
    BY <1>2, <1>t DEF Admit, AsCircuit, Abstract!Admissions
  <2>2. AsCircuit' = Abstract!Entered(AsCircuit, "plain")
    BY <1>2, <1>s DEF Admit, Abstract!Entered
  <2> QED
    BY <1>2, <2>1, <2>2 DEF Admit, Abstract!Admit
<1>3. ASSUME NEW a \in Attempts, AdmitProbe(a)
      PROVE Abstract!Admit(a, FALSE)
  <2>1. AsCircuit = "open" /\ AsCircuit' = "probing"
    BY <1>3, <1>t DEF AdmitProbe, ProbeDue, AsCircuit, IsOpen, States
  <2>2. "probe" \in Abstract!Admissions(AsCircuit, FALSE)
    BY <2>1 DEF Abstract!Admissions
  <2>3. AsCircuit' = Abstract!Entered(AsCircuit, "probe")
    BY <2>1 DEF Abstract!Entered
  <2> QED
    BY <1>3, <2>2, <2>3 DEF AdmitProbe, Abstract!Admit
<1>4. ASSUME NEW a \in Attempts, NEW outcome \in Outcomes, Finish(a, outcome)
      PROVE Abstract!Finish(a, outcome)
  <2> DEFINE probe == attempt[a] = "probe"
             s == [state EXCEPT !.probing = FALSE]
  <2>1. s \in States /\ ~s.probing /\ probe \in BOOLEAN /\ IsOpen(s) = IsOpen(state)
    BY <1>t DEF States, IsOpen
  <2>2. state' = Recording(s, outcome, probe) /\ ~Ignored(probe)
        /\ attempt[a] # "none" /\ attempt' = [attempt EXCEPT ![a] = "none"]
    BY <1>4 DEF Finish
  <2>3. ~IsOpen(s) \/ probe
    BY <2>1, <2>2 DEF Ignored
  <2>4. state' \in States /\ ~state'.probing
    <3> HIDE DEF s, probe
    <3> QED
      BY <1>t, <2>1, <2>2, RecordedType
  <2>5. AsCircuit' = IF IsOpen(state') THEN "open" ELSE "closed"
    BY <2>4 DEF AsCircuit, IsOpen
  <2>6. /\ outcome \in {"Success", "Miss"} => ~IsOpen(state')
        /\ (outcome = "Fatal" \/ (outcome = "Failure" /\ probe)) => IsOpen(state')
    <3> HIDE DEF s, probe
    <3> QED
      BY <1>t, <2>1, <2>2, <2>3, RecordedAnswers
  <2>7. attempt[a] = "plain" => AsCircuit = "closed"
    BY <2>2 DEF Ignored, AsCircuit
  <2>8. AsCircuit' \in Abstract!Answers(AsCircuit, attempt[a], outcome)
    <3>1. attempt[a] \in {"plain", "probe"}
      BY <1>t, <2>2
    <3>2. CASE outcome \in {"Success", "Miss"}
      BY <2>5, <2>6, <2>7, <3>2 DEF Abstract!Answers
    <3>3. CASE outcome = "Fatal" \/ (outcome = "Failure" /\ probe)
      BY <2>5, <2>6, <2>7, <3>3 DEF Abstract!Answers
    <3>4. CASE outcome = "Failure" /\ ~probe
      BY <2>5, <2>7, <3>1, <3>4 DEF Abstract!Answers
    <3> QED
      BY <3>2, <3>3, <3>4 DEF Outcomes
  <2> QED
    BY <2>2, <2>8 DEF Abstract!Finish
<1>5. ASSUME NEW a \in Attempts, FinishIgnored(a)
      PROVE Abstract!Finish(a, "Miss")
  <2>1. attempt[a] = "plain" /\ IsOpen(state) /\ state' = state
        /\ attempt' = [attempt EXCEPT ![a] = "none"]
    BY <1>5, <1>t DEF FinishIgnored, Ignored
  <2>2. AsCircuit # "closed" /\ AsCircuit' = AsCircuit
    BY <2>1, <1>s DEF AsCircuit
  <2>3. AsCircuit' \in Abstract!Answers(AsCircuit, attempt[a], "Miss")
    BY <2>1, <2>2 DEF Abstract!Answers
  <2> QED
    BY <2>1, <2>3 DEF Abstract!Finish
<1>6. ASSUME NEW a \in Attempts, CancelAttempt(a)
      PROVE Abstract!Cancel(a)
  <2>1. AsCircuit' = Abstract!Left(AsCircuit, attempt[a])
    <3>1. CASE attempt[a] = "probe"
      <4>1. state' = [state EXCEPT !.probing = FALSE]
        BY <1>6, <3>1 DEF CancelAttempt
      <4>2. IsOpen(state)
        BY <1>t, <3>1 DEF OneProbe, Probing
      <4>3. AsCircuit' = "open"
        BY <1>t, <4>1, <4>2 DEF AsCircuit, IsOpen, States
      <4> QED
        BY <3>1, <4>3 DEF Abstract!Left
    <3>2. CASE attempt[a] # "probe"
      BY <1>6, <1>s, <3>2 DEF CancelAttempt, Abstract!Left
    <3> QED
      BY <3>1, <3>2
  <2> QED
    BY <1>6, <2>1 DEF CancelAttempt, Abstract!Cancel
<1>7. CASE UNCHANGED breakerVars
  BY <1>7, <1>s DEF breakerVars
<1> QED
  <2>1. ASSUME NEW a \in Attempts, NEW force \in BOOLEAN, Admit(a, force)
        PROVE Abstract!Next
    BY <1>2, <2>1 DEF Abstract!Next
  <2>2. ASSUME NEW a \in Attempts, AdmitProbe(a)
        PROVE Abstract!Next
    BY <1>3, <2>2 DEF Abstract!Next
  <2>3. ASSUME NEW a \in Attempts, NEW outcome \in Outcomes, Finish(a, outcome)
        PROVE Abstract!Next
    BY <1>4, <2>3 DEF Abstract!Next, Outcomes, Abstract!Outcomes
  <2>4. ASSUME NEW a \in Attempts, FinishIgnored(a)
        PROVE Abstract!Next
    BY <1>5, <2>4 DEF Abstract!Next, Abstract!Outcomes
  <2>5. ASSUME NEW a \in Attempts, CancelAttempt(a)
        PROVE Abstract!Next
    BY <1>6, <2>5 DEF Abstract!Next
  <2> QED
    BY <1>1, <1>7, <2>1, <2>2, <2>3, <2>4, <2>5 DEF BreakerNext

(***************************************************************************)
(* The breaker, with its clock, window and ladder, is a Circuit.           *)
(***************************************************************************)
THEOREM BreakerImplements == BreakerSpec => IsACircuit
<1>1. BreakerInit => Abstract!Init
  BY ClosedType DEF BreakerInit, Abstract!Init, AsCircuit
<1> QED
  BY <1>1, BreakerInvariance, StepRefines, PTL DEF BreakerSpec, IsACircuit, Abstract!Spec

----------------------------------------------------------------------------
(***************************************************************************)
(* Cascade, for any providers, backbones and number of requests.  What     *)
(* makes the results certain is what a request knows about the providers   *)
(* it has walked past, which Sound states of its locals.                   *)
(***************************************************************************)
HIDE BreakerAssumption
USE CascadeAssumption

Has(p) == store[Group(p)]

\* Providers the pass of these locals has dealt with.
Walked(l) == {p \in Providers : p \notin l.left /\ p # l.at}

(***************************************************************************)
(* Under way, a request only counts backbones as missed that have no       *)
(* intact copy, and nothing at all while it knows no error; and it has     *)
(* walked past an intact copy only where it was turned away, which the     *)
(* flags remember.                                                         *)
(***************************************************************************)
UnderWay(l) ==
    /\ \A g \in l.missed : store[g] # "intact"
    /\ l.error = "none" => \A g \in l.missed : store[g] = "absent"
    /\ l.failed => l.error # "none"
    /\ \A p \in Walked(l) : Has(p) = "intact" => p \in l.turned
    /\ \A p \in Walked(l) : Has(p) = "intact" => l.skipped \/ l.failed
    /\ \A p \in Walked(l) : Has(p) # "absent" => l.skipped \/ l.error # "none"

Certain(l) ==
    /\ l.result = "NotFound" => \A p \in Providers : Has(p) = "absent"
    /\ l.result = "Corrupt" => \A p \in Providers : Has(p) # "intact"
    /\ l.result \notin {"none", "Found"} =>
         \A p \in Providers : Has(p) = "intact" => p \in l.turned

Sound(l) ==
    /\ l.phase \in {"walking", "fetching"} => UnderWay(l) /\ l.result = "none"
    /\ l.phase = "idle" => l.result = "none"
    /\ l.phase = "done" => Certain(l)

Placed(l) ==
    /\ (l.phase = "fetching") <=> (l.at # None)
    /\ (l.phase = "fetching") <=> (l.attempt # "none")

Inv ==
    /\ TypeOK
    /\ \A g \in missing : store[g] = "absent"
    /\ \A r \in Requests : Sound(req[r])

LEMMA Typed ==
    ASSUME Inv
    PROVE  /\ store \in [Groups -> Copies] /\ missing \subseteq Groups
           /\ circuit \in [Providers -> {"closed", "open", "probing"}]
           /\ \A r \in Requests : req[r] \in Locals /\ Placed(req[r]) /\ Sound(req[r])
BY DEF Inv, TypeOK, Placed

\* A backbone names the group of its providers.
LEMMA BackboneGroup ==
    ASSUME NEW p \in Providers, Backbone[p] # None
    PROVE  Backbone[p] = Group(p) /\ Backbone[p] \in Groups
BY DEF Group, Groups

\* The invariant survives a step that leaves one request with sound locals.
LEMMA OneRequest ==
    ASSUME Inv, NEW r \in Requests, NEW l \in Locals, Placed(l), Sound(l),
           req' = [req EXCEPT ![r] = l], store' = store, exhausted' = exhausted,
           circuit' \in [Providers -> {"closed", "open", "probing"}],
           missing' \subseteq Groups, \A g \in missing' : store[g] = "absent"
    PROVE  Inv'
<1>1. req' \in [Requests -> Locals]
  BY DEF Inv, TypeOK
<1>2. \A q \in Requests : Placed(req'[q]) /\ Sound(req'[q])
  BY Typed DEF Inv, TypeOK
<1>3. ASSUME NEW q \in Requests PROVE Sound(req[q])'
  <2>1. Sound(req'[q])
    BY <1>2
  <2> QED
    BY <2>1 DEF Sound, UnderWay, Certain, Walked, Has
<1>4. TypeOK'
  BY <1>1, <1>2 DEF Inv, TypeOK, Placed
<1> QED
  BY <1>3, <1>4 DEF Inv

LEMMA FreshSound == Fresh \in Locals /\ Placed(Fresh) /\ Sound(Fresh)
BY DEF Fresh, Locals, Phases, Results, Placed, Sound, Groups

LEMMA StartInv ==
    ASSUME Inv, NEW r \in Requests, Start(r)
    PROVE  Inv'
<1>1. PICK order \in [Providers -> 1 .. Cardinality(Providers)] :
        req' = [req EXCEPT ![r] = [Fresh EXCEPT !.phase = "walking",
                                                !.order = order, !.left = Providers]]
  BY DEF Start, Orders
<1> DEFINE l == [Fresh EXCEPT !.phase = "walking", !.order = order, !.left = Providers]
<1>2. l \in Locals
  BY DEF Fresh, Locals, Phases, Results
<1>3. Placed(l) /\ Sound(l)
  BY DEF Fresh, Placed, Sound, UnderWay, Walked
<1>4. UNCHANGED <<store, exhausted, missing, circuit>>
  BY DEF Start
<1> HIDE DEF l
<1> QED
  BY <1>1, <1>2, <1>3, <1>4, OneRequest, Typed DEF Inv, TypeOK, l

\* One provider passed over; what is learnt about it is enough.
LEMMA PassInv ==
    ASSUME Inv, NEW r \in Requests, NEW p \in Providers, AtProvider(r, p),
           PassSibling(r, p) \/ SkipExhausted(r, p) \/ PassMissing(r, p) \/ SkipOpen(r, p)
    PROVE  Inv'
<1> DEFINE k == req[r]
<1>k. /\ k \in Locals /\ k.phase = "walking" /\ k.at = None
      /\ Placed(k) /\ UnderWay(k) /\ k.result = "none"
  BY Typed DEF Placed, Sound, AtProvider
<1>s. UNCHANGED <<store, exhausted, missing, circuit>>
  BY DEF PassSibling, SkipExhausted, PassMissing, SkipOpen
<1>1. CASE PassSibling(r, p)
  <2> DEFINE l == [k EXCEPT !.left = @ \ {p}]
  <2>1. l \in Locals /\ Placed(l)
    BY <1>k DEF Locals, Placed
  <2>2. Has(p) # "intact" /\ (k.error = "none" => Has(p) = "absent")
    BY <1>1, <1>k, BackboneGroup DEF PassSibling, SiblingMissed, UnderWay, Has
  <2>3. Walked(l) \subseteq Walked(k) \cup {p}
    BY <1>k DEF Walked, Locals
  <2>4. Sound(l)
    BY <1>k, <2>2, <2>3 DEF Sound, UnderWay, Locals
  <2>5. req' = [req EXCEPT ![r] = l]
    BY <1>1 DEF PassSibling
  <2> HIDE DEF l, k
  <2> QED
    BY <1>s, <2>1, <2>4, <2>5, OneRequest, Typed DEF Inv
<1>2. CASE SkipExhausted(r, p) \/ SkipOpen(r, p)
  <2> DEFINE l == [k EXCEPT !.left = @ \ {p}, !.skipped = TRUE, !.turned = @ \cup {p}]
  <2>1. l \in Locals /\ Placed(l)
    BY <1>k DEF Locals, Placed
  <2>3. Walked(l) \subseteq Walked(k) \cup {p}
    BY <1>k DEF Walked, Locals
  <2>4. Sound(l)
    BY <1>k, <2>3 DEF Sound, UnderWay, Locals
  <2>5. req' = [req EXCEPT ![r] = l]
    BY <1>2 DEF SkipExhausted, SkipOpen
  <2> HIDE DEF l, k
  <2> QED
    BY <1>s, <2>1, <2>4, <2>5, OneRequest, Typed DEF Inv
<1>3. CASE PassMissing(r, p)
  <2> DEFINE l == [k EXCEPT !.left = @ \ {p}, !.missed = Missed(r, p)]
  <2>1. Has(p) = "absent"
    BY <1>3 DEF PassMissing, Inv, Has
  <2>2. \A g \in Missed(r, p) : g \in Groups /\ (g \in k.missed \/ g = Group(p))
    BY <1>k, BackboneGroup DEF Missed, Locals
  <2>3. l \in Locals /\ Placed(l)
    BY <1>k, <2>2 DEF Locals, Placed
  <2>4. Walked(l) \subseteq Walked(k) \cup {p}
    BY <1>k DEF Walked, Locals
  <2>5. Sound(l)
    BY <1>k, <2>1, <2>2, <2>4 DEF Sound, UnderWay, Locals, Has
  <2>6. req' = [req EXCEPT ![r] = l]
    BY <1>3 DEF PassMissing
  <2> HIDE DEF l, k
  <2> QED
    BY <1>s, <2>3, <2>5, <2>6, OneRequest, Typed DEF Inv
<1> QED
  BY <1>1, <1>2, <1>3

LEMMA AskInv ==
    ASSUME Inv, NEW r \in Requests, NEW p \in Providers, Ask(r, p)
    PROVE  Inv'
<1> DEFINE k == req[r]
<1>k. /\ k \in Locals /\ k.phase = "walking" /\ k.at = None /\ p \in k.left
      /\ Placed(k) /\ UnderWay(k) /\ k.result = "none"
  BY Typed DEF Placed, Sound, Ask, AtBreaker, AtProvider
<1>1. PICK kind \in Breaker(p)!Admissions(circuit[p], k.force) \ {"none"} :
        /\ circuit' = [circuit EXCEPT ![p] = Breaker(p)!Entered(@, kind)]
        /\ req' = [req EXCEPT ![r].phase = "fetching", ![r].at = p,
                               ![r].left = @ \ {p}, ![r].attempt = kind,
                               ![r].attempted = TRUE, ![r].reached = @ \cup {p}]
  BY DEF Ask
<1>2. circuit[p] \in {"closed", "open", "probing"}
  BY Typed
<1>3. kind \in {"plain", "probe"}
  BY <1>1, <1>2 DEF Breaker!Admissions
<1>4. circuit' \in [Providers -> {"closed", "open", "probing"}]
  BY <1>1, <1>2, Typed DEF Breaker!Entered
<1> DEFINE l == [k EXCEPT !.phase = "fetching", !.at = p, !.left = @ \ {p},
                          !.attempt = kind, !.attempted = TRUE,
                          !.reached = @ \cup {p}]
<1>5. l \in Locals /\ Placed(l)
  BY <1>k, <1>3 DEF Locals, Placed, Phases
<1>6. Walked(l) \subseteq Walked(k)
  BY <1>k DEF Walked, Locals
<1>7. Sound(l)
  BY <1>k, <1>6 DEF Sound, UnderWay, Locals
<1>8. req' = [req EXCEPT ![r] = l]
  BY <1>1
<1>9. UNCHANGED <<store, exhausted, missing>>
  BY DEF Ask
<1> HIDE DEF l, k
<1> QED
  BY <1>4, <1>5, <1>7, <1>8, <1>9, OneRequest, Typed DEF Inv

----------------------------------------------------------------------------
\* The circuits stay circuits when a fetch ends.
LEMMA CircuitsStay ==
    ASSUME Inv, NEW r \in Requests, req[r].phase = "fetching",
           circuit' = Dropped(r) \/ \E o \in {"Success", "Miss", "Failure", "Fatal"} : Recorded(r, o)
    PROVE  circuit' \in [Providers -> {"closed", "open", "probing"}]
<1> DEFINE p == req[r].at
<1>1. p \in Providers
  BY Typed DEF Placed, Locals
<1>2. circuit[p] \in {"closed", "open", "probing"}
  BY <1>1, Typed
<1>3. CASE circuit' = Dropped(r)
  BY <1>1, <1>2, <1>3, Typed DEF Dropped, Breaker!Left
<1>4. ASSUME NEW o \in {"Success", "Miss", "Failure", "Fatal"}, Recorded(r, o)
      PROVE circuit' \in [Providers -> {"closed", "open", "probing"}]
  BY <1>1, <1>2, <1>4, Typed DEF Recorded, Breaker!Answers
<1> QED
  BY <1>3, <1>4

\* What is known of the locals of a request that is fetching.
LEMMA Fetching ==
    ASSUME Inv, NEW r \in Requests, req[r].phase = "fetching"
    PROVE  /\ req[r] \in Locals /\ req[r].at \in Providers
           /\ UnderWay(req[r]) /\ req[r].result = "none"
BY Typed DEF Placed, Locals, Sound

\* Its locals once it walks on, having learnt about the provider it was at.
LEMMA WalksOn ==
    ASSUME Inv, NEW r \in Requests, req[r].phase = "fetching", NEW l \in Locals,
           l.phase = "walking", l.at = None, l.attempt = "none",
           l.left = req[r].left, l.result = "none",
           l.missed \subseteq req[r].missed \cup {Group(req[r].at)},
           req[r].skipped => l.skipped, req[r].failed => l.failed,
           req[r].error # "none" => l.error # "none",
           l.failed => l.error # "none",
           req[r].turned \subseteq l.turned,
           Has(req[r].at) = "intact" => req[r].at \in l.turned /\ (l.skipped \/ l.failed),
           Has(req[r].at) # "absent" => l.skipped \/ l.error # "none",
           \/ l.missed = req[r].missed
           \/ Has(req[r].at) # "intact" /\ (l.error = "none" => Has(req[r].at) = "absent")
    PROVE  Placed(l) /\ Sound(l)
<1> DEFINE k == req[r]
<1>1. k \in Locals /\ k.at \in Providers /\ UnderWay(k)
  BY Fetching
<1>2. Walked(l) \subseteq Walked(k) \cup {k.at}
  BY <1>1 DEF Walked
<1>3. \A g \in l.missed : store[g] # "intact" /\ (l.error = "none" => store[g] = "absent")
  <2> SUFFICES ASSUME NEW g \in l.missed
               PROVE  store[g] # "intact" /\ (l.error = "none" => store[g] = "absent")
    OBVIOUS
  <2>1. CASE g \in k.missed
    BY <1>1, <2>1 DEF UnderWay
  <2>2. CASE g \notin k.missed
    BY <2>2 DEF Has
  <2> QED
    BY <2>1, <2>2
<1>4. \A p \in Walked(l) :
         /\ Has(p) = "intact" => p \in l.turned /\ (l.skipped \/ l.failed)
         /\ Has(p) # "absent" => l.skipped \/ l.error # "none"
  <2> SUFFICES ASSUME NEW p \in Walked(l)
               PROVE  /\ Has(p) = "intact" => p \in l.turned /\ (l.skipped \/ l.failed)
                      /\ Has(p) # "absent" => l.skipped \/ l.error # "none"
    OBVIOUS
  <2>1. CASE p = k.at
    BY <2>1
  <2>2. CASE p # k.at
    BY <1>1, <1>2, <2>2 DEF UnderWay
  <2> QED
    BY <2>1, <2>2
<1> QED
  BY <1>3, <1>4 DEF Placed, Sound, UnderWay

LEMMA TurnedAwayInv ==
    ASSUME Inv, NEW r \in Requests,
           NoSlot(r) \/ \E o \in {"Failure", "Fatal"} : Fail(r, o)
    PROVE  Inv'
<1> DEFINE k == req[r]
<1>1. k.phase = "fetching" /\ UNCHANGED <<store, exhausted, missing>>
  BY DEF NoSlot, Fail
<1>2. circuit' \in [Providers -> {"closed", "open", "probing"}]
  BY <1>1, CircuitsStay DEF NoSlot, Fail
<1>3. k \in Locals /\ k.at \in Providers /\ UnderWay(k) /\ k.result = "none"
  BY <1>1, Fetching
<1>4. CASE NoSlot(r)
  <2> DEFINE l == [Walking(r) EXCEPT !.skipped = TRUE, !.turned = @ \cup {k.at}]
  <2>1. /\ l \in Locals /\ l.phase = "walking" /\ l.at = None /\ l.attempt = "none"
        /\ l.left = k.left /\ l.result = "none" /\ l.missed = k.missed /\ l.skipped
        /\ l.failed = k.failed /\ l.error = k.error /\ l.turned = k.turned \cup {k.at}
    BY <1>3 DEF Walking, Locals, Phases
  <2>2. req' = [req EXCEPT ![r] = l]
    BY <1>4 DEF NoSlot
  <2> HIDE DEF l
  <2>3. k.failed => k.error # "none"
    BY <1>3 DEF UnderWay
  <2>4. Placed(l) /\ Sound(l)
    BY <1>1, <2>1, <2>3, WalksOn
  <2> QED
    BY <1>1, <1>2, <2>1, <2>2, <2>4, OneRequest, Typed DEF Inv
<1>5. ASSUME NEW o \in {"Failure", "Fatal"}, Fail(r, o) PROVE Inv'
  <2> DEFINE l == [Walking(r) EXCEPT !.failed = TRUE, !.error = "Failure",
                                     !.turned = @ \cup {k.at}]
  <2>1. /\ l \in Locals /\ l.phase = "walking" /\ l.at = None /\ l.attempt = "none"
        /\ l.left = k.left /\ l.result = "none" /\ l.missed = k.missed /\ l.failed
        /\ l.skipped = k.skipped /\ l.error = "Failure" /\ l.turned = k.turned \cup {k.at}
    BY <1>3 DEF Walking, Locals, Phases
  <2>2. req' = [req EXCEPT ![r] = l]
    BY <1>5 DEF Fail
  <2> HIDE DEF l
  <2>3. Placed(l) /\ Sound(l)
    BY <1>1, <2>1, WalksOn
  <2> QED
    BY <1>1, <1>2, <2>1, <2>2, <2>3, OneRequest, Typed DEF Inv
<1> QED
  BY <1>4, <1>5

LEMMA MissInv ==
    ASSUME Inv, NEW r \in Requests, Deny(r) \/ Spoil(r)
    PROVE  Inv'
<1> DEFINE k == req[r]
<1>1. k.phase = "fetching" /\ UNCHANGED <<store, exhausted>>
  BY DEF Deny, Spoil
<1>2. circuit' \in [Providers -> {"closed", "open", "probing"}]
  BY <1>1, CircuitsStay DEF Deny, Spoil
<1>3. k \in Locals /\ k.at \in Providers /\ UnderWay(k) /\ k.result = "none"
  BY <1>1, Fetching
<1>4. /\ Missed(r, k.at) \in SUBSET Groups
      /\ Missed(r, k.at) \subseteq k.missed \cup {Group(k.at)}
  BY <1>3, BackboneGroup DEF Missed, Locals
<1>5. CASE Deny(r)
  <2> DEFINE l == [Walking(r) EXCEPT !.missed = Missed(r, k.at)]
  <2>1. Has(k.at) = "absent" /\ Group(k.at) \in Groups
    BY <1>3, <1>5 DEF Deny, Copy, Has, Groups
  <2>2. /\ l \in Locals /\ l.phase = "walking" /\ l.at = None /\ l.attempt = "none"
        /\ l.left = k.left /\ l.result = "none" /\ l.missed = Missed(r, k.at)
        /\ l.failed = k.failed /\ l.skipped = k.skipped
        /\ l.error = k.error /\ l.turned = k.turned
    BY <1>3, <1>4 DEF Walking, Locals, Phases
  <2>3. req' = [req EXCEPT ![r] = l] /\ missing' = missing \cup {Group(k.at)}
    BY <1>5 DEF Deny
  <2> HIDE DEF l
  <2>4. k.failed => k.error # "none"
    BY <1>3 DEF UnderWay
  <2>5. Placed(l) /\ Sound(l)
    BY <1>1, <1>4, <2>1, <2>2, <2>4, WalksOn
  <2>6. missing' \subseteq Groups /\ \A g \in missing' : store[g] = "absent"
    BY <2>1, <2>3, Typed DEF Inv, Has
  <2> QED
    BY <1>1, <1>2, <2>2, <2>3, <2>5, <2>6, OneRequest
<1>6. CASE Spoil(r)
  <2> DEFINE l == [Walking(r) EXCEPT !.missed = Missed(r, k.at), !.error = "Corrupt"]
  <2>1. Has(k.at) = "corrupt"
    BY <1>6 DEF Spoil, Copy, Has
  <2>2. /\ l \in Locals /\ l.phase = "walking" /\ l.at = None /\ l.attempt = "none"
        /\ l.left = k.left /\ l.result = "none" /\ l.missed = Missed(r, k.at)
        /\ l.failed = k.failed /\ l.skipped = k.skipped
        /\ l.error = "Corrupt" /\ l.turned = k.turned
    BY <1>3, <1>4 DEF Walking, Locals, Phases
  <2>3. req' = [req EXCEPT ![r] = l] /\ missing' = missing
    BY <1>6 DEF Spoil
  <2> HIDE DEF l
  <2>4. Placed(l) /\ Sound(l)
    BY <1>1, <1>4, <2>1, <2>2, WalksOn
  <2> QED
    BY <1>1, <1>2, <2>2, <2>3, <2>4, OneRequest, Typed DEF Inv
<1> QED
  BY <1>5, <1>6

\* A request that returns keeps only its result and its history.
LEMMA DoneLocals ==
    ASSUME Inv, NEW r \in Requests, NEW result \in Results
    PROVE  Done(r, result) \in Locals /\ Placed(Done(r, result))
           /\ Done(r, result).phase = "done" /\ Done(r, result).result = result
           /\ Done(r, result).turned = req[r].turned
<1>1. req[r] \in Locals
  BY Typed
<1> QED
  BY <1>1 DEF Done, Fresh, Locals, Phases, Placed, Groups

LEMMA EndInv ==
    ASSUME Inv, NEW r \in Requests, Deliver(r) \/ Cancel(r) \/ SecondPass(r) \/ GiveUp(r)
    PROVE  Inv'
<1> DEFINE k == req[r]
<1>1. UNCHANGED <<store, exhausted, missing>>
  BY DEF Deliver, Cancel, SecondPass, GiveUp
<1>2. CASE Deliver(r)
  <2>1. circuit' \in [Providers -> {"closed", "open", "probing"}]
    BY <1>2, CircuitsStay DEF Deliver
  <2>2. Done(r, "Found") \in Locals /\ Placed(Done(r, "Found")) /\ Sound(Done(r, "Found"))
    BY DoneLocals DEF Results, Sound, Certain
  <2> QED
    BY <1>1, <1>2, <2>1, <2>2, OneRequest, Typed DEF Inv, Deliver
<1>3. CASE Cancel(r)
  <2>1. circuit' \in [Providers -> {"closed", "open", "probing"}]
    BY <1>3, CircuitsStay DEF Cancel
  <2> QED
    BY <1>1, <1>3, <2>1, FreshSound, OneRequest, Typed DEF Inv, Cancel
<1>4. CASE SecondPass(r)
  <2> DEFINE l == [k EXCEPT !.left = Providers, !.force = TRUE, !.skipped = FALSE]
  <2>1. k \in Locals /\ k.phase = "walking" /\ Placed(k) /\ UnderWay(k) /\ k.result = "none"
    BY <1>4, Typed DEF SecondPass, PassOver, Sound
  <2>2. l \in Locals /\ Placed(l)
    BY <2>1 DEF Locals, Placed
  <2>3. Walked(l) = {}
    BY <2>1 DEF Walked, Locals
  <2>4. Sound(l)
    BY <2>1, <2>3 DEF Sound, UnderWay, Locals
  <2>5. req' = [req EXCEPT ![r] = l] /\ circuit' = circuit
    BY <1>4 DEF SecondPass
  <2> HIDE DEF l
  <2> QED
    BY <1>1, <2>2, <2>4, <2>5, OneRequest, Typed DEF Inv
<1>5. CASE GiveUp(r)
  <2>1. /\ k \in Locals /\ k.phase = "walking" /\ k.at = None /\ k.left = {}
        /\ UnderWay(k)
    BY <1>5, Typed DEF GiveUp, PassOver, Sound, Placed
  <2>2. Walked(k) = Providers
    BY <2>1 DEF Walked
  <2>3. Result(r) \in Results /\ Result(r) \notin {"none", "Found"}
    BY <2>1 DEF Result, Results, Locals
  <2>4. Result(r) = "NotFound" => k.error = "none" /\ ~k.skipped
    BY <2>1 DEF Result, Locals
  <2>5. Result(r) = "Corrupt" => ~k.skipped /\ ~k.failed
    BY <2>1 DEF Result, Locals
  <2>6. Certain(Done(r, Result(r)))
    <3> HIDE DEF k
    <3>1. Done(r, Result(r)).result = Result(r) /\ Done(r, Result(r)).turned = k.turned
      BY <2>3, DoneLocals DEF k
    <3> QED
      BY <3>1, <2>1, <2>2, <2>4, <2>5 DEF Certain, UnderWay
  <2>7. Done(r, Result(r)) \in Locals /\ Placed(Done(r, Result(r))) /\ Sound(Done(r, Result(r)))
    BY <2>3, <2>6, DoneLocals DEF Sound
  <2> QED
    BY <1>1, <1>5, <2>7, OneRequest, Typed DEF Inv, GiveUp
<1> QED
  BY <1>2, <1>3, <1>4, <1>5

----------------------------------------------------------------------------
LEMMA InitInv == Init => Inv
<1> SUFFICES ASSUME Init PROVE Inv
  OBVIOUS
<1>1. req \in [Requests -> Locals] /\ \A r \in Requests : req[r] = Fresh
  BY FreshSound DEF Init
<1>2. TypeOK
  BY <1>1, FreshSound DEF Init, TypeOK, Placed
<1> QED
  BY <1>1, <1>2, FreshSound DEF Init, Inv

LEMMA NextInv == Inv /\ [Next]_vars => Inv'
<1> SUFFICES ASSUME Inv, [Next]_vars PROVE Inv'
  OBVIOUS
<1>1. ASSUME NEW r \in Requests, NEW p \in Providers,
             PassSibling(r, p) \/ SkipExhausted(r, p) \/ PassMissing(r, p) \/ SkipOpen(r, p)
      PROVE Inv'
  <2>1. AtProvider(r, p)
    BY <1>1 DEF PassSibling, SkipExhausted, PassMissing, SkipOpen, AtBreaker
  <2> QED
    BY <1>1, <2>1, PassInv
<1>2. ASSUME NEW g \in missing, Forget(g) PROVE Inv'
  <2>1. TypeOK'
    BY <1>2 DEF Inv, TypeOK, Forget
  <2> QED
    BY <1>2, <2>1 DEF Inv, Forget, Sound, UnderWay, Certain, Walked, Has
<1>3. ASSUME NEW p \in Metered, Meter(p) PROVE Inv'
  <2>1. TypeOK'
    BY <1>3 DEF Inv, TypeOK, Meter
  <2> QED
    BY <1>3, <2>1 DEF Inv, Meter, Sound, UnderWay, Certain, Walked, Has
<1>4. CASE UNCHANGED vars
  BY <1>4 DEF vars, Inv, TypeOK, Sound, UnderWay, Certain, Walked, Has
<1> QED
  BY <1>1, <1>2, <1>3, <1>4, StartInv, AskInv, TurnedAwayInv, MissInv, EndInv DEF Next

THEOREM Invariance == Spec => []Inv
BY InitInv, NextInv, PTL DEF Spec

(***************************************************************************)
(* The locals of every request, the breakers and the memory of misses stay *)
(* well-formed.                                                            *)
(***************************************************************************)
THEOREM TypeCorrect == Spec => []TypeOK
<1>1. Inv => TypeOK
  BY DEF Inv
<1> QED
  BY <1>1, Invariance, PTL

\* Results are certain where the invariant holds.
LEMMA Certainty ==
    ASSUME Inv, NEW r \in Requests
    PROVE  Certain(req[r])
<1>1. req[r].phase \in Phases /\ Sound(req[r])
  BY Typed DEF Locals
<1> QED
  BY <1>1 DEF Sound, Certain, Phases

(***************************************************************************)
(* A request reports NotFound only where no provider has the article.      *)
(***************************************************************************)
THEOREM NotFoundProved == Spec => []NotFoundIsCertain
<1>1. Inv => NotFoundIsCertain
  BY Certainty DEF NotFoundIsCertain, Certain, Has, Groups
<1> QED
  BY <1>1, Invariance, PTL

(***************************************************************************)
(* A request reports a corrupt copy only where no provider has an intact   *)
(* one.                                                                    *)
(***************************************************************************)
THEOREM CorruptProved == Spec => []CorruptIsCertain
<1>1. Inv => CorruptIsCertain
  BY Certainty DEF CorruptIsCertain, Certain, Has, Groups
<1> QED
  BY <1>1, Invariance, PTL

(***************************************************************************)
(* A request that fails was turned away by every provider with an intact   *)
(* copy.                                                                   *)
(***************************************************************************)
THEOREM FailoverIsComplete == Spec => []NoCopyOverlooked
<1>1. Inv => NoCopyOverlooked
  BY Certainty DEF NoCopyOverlooked, Certain, Has
<1> QED
  BY <1>1, Invariance, PTL

----------------------------------------------------------------------------
(***************************************************************************)
(* When every circuit is open they are tried anyway.  Under way, a request *)
(* that reached no provider knows no error; in its forced pass it skips    *)
(* only used-up quotas, for a forced attempt is never refused.             *)
(***************************************************************************)
Trying(l) ==
    /\ l.attempted <=> l.reached # {}
    /\ l.phase = "fetching" => l.attempted
    /\ ~l.attempted => l.error = "none"
    /\ ~l.attempted /\ l.force /\ l.skipped => l.turned \cap Metered # {}

Tried(l) ==
    (l.result = "Unavailable" /\ l.reached = {}) => l.force /\ l.turned \cap Metered # {}

AllTrying ==
    \A r \in Requests :
        /\ req[r].phase \in {"walking", "fetching"} => Trying(req[r])
        /\ Tried(req[r])

\* It survives a step that changes the locals of one request so.
LEMMA OneTrying ==
    ASSUME Inv, AllTrying, NEW r \in Requests, NEW l,
           req' = [req EXCEPT ![r] = l],
           l.phase \in {"walking", "fetching"} => Trying(l), Tried(l)
    PROVE  AllTrying'
<1>1. \A q \in Requests : req'[q] = IF q = r THEN l ELSE req[q]
  BY DEF Inv, TypeOK
<1> QED
  BY <1>1 DEF AllTrying, Trying, Tried

\* A forced attempt is never refused.
LEMMA ForcedIsAdmitted ==
    ASSUME NEW p \in Providers, circuit[p] \in {"closed", "open", "probing"}
    PROVE  "none" \notin Breaker(p)!Admissions(circuit[p], TRUE)
BY DEF Breaker!Admissions

LEMMA WalkTries ==
    ASSUME Inv, AllTrying, NEW r \in Requests, NEW p \in Providers,
           \/ PassSibling(r, p) \/ SkipExhausted(r, p) \/ PassMissing(r, p)
           \/ SkipOpen(r, p) \/ Ask(r, p)
    PROVE  AllTrying'
<1> DEFINE k == req[r]
<1>k. k \in Locals /\ Trying(k) /\ k.result = "none"
  <2>1. k.phase = "walking"
    BY DEF PassSibling, SkipExhausted, PassMissing, SkipOpen, Ask, AtBreaker, AtProvider
  <2> QED
    BY <2>1, Typed DEF AllTrying, Sound
<1>1. CASE PassSibling(r, p) \/ PassMissing(r, p)
  <2>1. PICK missed : req' = [req EXCEPT ![r] = [k EXCEPT !.left = @ \ {p}, !.missed = missed]]
    <3>1. CASE PassSibling(r, p)
      <4>1. req' = [req EXCEPT ![r] = [k EXCEPT !.left = @ \ {p}, !.missed = k.missed]]
        BY <3>1, <1>k DEF PassSibling, Locals
      <4> QED
        BY <4>1
    <3>2. CASE PassMissing(r, p)
      BY <3>2 DEF PassMissing
    <3> QED
      BY <1>1, <3>1, <3>2
  <2> DEFINE l == [k EXCEPT !.left = @ \ {p}, !.missed = missed]
  <2>2. Trying(l) /\ Tried(l)
    BY <1>k DEF Trying, Tried, Locals
  <2> HIDE DEF l, k
  <2> QED
    BY <2>1, <2>2, OneTrying DEF l, k
<1>2. CASE SkipExhausted(r, p) \/ SkipOpen(r, p)
  <2> DEFINE l == [k EXCEPT !.left = @ \ {p}, !.skipped = TRUE, !.turned = @ \cup {p}]
  <2>1. p \in Metered \/ ~k.force
    <3>1. k.force \in BOOLEAN /\ circuit[p] \in {"closed", "open", "probing"}
      BY <1>k, Typed DEF Locals
    <3> QED
      BY <1>2, <3>1, ForcedIsAdmitted DEF SkipExhausted, SkipOpen, Inv, TypeOK
  <2>2. Trying(l) /\ Tried(l)
    BY <1>k, <2>1 DEF Trying, Tried, Locals
  <2>3. req' = [req EXCEPT ![r] = l]
    BY <1>2 DEF SkipExhausted, SkipOpen
  <2> HIDE DEF l, k
  <2> QED
    BY <2>2, <2>3, OneTrying
<1>3. CASE Ask(r, p)
  <2>1. PICK kind : req' = [req EXCEPT ![r].phase = "fetching", ![r].at = p,
                               ![r].left = @ \ {p}, ![r].attempt = kind,
                               ![r].attempted = TRUE, ![r].reached = @ \cup {p}]
    BY <1>3 DEF Ask
  <2> DEFINE l == [k EXCEPT !.phase = "fetching", !.at = p, !.left = @ \ {p},
                            !.attempt = kind, !.attempted = TRUE,
                            !.reached = @ \cup {p}]
  <2>2. Trying(l) /\ Tried(l)
    BY <1>k DEF Trying, Tried, Locals
  <2>3. req' = [req EXCEPT ![r] = l]
    BY <2>1
  <2> HIDE DEF l, k
  <2> QED
    BY <2>2, <2>3, OneTrying
<1> QED
  BY <1>1, <1>2, <1>3

LEMMA FetchTries ==
    ASSUME Inv, AllTrying, NEW r \in Requests,
           \/ NoSlot(r) \/ Deny(r) \/ Spoil(r) \/ Deliver(r) \/ Cancel(r)
           \/ \E o \in {"Failure", "Fatal"} : Fail(r, o)
    PROVE  AllTrying'
<1> DEFINE k == req[r]
<1>k. k.phase = "fetching" /\ k \in Locals /\ Trying(k) /\ k.result = "none"
  <2>1. k.phase = "fetching"
    BY DEF NoSlot, Deny, Spoil, Deliver, Cancel, Fail
  <2> QED
    BY <2>1, Typed DEF AllTrying, Sound
<1>a. k.attempted /\ k.reached # {}
  BY <1>k DEF Trying
<1>1. CASE NoSlot(r) \/ Deny(r) \/ Spoil(r) \/ \E o \in {"Failure", "Fatal"} : Fail(r, o)
  <2>1. PICK l : /\ req' = [req EXCEPT ![r] = l]
                 /\ l.phase = "walking" /\ l.attempted /\ l.reached # {} /\ l.result = "none"
    <3>1. /\ Walking(r).phase = "walking" /\ Walking(r).attempted
          /\ Walking(r).reached # {} /\ Walking(r).result = "none"
          /\ DOMAIN Walking(r) = DOMAIN k /\ DOMAIN k = DOMAIN Fresh
      BY <1>k, <1>a DEF Walking, Locals, Fresh
    <3>2. CASE NoSlot(r)
      <4> WITNESS [Walking(r) EXCEPT !.skipped = TRUE, !.turned = @ \cup {k.at}]
      <4> QED
        BY <3>1, <3>2 DEF NoSlot, Fresh
    <3>3. CASE Deny(r)
      <4> WITNESS [Walking(r) EXCEPT !.missed = Missed(r, k.at)]
      <4> QED
        BY <3>1, <3>3 DEF Deny, Fresh
    <3>4. CASE Spoil(r)
      <4> WITNESS [Walking(r) EXCEPT !.missed = Missed(r, k.at), !.error = "Corrupt"]
      <4> QED
        BY <3>1, <3>4 DEF Spoil, Fresh
    <3>5. CASE \E o \in {"Failure", "Fatal"} : Fail(r, o)
      <4> WITNESS [Walking(r) EXCEPT !.failed = TRUE, !.error = "Failure",
                                     !.turned = @ \cup {k.at}]
      <4> QED
        BY <3>1, <3>5 DEF Fail, Fresh
    <3> QED
      BY <1>1, <3>2, <3>3, <3>4, <3>5
  <2>2. Trying(l) /\ Tried(l)
    BY <2>1 DEF Trying, Tried
  <2> QED
    BY <2>1, <2>2, OneTrying
<1>2. CASE Deliver(r)
  <2>1. Done(r, "Found").phase = "done" /\ Done(r, "Found").result = "Found"
    BY DoneLocals DEF Results
  <2>2. req' = [req EXCEPT ![r] = Done(r, "Found")] /\ Tried(Done(r, "Found"))
    BY <1>2, <2>1 DEF Deliver, Tried
  <2> QED
    BY <2>1, <2>2, OneTrying
<1>3. CASE Cancel(r)
  <2>1. Fresh.phase = "idle" /\ Tried(Fresh)
    BY DEF Fresh, Tried
  <2>2. req' = [req EXCEPT ![r] = Fresh]
    BY <1>3 DEF Cancel
  <2> QED
    BY <2>1, <2>2, OneTrying
<1> QED
  BY <1>1, <1>2, <1>3

LEMMA PassTries ==
    ASSUME Inv, AllTrying, NEW r \in Requests, SecondPass(r) \/ GiveUp(r)
    PROVE  AllTrying'
<1> DEFINE k == req[r]
<1>k. k.phase = "walking" /\ k \in Locals /\ Trying(k) /\ k.result = "none"
  <2>1. k.phase = "walking"
    BY DEF SecondPass, GiveUp, PassOver
  <2> QED
    BY <2>1, Typed DEF AllTrying, Sound
<1>1. CASE SecondPass(r)
  <2> DEFINE l == [k EXCEPT !.left = Providers, !.force = TRUE, !.skipped = FALSE]
  <2>1. Trying(l) /\ Tried(l)
    BY <1>k DEF Trying, Tried, Locals
  <2>2. req' = [req EXCEPT ![r] = l]
    BY <1>1 DEF SecondPass
  <2> HIDE DEF l, k
  <2> QED
    BY <2>1, <2>2, OneTrying
<1>2. CASE GiveUp(r)
  <2> DEFINE l == Done(r, Result(r))
  <2>1. /\ l.phase = "done" /\ l.result = Result(r) /\ l.force = k.force
        /\ l.turned = k.turned /\ l.reached = k.reached
    BY DEF Done, Fresh
  <2>2. ~k.attempted /\ Result(r) = "Unavailable" => k.skipped
    BY <1>k DEF Result, Trying
  <2>3. ~k.attempted /\ k.skipped => k.force
    BY <1>2 DEF GiveUp, Again
  <2>4. Tried(l)
    BY <1>k, <2>1, <2>2, <2>3 DEF Tried, Trying
  <2>5. req' = [req EXCEPT ![r] = l]
    BY <1>2 DEF GiveUp
  <2> HIDE DEF l
  <2> QED
    BY <2>1, <2>4, <2>5, OneTrying
<1> QED
  BY <1>1, <1>2

LEMMA StartTries ==
    ASSUME Inv, AllTrying, NEW r \in Requests, Start(r)
    PROVE  AllTrying'
<1>1. PICK order :
        req' = [req EXCEPT ![r] = [Fresh EXCEPT !.phase = "walking",
                                                !.order = order, !.left = Providers]]
  BY DEF Start
<1> DEFINE l == [Fresh EXCEPT !.phase = "walking", !.order = order, !.left = Providers]
<1>2. Trying(l) /\ Tried(l)
  BY DEF Trying, Tried, Fresh
<1> HIDE DEF l
<1> QED
  BY <1>1, <1>2, OneTrying DEF l

LEMMA InitTrying == Init => AllTrying
BY DEF Init, AllTrying, Tried, Fresh

LEMMA NextTrying == Inv /\ AllTrying /\ [Next]_vars => AllTrying'
<1> SUFFICES ASSUME Inv, AllTrying, [Next]_vars PROVE AllTrying'
  OBVIOUS
<1>1. CASE req' = req
  BY <1>1 DEF AllTrying, Trying, Tried
<1>2. (\E g \in missing : Forget(g)) \/ (\E p \in Metered : Meter(p)) => req' = req
  BY DEF Forget, Meter
<1> QED
  BY <1>1, <1>2, StartTries, WalkTries, FetchTries, PassTries DEF Next, vars

(***************************************************************************)
(* A request that ends Unavailable without having reached a provider was   *)
(* in its forced pass and met a used-up quota: open circuits alone never   *)
(* fail it.                                                                *)
(***************************************************************************)
THEOREM OpenCircuitsTried == Spec => []OpenCircuitsAreTried
<1>1. AllTrying => OpenCircuitsAreTried
  BY DEF AllTrying, Tried, OpenCircuitsAreTried
<1>2. Spec => []AllTrying
  BY InitTrying, NextTrying, Invariance, PTL DEF Spec
<1> QED
  BY <1>1, <1>2, PTL

----------------------------------------------------------------------------
(***************************************************************************)
(* Requests use the breaker of each provider as a circuit.  A step that is *)
(* not at the breaker of p leaves it and every attempt at it alone.        *)
(***************************************************************************)
Steps(p) == Breaker(p)!Next \/ UNCHANGED Breaker(p)!vars

OnlyMoves(r) == \A q \in Requests : q # r => req'[q] = req[q]

\* The attempts at p, once one request has moved.
LEMMA Attempting ==
    ASSUME NEW r \in Requests, OnlyMoves(r), NEW p \in Providers
    PROVE  [q \in Requests |-> AttemptAt(q, p)]'
             = [[q \in Requests |-> AttemptAt(q, p)] EXCEPT ![r] = AttemptAt(r, p)']
<1>1. \A q \in Requests : q # r => AttemptAt(q, p)' = AttemptAt(q, p)
  BY DEF AttemptAt, OnlyMoves
<1> QED
  BY <1>1

LEMMA AtRest ==
    ASSUME NEW r \in Requests, OnlyMoves(r), NEW p \in Providers,
           circuit'[p] = circuit[p], AttemptAt(r, p)' = AttemptAt(r, p)
    PROVE  Steps(p)
<1>1. \A q \in Requests : AttemptAt(q, p)' = AttemptAt(q, p)
  BY DEF AttemptAt, OnlyMoves
<1> QED
  BY <1>1 DEF Steps, Breaker!vars

\* A request that holds no attempt, before and after.
LEMMA NoneHeld ==
    ASSUME Inv, NEW r \in Requests, OnlyMoves(r), req[r].phase # "fetching",
           req'[r].at = None, circuit' = circuit, NEW p \in Providers
    PROVE  Steps(p)
<1>1. req[r].at = None
  BY Typed DEF Placed
<1> QED
  BY <1>1, AtRest DEF AttemptAt

LEMMA AskSteps ==
    ASSUME Inv, NEW r \in Requests, NEW q \in Providers, Ask(r, q), NEW p \in Providers
    PROVE  Steps(p)
<1> DEFINE k == req[r]
<1>k. k \in Locals /\ k.at = None
  BY Typed DEF Placed, Ask, AtBreaker, AtProvider
<1>1. PICK kind \in Breaker(q)!Admissions(circuit[q], k.force) \ {"none"} :
        /\ circuit' = [circuit EXCEPT ![q] = Breaker(q)!Entered(@, kind)]
        /\ req' = [req EXCEPT ![r].phase = "fetching", ![r].at = q,
                               ![r].left = @ \ {q}, ![r].attempt = kind,
                               ![r].attempted = TRUE, ![r].reached = @ \cup {q}]
  BY DEF Ask
<1>2. OnlyMoves(r)
  BY <1>1, Typed DEF OnlyMoves, Inv, TypeOK
<1>3. req'[r].at = q /\ req'[r].attempt = kind
  BY <1>1, <1>k DEF Inv, TypeOK, Locals
<1>4. AttemptAt(r, p) = "none"
  BY <1>k DEF AttemptAt
<1>5. CASE p = q
  <2>1. circuit'[p] = Breaker(p)!Entered(circuit[p], kind)
    BY <1>1, <1>5, Typed
  <2>2. AttemptAt(r, p)' = kind
    BY <1>3, <1>5 DEF AttemptAt
  <2>3. [s \in Requests |-> AttemptAt(s, p)]'
          = [[s \in Requests |-> AttemptAt(s, p)] EXCEPT ![r] = kind]
    BY <1>2, <2>2, Attempting
  <2>4. k.force \in BOOLEAN
    BY <1>k DEF Locals
  <2>5. Breaker(p)!Admit(r, k.force)
    BY <1>1, <1>4, <1>5, <2>1, <2>3 DEF Breaker!Admit
  <2> QED
    BY <2>4, <2>5 DEF Steps, Breaker!Next
<1>6. CASE p # q
  <2>1. circuit'[p] = circuit[p]
    BY <1>1, <1>6, Typed
  <2>2. AttemptAt(r, p)' = "none"
    BY <1>3, <1>6 DEF AttemptAt
  <2> QED
    BY <1>2, <1>4, <2>1, <2>2, AtRest
<1> QED
  BY <1>5, <1>6

\* A fetch that ends, with an outcome or without one.
LEMMA FetchSteps ==
    ASSUME Inv, NEW r \in Requests, req[r].phase = "fetching",
           OnlyMoves(r), req'[r].at = None,
           circuit' = Dropped(r) \/ \E o \in {"Success", "Miss", "Failure", "Fatal"} : Recorded(r, o),
           NEW p \in Providers
    PROVE  Steps(p)
<1> DEFINE k == req[r]
<1>1. k.at \in Providers /\ k.attempt # "none" /\ p # None
  BY Typed DEF Placed, Locals
<1>2. AttemptAt(r, p)' = "none"
  BY <1>1 DEF AttemptAt
<1>3. CASE p # k.at
  <2>1. circuit'[p] = circuit[p]
    BY <1>1, <1>3, Typed DEF Dropped, Recorded
  <2>2. AttemptAt(r, p) = "none"
    BY <1>3 DEF AttemptAt
  <2> QED
    BY <1>2, <2>1, <2>2, AtRest
<1>4. CASE p = k.at
  <2>1. [s \in Requests |-> AttemptAt(s, p)]'
          = [[s \in Requests |-> AttemptAt(s, p)] EXCEPT ![r] = "none"]
    BY <1>2, Attempting
  <2>2. AttemptAt(r, p) = k.attempt
    BY <1>4 DEF AttemptAt
  <2>3. CASE circuit' = Dropped(r)
    <3>1. circuit'[p] = Breaker(p)!Left(circuit[p], k.attempt)
      BY <1>1, <1>4, <2>3, Typed DEF Dropped
    <3>2. Breaker(p)!Cancel(r)
      BY <1>1, <2>1, <2>2, <3>1 DEF Breaker!Cancel
    <3> QED
      BY <3>2 DEF Steps, Breaker!Next
  <2>4. ASSUME NEW o \in {"Success", "Miss", "Failure", "Fatal"}, Recorded(r, o)
        PROVE  Steps(p)
    <3>1. circuit'[p] \in Breaker(p)!Answers(circuit[p], k.attempt, o)
      BY <1>1, <1>4, <2>4, Typed DEF Recorded
    <3>2. Breaker(p)!Finish(r, o)
      BY <1>1, <2>1, <2>2, <3>1 DEF Breaker!Finish
    <3> QED
      BY <3>2 DEF Steps, Breaker!Next, Breaker!Outcomes
  <2> QED
    BY <2>3, <2>4
<1> QED
  BY <1>3, <1>4

LEMMA NextSteps ==
    ASSUME Inv, [Next]_vars, NEW p \in Providers
    PROVE  Steps(p)
<1> USE DEF OnlyMoves
<1>t. req \in [Requests -> Locals]
  BY DEF Inv, TypeOK
<1>1. CASE req' = req /\ circuit' = circuit
  BY <1>1 DEF Steps, Breaker!vars, AttemptAt
<1>2. ASSUME NEW r \in Requests, Start(r) PROVE Steps(p)
  <2>1. OnlyMoves(r) /\ req'[r].at = None /\ req[r].phase # "fetching"
    BY <1>2, <1>t DEF Start, Fresh
  <2> QED
    BY <1>2, <2>1, NoneHeld DEF Start
<1>3. ASSUME NEW r \in Requests, NEW q \in Providers,
             PassSibling(r, q) \/ SkipExhausted(r, q) \/ PassMissing(r, q) \/ SkipOpen(r, q)
      PROVE  Steps(p)
  <2>1. req[r].phase = "walking" /\ circuit' = circuit
    BY <1>3 DEF PassSibling, SkipExhausted, PassMissing, SkipOpen, AtBreaker, AtProvider
  <2>2. req[r] \in Locals /\ req[r].at = None
    BY <2>1, Typed DEF Placed
  <2>3. OnlyMoves(r) /\ req'[r].at = None
    BY <1>3, <1>t, <2>2 DEF PassSibling, SkipExhausted, PassMissing, SkipOpen, Locals
  <2> QED
    BY <2>1, <2>3, NoneHeld
<1>4. ASSUME NEW r \in Requests, SecondPass(r) \/ GiveUp(r) PROVE Steps(p)
  <2>1. req[r].phase = "walking" /\ circuit' = circuit
    BY <1>4 DEF SecondPass, GiveUp, PassOver
  <2>2. req[r] \in Locals /\ req[r].at = None
    BY <2>1, Typed DEF Placed
  <2>3. OnlyMoves(r) /\ req'[r].at = None
    <3>1. CASE SecondPass(r)
      BY <3>1, <1>t, <2>2 DEF SecondPass, Locals
    <3>2. CASE GiveUp(r)
      BY <3>2, <1>t DEF GiveUp, Done, Fresh
    <3> QED
      BY <1>4, <3>1, <3>2
  <2> QED
    BY <2>1, <2>3, NoneHeld
<1>5. ASSUME NEW r \in Requests,
             \/ NoSlot(r) \/ Deny(r) \/ Spoil(r) \/ Deliver(r) \/ Cancel(r)
             \/ \E o \in {"Failure", "Fatal"} : Fail(r, o)
      PROVE  Steps(p)
  <2>1. /\ req[r].phase = "fetching"
        /\ circuit' = Dropped(r) \/ \E o \in {"Success", "Miss", "Failure", "Fatal"} : Recorded(r, o)
    BY <1>5 DEF NoSlot, Deny, Spoil, Deliver, Cancel, Fail
  <2>2. req[r] \in Locals
    BY Typed
  <2>3. OnlyMoves(r)
    BY <1>5, <1>t DEF NoSlot, Deny, Spoil, Deliver, Cancel, Fail
  <2>4. req'[r].at = None
    <3> DEFINE k == req[r]
    <3>1. Walking(r) = [k EXCEPT !.phase = "walking", !.at = None, !.attempt = "none"]
      BY DEF Walking
    <3>2. CASE NoSlot(r)
      BY <1>t, <2>2, <3>1, <3>2 DEF NoSlot, Locals
    <3>3. CASE Deny(r) \/ Spoil(r)
      <4>1. \A m : [Walking(r) EXCEPT !.missed = m].at = None
        BY <2>2, <3>1 DEF Locals
      <4>2. \A m : [Walking(r) EXCEPT !.missed = m, !.error = "Corrupt"].at = None
        BY <2>2, <3>1 DEF Locals
      <4>3. CASE Deny(r)
        BY <1>t, <4>1, <4>3 DEF Deny
      <4>4. CASE Spoil(r)
        BY <1>t, <4>2, <4>4 DEF Spoil
      <4> QED
        BY <3>3, <4>3, <4>4
    <3>4. CASE Deliver(r) \/ Cancel(r)
      <4>1. Done(r, "Found").at = None /\ Fresh.at = None
        BY DEF Done, Fresh
      <4> QED
        BY <1>t, <3>4, <4>1 DEF Deliver, Cancel
    <3>5. ASSUME NEW o \in {"Failure", "Fatal"}, Fail(r, o) PROVE req'[r].at = None
      BY <1>t, <2>2, <3>1, <3>5 DEF Fail, Locals
    <3> QED
      BY <1>5, <3>2, <3>3, <3>4, <3>5
  <2> QED
    BY <2>1, <2>3, <2>4, FetchSteps
<1>6. (\E g \in missing : Forget(g)) \/ (\E q \in Metered : Meter(q)) \/ UNCHANGED vars
        => req' = req /\ circuit' = circuit
  BY DEF Forget, Meter, vars
<1> QED
  BY <1>1, <1>2, <1>3, <1>4, <1>5, <1>6, AskSteps DEF Next

(***************************************************************************)
(* Whatever requests do side by side, the breaker of every provider is     *)
(* used as a circuit may be: every step is one of Circuit or leaves that   *)
(* breaker alone.                                                          *)
(***************************************************************************)
THEOREM BreakersUsedAsCircuits == Spec => BreakersAreCircuits
<1>1. Inv /\ [Next]_vars
        => [\A p \in Providers : Breaker(p)!Next \/ UNCHANGED Breaker(p)!vars]_vars
  BY NextSteps DEF Steps
<1> QED
  BY <1>1, Invariance, PTL DEF Spec, BreakersAreCircuits

----------------------------------------------------------------------------
(***************************************************************************)
(* Lease, for any numbers of callers.  The invariant adds to the           *)
(* properties what a test knows on its way to the lease: that nobody holds *)
(* the gate open beside it, and that a stream not yet counted looked for a *)
(* lease before its token was there, or cancelled it.                      *)
(***************************************************************************)
HIDE CascadeAssumption
USE LeaseAssumption

\* Past Settle no background work is left.
Quieted(t) == phase[t] \in {"closing", "holding"} =>
    \A r \in Others : phase[r] \in {"idle", "queued"}

\* A published token is the one in reach.
InReach(t) == phase[t] \in {"waiting", "closing", "holding"} => preempt = t

\* Streams on their way were early, or have cancelled the token.
Early(t) ==
    /\ phase[t] = "waiting" /\ t \notin cancelled =>
         \A s \in Streams : phase[s] = "admitting" => s \in early
    /\ phase[t] \in {"closing", "holding"} /\ t \notin cancelled =>
         \A s \in Streams : phase[s] \in {"admitting", "running"} => s \in early

LeaseInv ==
    /\ LeaseTypeOK
    /\ writer # NoTest => readers = {}
    /\ \A t \in Tests : Quieted(t) /\ InReach(t) /\ Early(t)

\* The kinds of callers are told apart.
LEMMA CallerKinds ==
    /\ \A s \in Streams : s \in LeaseRequests /\ s \in Callers /\ s \notin Others
                          /\ s \notin Warmers /\ s \notin Tests
    /\ \A o \in Others : o \in LeaseRequests /\ o \in Callers /\ o \notin Warmers /\ o \notin Tests
    /\ \A w \in Warmers : w \in Callers /\ w \notin LeaseRequests /\ w \notin Tests
    /\ \A t \in Tests : t \in Callers /\ t \notin LeaseRequests
    /\ \A r \in LeaseRequests : r \in Streams \/ r \in Others
BY DEF LeaseRequests, Callers

LEMMA LeaseInitInv == LeaseInit => LeaseInv
BY CallerKinds DEF LeaseInit, LeaseInv, LeaseTypeOK, Quieted, InReach, Early, Owners

\* Each action keeps the types.
LEMMA LeaseKeepsTypes ==
    ASSUME LeaseTypeOK, LeaseNext
    PROVE  LeaseTypeOK'
<1> USE CallerKinds DEF LeaseTypeOK, Move, Owners
<1>1. ASSUME NEW c \in Others \cup Tests, Join(c) \/ Unjoin(c) PROVE LeaseTypeOK'
  BY <1>1 DEF Join, Unjoin
<1>2. ASSUME NEW r \in LeaseRequests, Enter(r) PROVE LeaseTypeOK'
  BY <1>2 DEF Enter
<1>3. ASSUME NEW r \in LeaseRequests, CountRequest(r) PROVE LeaseTypeOK'
  BY <1>3 DEF CountRequest
<1>4. ASSUME NEW r \in LeaseRequests, Pass(r) PROVE LeaseTypeOK'
  BY <1>4 DEF Pass
<1>5. ASSUME NEW r \in LeaseRequests, Preempt(r) PROVE LeaseTypeOK'
  BY <1>5 DEF Preempt, Cancelled
<1>6. ASSUME NEW r \in LeaseRequests, AdmitStream(r) PROVE LeaseTypeOK'
  BY <1>6 DEF AdmitStream
<1>7. ASSUME NEW r \in LeaseRequests, FinishRequest(r) PROVE LeaseTypeOK'
  BY <1>7 DEF FinishRequest
<1>8. ASSUME NEW r \in LeaseRequests, Drained(r) PROVE LeaseTypeOK'
  BY <1>8 DEF Drained
<1>9. CASE Prewarm
  BY <1>9 DEF Prewarm, Cancelled
<1>10. ASSUME NEW w \in Warmers, Warm(w) PROVE LeaseTypeOK'
  BY <1>10 DEF Warm
<1>11. ASSUME NEW w \in Warmers, Warmed(w) PROVE LeaseTypeOK'
  BY <1>11 DEF Warmed
<1>12. ASSUME NEW t \in Tests, Own(t) PROVE LeaseTypeOK'
  BY <1>12 DEF Own
<1>13. ASSUME NEW t \in Tests, Publish(t) PROVE LeaseTypeOK'
  BY <1>13 DEF Publish
<1>14. ASSUME NEW t \in Tests, Settle(t) \/ GiveUpLease(t) \/ Take(t) \/ Return(t) PROVE LeaseTypeOK'
  BY <1>14 DEF Settle, GiveUpLease, Take, Return
<1>15. ASSUME NEW t \in Tests, Drop(t) PROVE LeaseTypeOK'
  BY <1>15 DEF Drop, DropOrder
<1> QED
  BY <1>1, <1>2, <1>3, <1>4, <1>5, <1>6, <1>7, <1>8, <1>9, <1>10, <1>11, <1>12, <1>13,
     <1>14, <1>15 DEF LeaseNext

\* Each action keeps the rest of the invariant.
LEMMA LeaseKeepsRest ==
    ASSUME LeaseInv, LeaseNext
    PROVE  /\ (writer # NoTest => readers = {})'
           /\ \A t \in Tests : Quieted(t)' /\ InReach(t)' /\ Early(t)'
<1> DEFINE Rest == /\ (writer # NoTest => readers = {})'
                   /\ \A t \in Tests : Quieted(t)' /\ InReach(t)' /\ Early(t)'
<1> USE CallerKinds DEF LeaseInv, LeaseTypeOK, Move, Owners, Quieted, InReach, Early
<1>1. ASSUME NEW c \in Others \cup Tests, Join(c) \/ Unjoin(c) PROVE Rest
  BY <1>1 DEF Join, Unjoin
<1>2. ASSUME NEW r \in LeaseRequests, Enter(r) PROVE Rest
  BY <1>2 DEF Enter
<1>3. ASSUME NEW r \in LeaseRequests, CountRequest(r) \/ Pass(r) PROVE Rest
  BY <1>3 DEF CountRequest, Pass
<1>4. ASSUME NEW r \in LeaseRequests, Preempt(r) PROVE Rest
  BY <1>4 DEF Preempt, Cancelled
<1>5. ASSUME NEW r \in LeaseRequests, AdmitStream(r) PROVE Rest
  BY <1>5 DEF AdmitStream
<1>6. ASSUME NEW r \in LeaseRequests, FinishRequest(r) \/ Drained(r) PROVE Rest
  BY <1>6 DEF FinishRequest, Drained
<1>7. ASSUME NEW r \in Warmers, Warm(r) \/ Warmed(r) PROVE Rest
  BY <1>7 DEF Warm, Warmed
<1>8. ASSUME NEW u \in Tests, Own(u) PROVE Rest
  BY <1>8 DEF Own
<1>9. ASSUME NEW u \in Tests, Publish(u) PROVE Rest
  BY <1>9 DEF Publish
<1>10. ASSUME NEW u \in Tests, Settle(u) PROVE Rest
  BY <1>10 DEF Settle, Quiet
<1>11. ASSUME NEW u \in Tests, GiveUpLease(u) \/ Take(u) \/ Return(u) PROVE Rest
  BY <1>11 DEF GiveUpLease, Take, Return
<1>12. ASSUME NEW u \in Tests, Drop(u) PROVE Rest
  BY <1>12 DEF Drop, DropOrder
<1>13. CASE Prewarm
  BY <1>13 DEF Prewarm, Cancelled
<1> QED
  BY <1>1, <1>2, <1>3, <1>4, <1>5, <1>6, <1>7, <1>8, <1>9, <1>10, <1>11, <1>12, <1>13 DEF LeaseNext

LEMMA LeaseNextInv == LeaseInv /\ [LeaseNext]_leaseVars => LeaseInv'
<1>1. ASSUME LeaseInv, LeaseNext PROVE LeaseInv'
  BY <1>1, LeaseKeepsTypes, LeaseKeepsRest DEF LeaseInv
<1>2. ASSUME LeaseInv, UNCHANGED leaseVars PROVE LeaseInv'
  BY <1>2 DEF leaseVars, LeaseInv, LeaseTypeOK, Quieted, InReach, Early
<1> QED
  BY <1>1, <1>2

THEOREM LeaseInvariance == LeaseSpec => []LeaseInv
BY LeaseInitInv, LeaseNextInv, PTL DEF LeaseSpec

(***************************************************************************)
(* The gate, the tokens and the count agree with where the callers are.    *)
(***************************************************************************)
THEOREM LeaseTypes == LeaseSpec => []LeaseTypeOK
<1>1. LeaseInv => LeaseTypeOK
  BY DEF LeaseInv
<1> QED
  BY <1>1, LeaseInvariance, PTL

(***************************************************************************)
(* A lease excludes background work, whatever ran or was dropped before it *)
(* was taken (`exclusive`, `admit`).                                       *)
(***************************************************************************)
THEOREM LeaseExcludes == LeaseSpec => []HeldAlone
<1>1. LeaseInv => HeldAlone
  <2> SUFFICES ASSUME LeaseInv, NEW t \in Tests, phase[t] = "holding" PROVE
        /\ \A r \in Others : phase[r] \in {"idle", "queued"}
        /\ \A w \in Warmers : phase[w] = "idle"
    BY DEF HeldAlone
  <2>1. writer = t /\ t # NoTest
    BY DEF LeaseInv, LeaseTypeOK, Owners
  <2>2. readers = {}
    BY <2>1 DEF LeaseInv
  <2> QED
    BY <2>2 DEF LeaseInv, Quieted, LeaseTypeOK
<1> QED
  BY <1>1, LeaseInvariance, PTL

(***************************************************************************)
(* Playback finds the token of any lease that is taken or held:            *)
(* `Lease::drop` clears it before the next one can be published.           *)
(***************************************************************************)
THEOREM TokenStaysInReach == LeaseSpec => []TokenInReach
<1>1. LeaseInv => TokenInReach
  BY DEF LeaseInv, InReach, TokenInReach
<1> QED
  BY <1>1, LeaseInvariance, PTL

(***************************************************************************)
(* The streams that run beside an uncancelled lease had all begun before   *)
(* its token was published.                                                *)
(***************************************************************************)
THEOREM OnlyEarlyStreams == LeaseSpec => []OnlyEarlyStreamsSlipBy
<1>1. LeaseInv => OnlyEarlyStreamsSlipBy
  BY DEF LeaseInv, Early, OnlyEarlyStreamsSlipBy
<1> QED
  BY <1>1, LeaseInvariance, PTL

(***************************************************************************)
(* While a test has its lease, background requests wait and playback       *)
(* cancels it (client.rs:57-58).                                           *)
(***************************************************************************)
THEOREM LeaseKept == LeaseSpec => []LeaseHolds
<1>1. LeaseHolds <=> HeldAlone /\ OnlyEarlyStreamsSlipBy
  BY DEF LeaseHolds
<1> QED
  BY <1>1, LeaseExcludes, OnlyEarlyStreams, PTL
===============================================================================
