---------------------------- MODULE SingleFlight ----------------------------
(***************************************************************************)
(* How readers of one article share its fetch (stream/src/cache.rs).  The  *)
(* map of flights holds weak references: a flight lives as long as readers *)
(* hold it, and whichever of them is polled drives it.  Its Landing takes  *)
(* it out of the map when its fetch ends or the last reader goes, but the  *)
(* reference is dead before the Landing has the lock, so another reader    *)
(* may have put a newer flight there meanwhile: hence the generations.     *)
(*                                                                         *)
(* Articles do not affect each other, so this is about one.  A generation  *)
(* is a name for a flight, used again once nothing refers to it.           *)
(***************************************************************************)
EXTENDS Naturals, FiniteSets

CONSTANTS
    Callers,  \* of `body`, for a reader each
    Flights,  \* generations
    NoFlight

ASSUME SingleFlightAssumption == NoFlight \notin Flights

VARIABLES
    memory,    \* whether the memory tier has the body
    disk,      \* whether the disk tier has it
    inflight,  \* the flight the map has for the article, or None
    flight,    \* flight[g]: how far the flight is
    call,      \* call[r]: how far the call of `body` is
    on         \* on[r]: the flight r holds, or None

flightVars == <<memory, disk, inflight, flight, call, on>>

(***************************************************************************)
(*   gone      nothing refers to it                                        *)
(*   looking   reading the disk tier                                       *)
(*   fetching  from the providers                                          *)
(*   ended     the result is there, the Landing still                      *)
(*   landed    the result is there for the readers that hold the flight    *)
(*   dropping  the last reader has gone, the Landing is being dropped      *)
(***************************************************************************)
Stages == {"gone", "looking", "fetching", "ended", "landed", "dropping"}

FlightInit ==
    /\ memory = FALSE
    /\ disk \in BOOLEAN
    /\ inflight = NoFlight
    /\ flight = [g \in Flights |-> "gone"]
    /\ call = [r \in Callers |-> "idle"]
    /\ on = [r \in Callers |-> NoFlight]

Holders(g) == {r \in Callers : on[r] = g}

\* Mutant of Alive: every entry of the map is taken for a flight one can join.
Alive_Named(g) == g # NoFlight

\* Whether a weak reference to the flight can be upgraded.
Alive(g) == g # NoFlight /\ Holders(g) # {}

----------------------------------------------------------------------------
\* `body` does not find the article in memory.
Miss(r) ==
    /\ call[r] = "idle"
    /\ ~memory
    /\ call' = [call EXCEPT ![r] = "missed"]
    /\ UNCHANGED <<memory, disk, inflight, flight, on>>

\* `flight` finds one in flight,
Join(r) ==
    /\ call[r] = "missed"
    /\ Alive(inflight)
    /\ call' = [call EXCEPT ![r] = "waiting"]
    /\ on' = [on EXCEPT ![r] = inflight]
    /\ UNCHANGED <<memory, disk, inflight, flight>>

\* Mutant of Lead: a dead reference in the map keeps a new flight out of it.
Lead_KeepsEntry(r, g) ==
    /\ call[r] = "missed"
    /\ ~Alive(inflight)
    /\ flight[g] = "gone"
    /\ inflight' = IF inflight = NoFlight THEN g ELSE inflight
    /\ flight' = [flight EXCEPT ![g] = "looking"]
    /\ call' = [call EXCEPT ![r] = "waiting"]
    /\ on' = [on EXCEPT ![r] = g]
    /\ UNCHANGED <<memory, disk>>

\* or none, or one that is already dead, and starts its own.
Lead(r, g) ==
    /\ call[r] = "missed"
    /\ ~Alive(inflight)
    /\ flight[g] = "gone"
    /\ inflight' = g
    /\ flight' = [flight EXCEPT ![g] = "looking"]
    /\ call' = [call EXCEPT ![r] = "waiting"]
    /\ on' = [on EXCEPT ![r] = g]
    /\ UNCHANGED <<memory, disk>>

\* The flight finds the body on disk; memory keeps it, if it is on and has room.
DiskHit(g) ==
    /\ flight[g] = "looking"
    /\ disk
    /\ flight' = [flight EXCEPT ![g] = "ended"]
    /\ memory' \in {memory, TRUE}
    /\ UNCHANGED <<disk, inflight, call, on>>

DiskMiss(g) ==
    /\ flight[g] = "looking"
    /\ ~disk
    /\ flight' = [flight EXCEPT ![g] = "fetching"]
    /\ UNCHANGED <<memory, disk, inflight, call, on>>

\* `direct` gets the body, and offers it to the tiers, or an error.
Fetched(g) ==
    /\ flight[g] = "fetching"
    /\ flight' = [flight EXCEPT ![g] = "ended"]
    /\ memory' \in {memory, TRUE}
    /\ disk' \in {disk, TRUE}
    /\ UNCHANGED <<inflight, call, on>>

\* What Landing::drop leaves in the map: only its own flight is taken out.
WithoutLanding(g) == IF inflight = g THEN NoFlight ELSE inflight

\* The fetch has ended: its Landing is dropped before anyone sees the result.
Land(g) ==
    /\ flight[g] = "ended"
    /\ flight' = [flight EXCEPT ![g] = "landed"]
    /\ inflight' = WithoutLanding(g)
    /\ UNCHANGED <<memory, disk, call, on>>

\* A reader takes the result, or leaves it; the last one frees the flight.
Take(r) ==
    /\ call[r] = "waiting"
    /\ flight[on[r]] = "landed"
    /\ call' = [call EXCEPT ![r] = "idle"]
    /\ on' = [on EXCEPT ![r] = NoFlight]
    /\ flight' = IF Holders(on[r]) = {r} THEN [flight EXCEPT ![on[r]] = "gone"] ELSE flight
    /\ UNCHANGED <<memory, disk, inflight>>

(***************************************************************************)
(* A reader gives up while the flight awaits its disk or its provider; the *)
(* last one takes the flight, and its request, with it.  From the end of   *)
(* the fetch to its landing there is no await: the reader that drives the  *)
(* flight stays.                                                           *)
(***************************************************************************)
Abandon(r) ==
    /\ call[r] = "waiting"
    /\ \/ flight[on[r]] \in {"looking", "fetching"}
       \/ flight[on[r]] = "ended" /\ Holders(on[r]) # {r}
    /\ call' = [call EXCEPT ![r] = "idle"]
    /\ on' = [on EXCEPT ![r] = NoFlight]
    /\ flight' = IF Holders(on[r]) = {r} THEN [flight EXCEPT ![on[r]] = "dropping"] ELSE flight
    /\ UNCHANGED <<memory, disk, inflight>>

\* The Landing of a flight without readers gets the lock.
DropLanding(g) ==
    /\ flight[g] = "dropping"
    /\ flight' = [flight EXCEPT ![g] = "gone"]
    /\ inflight' = WithoutLanding(g)
    /\ UNCHANGED <<memory, disk, call, on>>

\* A hedge or a prefetched body is kept, outside any flight.
Insert ==
    /\ memory' = TRUE
    /\ disk' \in {disk, TRUE}
    /\ UNCHANGED <<inflight, flight, call, on>>

\* A tier evicts the body, or is switched off.
Evict ==
    /\ \/ memory' = FALSE /\ UNCHANGED disk
       \/ disk' = FALSE /\ UNCHANGED memory
    /\ UNCHANGED <<inflight, flight, call, on>>

FlightNext ==
    \/ \E r \in Callers :
         \/ Miss(r) \/ Join(r) \/ Take(r) \/ Abandon(r)
         \/ \E g \in Flights : Lead(r, g)
    \/ \E g \in Flights :
         DiskHit(g) \/ DiskMiss(g) \/ Fetched(g) \/ Land(g) \/ DropLanding(g)
    \/ Insert
    \/ Evict

FlightSpec == FlightInit /\ [][FlightNext]_flightVars

(***************************************************************************)
(* Disk reads and requests time out, drops run to their end, and a reader  *)
(* that waits on a result is woken with it.  Nobody has to leave.          *)
(***************************************************************************)
FlightFairness ==
    /\ \A g \in Flights : WF_flightVars(DiskHit(g) \/ DiskMiss(g) \/ Fetched(g) \/ Land(g))
                          /\ WF_flightVars(DropLanding(g))
    /\ \A r \in Callers : WF_flightVars(Take(r))

FairFlightSpec == FlightSpec /\ FlightFairness

----------------------------------------------------------------------------
Busy == {"looking", "fetching", "ended"}

FlightTypeOK ==
    /\ {memory, disk} \subseteq BOOLEAN
    /\ inflight \in Flights \cup {NoFlight}
    /\ flight \in [Flights -> Stages]
    /\ call \in [Callers -> {"idle", "missed", "waiting"}]
    /\ on \in [Callers -> Flights \cup {NoFlight}]
    /\ \A r \in Callers : call[r] = "waiting" <=> on[r] # NoFlight

(***************************************************************************)
(* The map never names a flight that is over for good, and names every     *)
(* flight that readers could still join: an entry left behind would pile   *)
(* up, one taken too early makes readers fetch what is already coming.     *)
(***************************************************************************)
MapIsCurrent ==
    \A g \in Flights :
        /\ inflight = g => flight[g] \in Busy \cup {"dropping"}
        /\ flight[g] \in Busy => inflight = g

(***************************************************************************)
(* No fetch goes on that no reader waits for ("a fetch every reader        *)
(* abandoned is dropped"), and no reader waits on a flight that is not     *)
(* driven any more.                                                        *)
(***************************************************************************)
WantedOnly ==
    \A g \in Flights : flight[g] \in Busy \cup {"landed"} <=> Holders(g) # {}

\* Readers see a shared fetch: those on a busy flight share it, those on a landed
\* one are served.
OnStage(stages) == {r \in Callers : on[r] # NoFlight /\ flight[on[r]] \in stages}

Promise == INSTANCE SharedFetch
    WITH Readers <- Callers, sharing <- OnStage(Busy), served <- OnStage({"landed"})

(***************************************************************************)
(* Never two fetches of an article at once, whatever readers come and go   *)
(* while flights end and are dropped.                                      *)
(***************************************************************************)
IsShared == Promise!Spec

\* A reader that waits on a flight gets its result, or leaves.
ReadersServed == \A r \in Callers : call[r] = "waiting" ~> call[r] = "idle"
=============================================================================
