------------------------------ MODULE Downloads ------------------------------
(***************************************************************************)
(* The request slots every provider pool shares (nntp/src/downloads.rs).   *)
(* A call to `acquire` takes some of Total slots, or waits in one of two   *)
(* lanes: urgent (playback) or background (imports, health checks).  A     *)
(* caller that gives up only drops its receiver, so its entry stays in the *)
(* lane, closed, until a `release` meets it.  `release` unlocks between    *)
(* taking a waiter from its lane and sending it the permit; the waiter may *)
(* leave in between, and other calls may run.                              *)
(*                                                                         *)
(* A member of Requests names one call of `acquire`, the permit it gets    *)
(* and the `release` that dropping the permit runs.  The name is used for  *)
(* another call once nothing refers to it any more.                        *)
(***************************************************************************)
EXTENDS Naturals, Sequences, FiniteSets

CONSTANTS
    Requests,   \* the calls of `acquire`
    Urgent,     \* those made with `urgent`, i.e. for playback
    Asked,      \* Asked[r]: the weight the caller of r asks for
    Total,      \* how many slots there are
    SweepAt,    \* lane lengths at which `acquire` sweeps closed waiters
    None        \* no request

ASSUME DownloadsAssumption ==
    /\ Urgent \subseteq Requests
    /\ Asked \in [Requests -> Nat]
    /\ Total \in Nat \ {0}
    /\ SweepAt \subseteq Nat
    /\ None \notin Requests
    /\ IsFiniteSet(Requests)

VARIABLES
    free,        \* slots nobody holds
    urgent,      \* the lane of playback waiters, oldest first
    background,  \* the lane of the other waiters, oldest first
    call,        \* call[r]: how far the call has come
    slots,       \* slots[r]: slots the permit, or the running release, has in hand
    target       \* target[r]: the waiter the release of r is sending a permit to

vars == <<free, urgent, background, call, slots, target>>

(***************************************************************************)
(*   waiting    its receiver is alive; it is in a lane or being sent to    *)
(*   left       its receiver is gone, an entry or a permit still names it  *)
(*   granted    it has the permit                                          *)
(*   returning  `release` is about to lock, with slots[r] to give back     *)
(*   sending    `release` has unlocked and is sending target[r] a permit   *)
(***************************************************************************)
Phases == {"idle", "waiting", "left", "granted", "returning", "sending"}

Weight(r) == IF Asked[r] < 1 THEN 1 ELSE IF Asked[r] > Total THEN Total ELSE Asked[r]

\* Mutant of Queued: a background call only looks at its own lane.
Queued_OwnLane(r) == IF r \in Urgent THEN urgent # <<>> ELSE background # <<>>

\* `queued` in `acquire` and `can_acquire`.
Queued(r) == urgent # <<>> \/ (r \notin Urgent /\ background # <<>>)

\* `can_acquire`: would `acquire` admit r at once?
CanAcquire(r) == ~Queued(r) /\ free >= Weight(r)

Init ==
    /\ free = Total
    /\ urgent = <<>>
    /\ background = <<>>
    /\ call = [r \in Requests |-> "idle"]
    /\ slots = [r \in Requests |-> 0]
    /\ target = [r \in Requests |-> None]

----------------------------------------------------------------------------
Closed(r) == call[r] = "left"

\* The lane without the waiters that gave up, swept when it has grown.
Swept(lane) ==
    LET kept[i \in 0 .. Len(lane)] ==
            IF i = 0 THEN <<>>
            ELSE IF Closed(lane[i]) THEN kept[i - 1]
            ELSE Append(kept[i - 1], lane[i])
    IN  IF Len(lane) \in SweepAt THEN kept[Len(lane)] ELSE lane

InLane(r, lane) == \E i \in DOMAIN lane : lane[i] = r

\* How many waiters at the front of the lane have given up.
ClosedFront(lane) ==
    CHOOSE k \in 0 .. Len(lane) :
        /\ \A i \in 1 .. k : Closed(lane[i])
        /\ k < Len(lane) => ~Closed(lane[k + 1])

DropClosed(lane) == SubSeq(lane, ClosedFront(lane) + 1, Len(lane))

\* The closed calls that neither of the two lanes names any more are over.
Forget(was, u, b) ==
    [r \in Requests |->
        IF /\ was[r] = "left"
           /\ InLane(r, urgent) \/ InLane(r, background)
           /\ ~InLane(r, u) /\ ~InLane(r, b)
        THEN "idle" ELSE was[r]]

----------------------------------------------------------------------------
\* `acquire` finds enough free slots and nobody ahead.
AcquireNow(r) ==
    /\ call[r] = "idle"
    /\ CanAcquire(r)
    /\ free' = free - Weight(r)
    /\ call' = [call EXCEPT ![r] = "granted"]
    /\ slots' = [slots EXCEPT ![r] = Weight(r)]
    /\ UNCHANGED <<urgent, background, target>>

\* `acquire` joins its lane, sweeping it first when it is long.
AcquireWait(r) ==
    /\ call[r] = "idle"
    /\ ~CanAcquire(r)
    /\ urgent' = IF r \in Urgent THEN Append(Swept(urgent), r) ELSE urgent
    /\ background' = IF r \in Urgent THEN background ELSE Append(Swept(background), r)
    /\ call' = [Forget(call, urgent', background') EXCEPT ![r] = "waiting"]
    /\ UNCHANGED <<free, slots, target>>

\* The future of `acquire` is dropped while it waits: its receiver closes.
Leave(r) ==
    /\ call[r] = "waiting"
    /\ call' = [call EXCEPT ![r] = "left"]
    /\ UNCHANGED <<free, urgent, background, slots, target>>

\* The permit is dropped, by its holder or with the receiver it was sent to.
DropPermit(r) ==
    /\ call[r] = "granted"
    /\ call' = [call EXCEPT ![r] = "returning"]
    /\ UNCHANGED <<free, urgent, background, slots, target>>

\* What `release` sees once it has the lock and dropped the closed fronts.
Freed(r) == free + slots[r]

\* Mutant of NextLane: the background lane is served first.
NextLane_BackgroundFirst(u, b) == IF b = <<>> THEN u ELSE b
NextLane(u, b) == IF u = <<>> THEN b ELSE u

Fits(r, u, b) ==
    /\ NextLane(u, b) # <<>>
    /\ Weight(Head(NextLane(u, b))) <= Freed(r)

\* `release` takes the next waiter's slots and unlocks to send its permit.
HandOn(r) ==
    LET u == DropClosed(urgent)
        b == DropClosed(background)
        next == Head(NextLane(u, b))
    IN  /\ call[r] = "returning"
        /\ Fits(r, u, b)
        /\ free' = Freed(r) - Weight(next)
        /\ urgent' = IF u = <<>> THEN u ELSE Tail(u)
        /\ background' = IF u = <<>> THEN Tail(b) ELSE b
        /\ call' = [Forget(call, u, b) EXCEPT ![r] = "sending"]
        /\ slots' = [slots EXCEPT ![r] = Weight(next)]
        /\ target' = [target EXCEPT ![r] = next]

\* Nobody fits: `release` returns.
EndRelease(r) ==
    LET u == DropClosed(urgent)
        b == DropClosed(background)
    IN  /\ call[r] = "returning"
        /\ ~Fits(r, u, b)
        /\ free' = Freed(r)
        /\ urgent' = u
        /\ background' = b
        /\ call' = [Forget(call, u, b) EXCEPT ![r] = "idle"]
        /\ slots' = [slots EXCEPT ![r] = 0]
        /\ UNCHANGED target

\* The send succeeds: the waiter has its permit, and `release` goes round again.
SendOk(r) ==
    /\ call[r] = "sending"
    /\ call[target[r]] = "waiting"
    /\ call' = [call EXCEPT ![target[r]] = "granted", ![r] = "returning"]
    /\ slots' = [slots EXCEPT ![target[r]] = slots[r], ![r] = 0]
    /\ target' = [target EXCEPT ![r] = None]
    /\ UNCHANGED <<free, urgent, background>>

\* Mutant of SendFailed: the slots of the waiter that left are only put back, and the
\* loop ends.
SendFailed_Stops(r) ==
    /\ call[r] = "sending"
    /\ Closed(target[r])
    /\ free' = free + slots[r]
    /\ call' = [call EXCEPT ![target[r]] = "idle", ![r] = "idle"]
    /\ slots' = [slots EXCEPT ![r] = 0]
    /\ target' = [target EXCEPT ![r] = None]
    /\ UNCHANGED <<urgent, background>>

\* That waiter left meanwhile: its slots go back into the loop.
SendFailed(r) ==
    /\ call[r] = "sending"
    /\ Closed(target[r])
    /\ call' = [call EXCEPT ![target[r]] = "idle", ![r] = "returning"]
    /\ target' = [target EXCEPT ![r] = None]
    /\ UNCHANGED <<free, urgent, background, slots>>

Next ==
    \E r \in Requests :
        \/ AcquireNow(r)
        \/ AcquireWait(r)
        \/ Leave(r)
        \/ DropPermit(r)
        \/ HandOn(r)
        \/ EndRelease(r)
        \/ SendOk(r)
        \/ SendFailed(r)

Spec == Init /\ [][Next]_vars

(***************************************************************************)
(* A permit covers one bounded request (it times out), and `release` never *)
(* blocks; nobody has to ask or to leave.                                  *)
(***************************************************************************)
Fairness ==
    \A r \in Requests :
        /\ WF_vars(DropPermit(r))
        /\ WF_vars(HandOn(r) \/ EndRelease(r))
        /\ WF_vars(SendOk(r) \/ SendFailed(r))

FairSpec == Spec /\ Fairness

----------------------------------------------------------------------------
TypeOK ==
    /\ free \in 0 .. Total
    /\ urgent \in Seq(Urgent)
    /\ background \in Seq(Requests \ Urgent)
    /\ call \in [Requests -> Phases]
    /\ slots \in [Requests -> 0 .. Total]
    /\ target \in [Requests -> Requests \cup {None}]

\* One pair for each slot some permit or release has in hand.
Taken == {s \in Requests \X (1 .. Total) : s[2] <= slots[s[1]]}

(***************************************************************************)
(* No slot is ever lost or made up: what is free and what permits and      *)
(* running releases hold add up to Total, whoever leaves and whenever      *)
(* (the "no slot leaked" assertions of the unit tests, for every schedule).*)
(***************************************************************************)
Conservation == free + Cardinality(Taken) = Total

(***************************************************************************)
(* Nobody waits for a wake-up that will not come: `acquire` queues behind  *)
(* any entry, closed ones included, and only a `release` takes entries     *)
(* out; so while a lane has an entry somebody must still hold slots or be  *)
(* inside `release`.  Not that slots are never idle: one behind a heavier  *)
(* waiter that left waits for the next `release`, though it would fit.     *)
(***************************************************************************)
NoStrandedWaiter ==
    (\E r \in Requests : call[r] = "waiting") =>
        \E r \in Requests : call[r] \in {"granted", "returning", "sending"}

\* Slots are committed to r in this step.
Commits(r) ==
    \/ call[r] = "idle" /\ call'[r] = "granted"
    \/ \E s \in Requests : target[s] # r /\ target'[s] = r

(***************************************************************************)
(* "A freed slot goes to the oldest waiting playback request before any    *)
(* background request": slots are never committed to a background call     *)
(* while a playback call that is still there waits in its lane.            *)
(***************************************************************************)
PlaybackFirst ==
    [][\A r \in Requests \ Urgent :
         Commits(r) => \A u \in Urgent : InLane(u, urgent) => Closed(u)]_vars

OwnLane(r) == IF r \in Urgent THEN urgent ELSE background

\* w waits in the lane, and r is behind it or not there at all.
Ahead(w, r, lane) ==
    /\ InLane(w, lane)
    /\ InLane(r, lane) => \E i, j \in DOMAIN lane : i < j /\ lane[i] = w /\ lane[j] = r

(***************************************************************************)
(* "Each lane strictly in order": slots committed to r overtake nobody who *)
(* is still waiting in r's lane, however light r is.                       *)
(***************************************************************************)
NoOvertaking ==
    [][\A r, w \in Requests :
         (Commits(r) /\ w # r /\ Ahead(w, r, OwnLane(r))) => Closed(w)]_vars

\* Calls are admitted in turn: playback first, and each lane in order.
InTurn == PlaybackFirst /\ NoOvertaking

\* Every playback call that waits is granted its slots, or gives up.
PlaybackServed ==
    \A r \in Urgent : call[r] = "waiting" ~> call[r] # "waiting"

\* A background call that waits is served once playback pauses for good.
BackgroundServed ==
    <>[](\A u \in Urgent : call[u] = "idle") =>
        \A r \in Requests \ Urgent : call[r] = "waiting" ~> call[r] # "waiting"

\* Whoever waits is served, playback at once and background calls in its pauses.
WaitersServed == PlaybackServed /\ BackgroundServed
=============================================================================
