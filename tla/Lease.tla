-------------------------------- MODULE Lease --------------------------------
(***************************************************************************)
(* Who may use the providers (nntp/src/client.rs): a provider test takes   *)
(* them for itself with `exclusive`, background requests wait at the gate  *)
(* meanwhile, and playback never waits but cancels the test's token.       *)
(*                                                                         *)
(* The gate is tokio's RwLock, which serves its callers in the order they  *)
(* came.  `preempt`, the tokens and the count of admitted requests are     *)
(* each guarded on their own, so every use of one is a step; a call of     *)
(* `exclusive` and its lease are one member of Tests.                      *)
(***************************************************************************)
EXTENDS Naturals, Sequences, FiniteSets, SequencesExt

CONSTANTS
    Streams,  \* playback requests
    Others,   \* background requests
    Warmers,  \* calls of `warm`
    Tests,    \* calls of `exclusive`, and the leases they return
    NoTest

ASSUME LeaseAssumption ==
    /\ Streams \cap (Others \cup Warmers \cup Tests) = {}
    /\ Others \cap (Warmers \cup Tests) = {}
    /\ Warmers \cap Tests = {}
    /\ NoTest \notin Streams \cup Others \cup Warmers \cup Tests

VARIABLES
    phase,      \* phase[c]: how far the call c is
    queue,      \* callers waiting for the gate, oldest first
    readers,    \* requests and warmers holding the gate open
    writer,     \* the test holding it shut, or None
    preempt,    \* the test whose token playback cancels, or None
    cancelled,  \* tests whose token is cancelled
    admitted,   \* requests counted as admitted
    early       \* history: streams already past `cancel_lease` when a test published

leaseVars == <<phase, queue, readers, writer, preempt, cancelled, admitted, early>>

LeaseRequests == Streams \cup Others
Callers == LeaseRequests \cup Warmers \cup Tests

(***************************************************************************)
(*   Requests  idle -> queued -> entered -> counted -> running             *)
(*             idle -> admitting -> running           (streams)            *)
(*             running -> draining      its caller left, its reply comes   *)
(*   Warmers   idle -> warming                                             *)
(*   Tests     idle -> queued -> owning -> waiting -> closing -> holding   *)
(*             -> dropping -> opening   the two steps of dropping a Lease  *)
(***************************************************************************)
LeaseInit ==
    /\ phase = [c \in Callers |-> "idle"]
    /\ queue = <<>>
    /\ readers = {}
    /\ writer = NoTest
    /\ preempt = NoTest
    /\ cancelled = {}
    /\ admitted = {}
    /\ early = {}

Move(c, from, to) == phase[c] = from /\ phase' = [phase EXCEPT ![c] = to]

----------------------------------------------------------------------------
\* A caller joins the queue at the gate.
Join(c) ==
    /\ c \in Others \cup Tests
    /\ Move(c, "idle", "queued")
    /\ queue' = Append(queue, c)
    /\ UNCHANGED <<readers, writer, preempt, cancelled, admitted, early>>

\* A caller's future is dropped while it queues.
Unjoin(c) ==
    /\ Move(c, "queued", "idle")
    /\ queue' = Remove(queue, c)
    /\ UNCHANGED <<readers, writer, preempt, cancelled, admitted, early>>

First(c) == queue # <<>> /\ Head(queue) = c

\* `admit`: a background request passes the gate,
Enter(r) ==
    /\ r \in Others /\ First(r) /\ writer = NoTest
    /\ Move(r, "queued", "entered")
    /\ queue' = Tail(queue)
    /\ readers' = readers \cup {r}
    /\ UNCHANGED <<writer, preempt, cancelled, admitted, early>>

\* is counted,
CountRequest(r) ==
    /\ Move(r, "entered", "counted")
    /\ admitted' = admitted \cup {r}
    /\ UNCHANGED <<queue, readers, writer, preempt, cancelled, early>>

\* and lets go of the gate.
Pass(r) ==
    /\ Move(r, "counted", "running")
    /\ readers' = readers \ {r}
    /\ UNCHANGED <<queue, writer, preempt, cancelled, admitted, early>>

\* `cancel_lease`
Cancelled == IF preempt = NoTest THEN cancelled ELSE cancelled \cup {preempt}

\* `admit`: a stream cancels the lease it finds,
Preempt(s) ==
    /\ s \in Streams
    /\ Move(s, "idle", "admitting")
    /\ cancelled' = Cancelled
    /\ UNCHANGED <<queue, readers, writer, preempt, admitted, early>>

\* and is counted.
AdmitStream(s) ==
    /\ Move(s, "admitting", "running")
    /\ admitted' = admitted \cup {s}
    /\ UNCHANGED <<queue, readers, writer, preempt, cancelled, early>>

\* `prewarm`, before a stream's first request, cancels the lease too.
Prewarm ==
    /\ cancelled' = Cancelled
    /\ UNCHANGED <<phase, queue, readers, writer, preempt, admitted, early>>

\* A request ends, or leaves a reply on its connection for the pool to read.
FinishRequest(r) ==
    /\ Move(r, "running", "idle") \/ Move(r, "running", "draining")
    /\ admitted' = admitted \ {r}
    /\ early' = early \ {r}
    /\ UNCHANGED <<queue, readers, writer, preempt, cancelled>>

\* The pool has read it.
Drained(r) ==
    /\ Move(r, "draining", "idle")
    /\ UNCHANGED <<queue, readers, writer, preempt, cancelled, admitted, early>>

\* `warm` only works where the gate is open at once, and keeps it open.
Warm(w) ==
    /\ w \in Warmers
    /\ writer = NoTest
    /\ \A i \in DOMAIN queue : queue[i] \notin Tests
    /\ Move(w, "idle", "warming")
    /\ readers' = readers \cup {w}
    /\ UNCHANGED <<queue, writer, preempt, cancelled, admitted, early>>

Warmed(w) ==
    /\ Move(w, "warming", "idle")
    /\ readers' = readers \ {w}
    /\ UNCHANGED <<queue, writer, preempt, cancelled, admitted, early>>

----------------------------------------------------------------------------
\* `exclusive` gets the gate, with a token of its own,
Own(t) ==
    /\ t \in Tests /\ First(t) /\ writer = NoTest /\ readers = {}
    /\ Move(t, "queued", "owning")
    /\ queue' = Tail(queue)
    /\ writer' = t
    /\ cancelled' = cancelled \ {t}
    /\ UNCHANGED <<readers, preempt, admitted, early>>

\* publishes its token,
Publish(t) ==
    /\ Move(t, "owning", "waiting")
    /\ preempt' = t
    /\ early' = {s \in Streams : phase[s] = "admitting"}
    /\ UNCHANGED <<queue, readers, writer, cancelled, admitted>>

\* no request is admitted, and no pool busy: a pool is busy with the requests
\* that run and the replies it reads for nobody.
Quiet == admitted = {} /\ \A r \in LeaseRequests : phase[r] # "draining"

\* waits until the providers are quiet,
Settle(t) ==
    /\ Quiet
    /\ Move(t, "waiting", "closing")
    /\ UNCHANGED <<queue, readers, writer, preempt, cancelled, admitted, early>>

\* Mutant of GiveUpLease: it waits for ever.
GiveUpLease_Never(t) == FALSE /\ UNCHANGED leaseVars

\* or gives up: its token is cancelled, or the deadline comes, or it is dropped.
GiveUpLease(t) ==
    /\ Move(t, "waiting", "dropping") \/ Move(t, "closing", "dropping")
    /\ UNCHANGED <<queue, readers, writer, preempt, cancelled, admitted, early>>

\* closes the idle connections, and looks at its token once more.
Take(t) ==
    /\ IF t \in cancelled THEN Move(t, "closing", "dropping")
                          ELSE Move(t, "closing", "holding")
    /\ UNCHANGED <<queue, readers, writer, preempt, cancelled, admitted, early>>

\* The test is over, by itself or because its token is cancelled.
Return(t) ==
    /\ Move(t, "holding", "dropping")
    /\ UNCHANGED <<queue, readers, writer, preempt, cancelled, admitted, early>>

\* Mutant of DropOrder: the fields go before Drop::drop runs.
DropOrder_FieldsFirst == <<"gate", "token">>

\* Lease::drop takes the token away, then its field, the guard, opens the gate.
DropOrder == <<"token", "gate">>

\* One of the two steps of dropping a lease.
Drop(t) ==
    \E i \in 1 .. 2 :
        /\ IF i = 1 THEN Move(t, "dropping", "opening") ELSE Move(t, "opening", "idle")
        /\ preempt' = IF DropOrder[i] = "token" THEN NoTest ELSE preempt
        /\ writer' = IF DropOrder[i] = "gate" THEN NoTest ELSE writer
        /\ UNCHANGED <<queue, readers, cancelled, admitted, early>>

LeaseNext ==
    \/ \E c \in Others \cup Tests : Join(c) \/ Unjoin(c)
    \/ \E r \in LeaseRequests :
         \/ Enter(r) \/ CountRequest(r) \/ Pass(r)
         \/ Preempt(r) \/ AdmitStream(r)
         \/ FinishRequest(r) \/ Drained(r)
    \/ Prewarm
    \/ \E w \in Warmers : Warm(w) \/ Warmed(w)
    \/ \E t \in Tests :
         \/ Own(t) \/ Publish(t) \/ Settle(t) \/ GiveUpLease(t) \/ Take(t)
         \/ Return(t) \/ Drop(t)

LeaseSpec == LeaseInit /\ [][LeaseNext]_leaseVars

(***************************************************************************)
(* Requests, warming and a test's measurement all time out; `exclusive`    *)
(* polls, and its deadline comes.  Nobody has to ask, and playback may go  *)
(* on for ever.                                                            *)
(***************************************************************************)
LeaseFairness ==
    /\ \A r \in LeaseRequests : WF_leaseVars(Enter(r) \/ CountRequest(r) \/ Pass(r))
                           /\ WF_leaseVars(AdmitStream(r) \/ FinishRequest(r) \/ Drained(r))
    /\ \A w \in Warmers : WF_leaseVars(Warmed(w))
    /\ \A t \in Tests :
         /\ WF_leaseVars(Own(t) \/ Publish(t) \/ Take(t) \/ Return(t) \/ Drop(t))
         /\ WF_leaseVars(Settle(t) \/ GiveUpLease(t))

FairLeaseSpec == LeaseSpec /\ LeaseFairness

----------------------------------------------------------------------------
Owners == {"owning", "waiting", "closing", "holding", "dropping", "opening"}

LeaseTypeOK ==
    /\ DOMAIN phase = Callers
    /\ \A s \in Streams : phase[s] \in {"idle", "admitting", "running", "draining"}
    /\ \A r \in Others :
         phase[r] \in {"idle", "queued", "entered", "counted", "running", "draining"}
    /\ \A w \in Warmers : phase[w] \in {"idle", "warming"}
    /\ \A t \in Tests : phase[t] \in {"idle", "queued"} \cup Owners
    /\ readers = {r \in Others : phase[r] \in {"entered", "counted"}}
                   \cup {w \in Warmers : phase[w] = "warming"}
    /\ \A t \in Tests : phase[t] \in Owners <=> writer = t
    /\ writer \in Tests \cup {NoTest} /\ preempt \in Tests \cup {NoTest}
    /\ cancelled \subseteq Tests
    /\ admitted = {r \in LeaseRequests : phase[r] \in {"counted", "running"}}
    /\ early \subseteq Streams

(***************************************************************************)
(* While a lease is held no background request is on the providers: none   *)
(* runs, none has passed the gate without being counted yet, no reply is   *)
(* still read for one that was dropped, and nothing is being warmed.       *)
(***************************************************************************)
HeldAlone ==
    (\E t \in Tests : phase[t] = "holding") =>
        /\ \A r \in Others : phase[r] \in {"idle", "queued"}
        /\ \A w \in Warmers : phase[w] = "idle"

(***************************************************************************)
(* From the moment it starts waiting until it is dropped, a test's token   *)
(* is the one playback cancels; the test before it cannot take it away.    *)
(***************************************************************************)
TokenInReach ==
    \A t \in Tests : phase[t] \in {"waiting", "closing", "holding"} => preempt = t

(***************************************************************************)
(* "Playback cancels `token`" (client.rs:58): the only streams that run    *)
(* beside a lease whose token stays uncancelled are those that had looked  *)
(* for a lease before this one published its token and were counted after  *)
(* it had looked for them.                                                 *)
(***************************************************************************)
OnlyEarlyStreamsSlipBy ==
    \A t \in Tests : phase[t] = "holding" /\ t \notin cancelled =>
        \A s \in Streams : phase[s] \in {"admitting", "running"} => s \in early

\* A lease has the providers to itself, but for playback that its token lets in.
LeaseHolds == HeldAlone /\ OnlyEarlyStreamsSlipBy

(***************************************************************************)
(* No test keeps background work out for good, however much playback goes  *)
(* on: whoever waits at the gate gets through, or leaves.                  *)
(***************************************************************************)
GateOpensAgain ==
    \A c \in Others \cup Tests : phase[c] = "queued" ~> phase[c] # "queued"
=============================================================================
