------------------------------- MODULE Cascade -------------------------------
(***************************************************************************)
(* `Client::request` (nntp/src/client.rs): one article asked of provider   *)
(* after provider until one delivers it, with the circuit breaker of each  *)
(* provider (Circuit), the used-up quotas, and the memory of articles a    *)
(* backbone recently answered as missing (nntp/src/missing.rs), which all  *)
(* requests share.  Requests for one article run side by side, and each is *)
(* awaited, and may be cancelled, at the fetch.                            *)
(*                                                                         *)
(* The code takes two things as given, and so does the model: providers of *)
(* one backbone store the same articles, and a copy that decodes badly is  *)
(* stored badly.  `store` is what the backbones really have.               *)
(***************************************************************************)
EXTENDS Naturals, FiniteSets

CONSTANTS
    Requests,   \* requests for the article
    Stats,      \* those that only ask whether it is there (STAT)
    Providers,
    Backbone,   \* Backbone[p]: the backbone of p, or None
    Priority,   \* Priority[p]: lower levels are asked first
    Metered,    \* the providers with a quota
    None

Group(p) == IF Backbone[p] = None THEN p ELSE Backbone[p]
Groups == {Group(p) : p \in Providers}

ASSUME CascadeAssumption ==
    /\ Stats \subseteq Requests
    /\ IsFiniteSet(Providers) /\ Providers # {}
    /\ Priority \in [Providers -> Nat]
    /\ Metered \subseteq Providers
    /\ None \notin Providers
    /\ \A p, q \in Providers : Group(p) = Group(q) => Backbone[p] = Backbone[q]

VARIABLES
    store,      \* store[g]: the copy the providers of g have
    exhausted,  \* providers whose quota is used up
    missing,    \* groups remembered as lacking the article
    circuit,    \* circuit[p]: the breaker of p
    req         \* req[r]: the locals of a request

vars == <<store, exhausted, missing, circuit, req>>

\* The attempt r has in flight at p, if any.
AttemptAt(r, p) == IF req[r].at = p THEN req[r].attempt ELSE "none"

\* The breaker of p, as its requests see it.
Breaker(p) ==
    INSTANCE Circuit WITH Attempts <- Requests,
                          circuit <- circuit[p],
                          attempt <- [r \in Requests |-> AttemptAt(r, p)]

Copies == {"intact", "corrupt", "absent"}

\* The locals of `request` before its first provider.
Fresh ==
    [phase |-> "idle", order |-> None, left |-> {}, force |-> FALSE,
     attempted |-> FALSE, skipped |-> FALSE, failed |-> FALSE, missed |-> {},
     error |-> "none", at |-> None, attempt |-> "none", result |-> "none",
     turned |-> {}, reached |-> {}]
\* `turned` and `reached` are history: the providers that were skipped or failed,
\* and those a request was sent to.

Init ==
    /\ store \in [Groups -> Copies]
    /\ exhausted = {}
    /\ missing = {}
    /\ circuit = [p \in Providers |-> "closed"]
    /\ req = [r \in Requests |-> Fresh]

----------------------------------------------------------------------------
(***************************************************************************)
(* `preference`: the level, then providers due for a probe, then healthy   *)
(* ones, then open ones.  How busy a pool is decides between equals, so    *)
(* here anything may.                                                      *)
(***************************************************************************)
Standing(p, due) ==
    IF p \in due THEN 0 ELSE IF circuit[p] = "closed" THEN 1 ELSE 2

Before(p, q, due) ==
    \/ Priority[p] < Priority[q]
    \/ Priority[p] = Priority[q] /\ Standing(p, due) < Standing(q, due)

Orders(due) ==
    {o \in [Providers -> 1 .. Cardinality(Providers)] :
        \A p, q \in Providers :
            p # q => o[p] # o[q] /\ (Before(p, q, due) => o[p] < o[q])}

\* A new request reads the providers' standing and begins its first pass.
Start(r) ==
    /\ req[r].phase \in {"idle", "done"}
    /\ \E due \in SUBSET {p \in Providers : circuit[p] = "open"} :
         \E order \in Orders(due) :
           req' = [req EXCEPT ![r] = [Fresh EXCEPT !.phase = "walking",
                                                   !.order = order,
                                                   !.left = Providers]]
    /\ UNCHANGED <<store, exhausted, missing, circuit>>

\* p is the provider the walk of r is at.
AtProvider(r, p) ==
    /\ req[r].phase = "walking"
    /\ p \in req[r].left
    /\ \A q \in req[r].left : req[r].order[p] <= req[r].order[q]

\* `missed.extend(backbone)`
Missed(r, p) == req[r].missed \cup ({Backbone[p]} \ {None})

SiblingMissed(r, p) == Backbone[p] # None /\ Backbone[p] \in req[r].missed

\* Its backbone has missed already.
PassSibling(r, p) ==
    /\ AtProvider(r, p)
    /\ SiblingMissed(r, p)
    /\ req' = [req EXCEPT ![r].left = @ \ {p}]
    /\ UNCHANGED <<store, exhausted, missing, circuit>>

\* Its quota is used up, whether or not this pass is forced.
SkipExhausted(r, p) ==
    /\ AtProvider(r, p)
    /\ ~SiblingMissed(r, p)
    /\ p \in exhausted
    /\ req' = [req EXCEPT ![r].left = @ \ {p}, ![r].skipped = TRUE,
                          ![r].turned = @ \cup {p}]
    /\ UNCHANGED <<store, exhausted, missing, circuit>>

\* It is known to lack the article.
PassMissing(r, p) ==
    /\ AtProvider(r, p)
    /\ ~SiblingMissed(r, p)
    /\ p \notin exhausted
    /\ Group(p) \in missing
    /\ req' = [req EXCEPT ![r].left = @ \ {p}, ![r].missed = Missed(r, p)]
    /\ UNCHANGED <<store, exhausted, missing, circuit>>

\* The walk reaches the breaker of p.
AtBreaker(r, p) ==
    /\ AtProvider(r, p)
    /\ ~SiblingMissed(r, p)
    /\ p \notin exhausted
    /\ Group(p) \notin missing

\* Its breaker refuses.
SkipOpen(r, p) ==
    /\ AtBreaker(r, p)
    /\ "none" \in Breaker(p)!Admissions(circuit[p], req[r].force)
    /\ req' = [req EXCEPT ![r].left = @ \ {p}, ![r].skipped = TRUE,
                          ![r].turned = @ \cup {p}]
    /\ UNCHANGED <<store, exhausted, missing, circuit>>

\* Its breaker admits the request, which goes to the pool.
Ask(r, p) ==
    /\ AtBreaker(r, p)
    /\ \E kind \in Breaker(p)!Admissions(circuit[p], req[r].force) \ {"none"} :
         /\ circuit' = [circuit EXCEPT ![p] = Breaker(p)!Entered(@, kind)]
         /\ req' = [req EXCEPT ![r].phase = "fetching", ![r].at = p,
                               ![r].left = @ \ {p}, ![r].attempt = kind,
                               ![r].attempted = TRUE,
                               ![r].reached = @ \cup {p}]
    /\ UNCHANGED <<store, exhausted, missing>>

----------------------------------------------------------------------------
Copy(r) == store[Group(req[r].at)]

\* The attempt of r is finished with this outcome.
Recorded(r, outcome) ==
    LET p == req[r].at
    IN  \E c \in Breaker(p)!Answers(circuit[p], req[r].attempt, outcome) :
            circuit' = [circuit EXCEPT ![p] = c]

\* Mutant of Dropped: the breaker is not told.
Dropped_Untold(r) == circuit

\* The attempt of r is dropped unrecorded.
Dropped(r) ==
    LET p == req[r].at
    IN  [circuit EXCEPT ![p] = Breaker(p)!Left(@, req[r].attempt)]

\* A request that has returned: its locals are gone.
Done(r, result) ==
    [Fresh EXCEPT !.phase = "done", !.result = result, !.force = req[r].force,
                  !.turned = req[r].turned, !.reached = req[r].reached]

\* The locals of r back in the loop.
Walking(r) == [req[r] EXCEPT !.phase = "walking", !.at = None, !.attempt = "none"]

\* The pool had no slot in time, which says nothing about the provider.
NoSlot(r) ==
    /\ req[r].phase = "fetching"
    /\ circuit' = Dropped(r)
    /\ req' = [req EXCEPT ![r] = [Walking(r) EXCEPT !.skipped = TRUE,
                                                    !.turned = @ \cup {req[r].at}]]
    /\ UNCHANGED <<store, exhausted, missing>>

\* The body, or for STAT the answer that it is there.
Deliver(r) ==
    /\ req[r].phase = "fetching"
    /\ Copy(r) = "intact" \/ (r \in Stats /\ Copy(r) = "corrupt")
    /\ Recorded(r, IF r \in Stats THEN "Miss" ELSE "Success")
    /\ req' = [req EXCEPT ![r] = Done(r, "Found")]
    /\ UNCHANGED <<store, exhausted, missing>>

\* The answer that it is not there, which is remembered.
Deny(r) ==
    /\ req[r].phase = "fetching"
    /\ Copy(r) = "absent"
    /\ Recorded(r, "Miss")
    /\ missing' = missing \cup {Group(req[r].at)}
    /\ req' = [req EXCEPT ![r] = [Walking(r) EXCEPT !.missed = Missed(r, req[r].at)]]
    /\ UNCHANGED <<store, exhausted>>

\* Mutant of Spoil: a corrupt copy is remembered as a missing one.
Spoil_Remembers(r) ==
    /\ req[r].phase = "fetching"
    /\ Copy(r) = "corrupt" /\ r \notin Stats
    /\ Recorded(r, "Miss")
    /\ missing' = missing \cup {Group(req[r].at)}
    /\ req' = [req EXCEPT ![r] = [Walking(r) EXCEPT !.missed = Missed(r, req[r].at),
                                                    !.error = "Corrupt"]]
    /\ UNCHANGED <<store, exhausted>>

\* A body that does not decode: its backbone has missed, and it is an error.
Spoil(r) ==
    /\ req[r].phase = "fetching"
    /\ Copy(r) = "corrupt" /\ r \notin Stats
    /\ Recorded(r, "Miss")
    /\ req' = [req EXCEPT ![r] = [Walking(r) EXCEPT !.missed = Missed(r, req[r].at),
                                                    !.error = "Corrupt"]]
    /\ UNCHANGED <<store, exhausted, missing>>

\* Mutant of Fail: a failing provider counts as its backbone missing.
Fail_IsAMiss(r, outcome) ==
    /\ req[r].phase = "fetching"
    /\ Recorded(r, outcome)
    /\ req' = [req EXCEPT ![r] = [Walking(r) EXCEPT !.failed = TRUE, !.error = "Failure",
                                                    !.missed = Missed(r, req[r].at),
                                                    !.turned = @ \cup {req[r].at}]]
    /\ UNCHANGED <<store, exhausted, missing>>

\* No connection, a timeout, an unexpected reply.
Fail(r, outcome) ==
    /\ req[r].phase = "fetching"
    /\ Recorded(r, outcome)
    /\ req' = [req EXCEPT ![r] = [Walking(r) EXCEPT !.failed = TRUE, !.error = "Failure",
                                                    !.turned = @ \cup {req[r].at}]]
    /\ UNCHANGED <<store, exhausted, missing>>

\* The caller drops the request while it waits for the pool.
Cancel(r) ==
    /\ req[r].phase = "fetching"
    /\ circuit' = Dropped(r)
    /\ req' = [req EXCEPT ![r] = Fresh]
    /\ UNCHANGED <<store, exhausted, missing>>

----------------------------------------------------------------------------
\* The error a request ends with: a skipped or failed provider may hold an intact copy.
Result(r) ==
    IF req[r].error = "none"
    THEN IF req[r].skipped THEN "Unavailable" ELSE "NotFound"
    ELSE IF req[r].error = "Corrupt" /\ (req[r].skipped \/ req[r].failed)
         THEN "Unavailable" ELSE req[r].error

PassOver(r) == req[r].phase = "walking" /\ req[r].left = {}

\* Mutant of Again: open circuits are never forced.
Again_Never(r) == FALSE

\* Every provider that might have it was skipped: go round again, forced.
Again(r) == ~req[r].attempted /\ req[r].skipped /\ ~req[r].force

SecondPass(r) ==
    /\ PassOver(r)
    /\ Again(r)
    /\ req' = [req EXCEPT ![r].left = Providers, ![r].force = TRUE, ![r].skipped = FALSE]
    /\ UNCHANGED <<store, exhausted, missing, circuit>>

GiveUp(r) ==
    /\ PassOver(r)
    /\ ~Again(r)
    /\ req' = [req EXCEPT ![r] = Done(r, Result(r))]
    /\ UNCHANGED <<store, exhausted, missing, circuit>>

----------------------------------------------------------------------------
\* A remembered miss expires, or makes room for others.
Forget(g) ==
    /\ missing' = missing \ {g}
    /\ UNCHANGED <<store, exhausted, circuit, req>>

\* A quota is used up, or its next period begins.
Meter(p) ==
    /\ p \in Metered
    /\ exhausted' = IF p \in exhausted THEN exhausted \ {p} ELSE exhausted \cup {p}
    /\ UNCHANGED <<store, missing, circuit, req>>

Next ==
    \/ \E r \in Requests :
         \/ Start(r)
         \/ \E p \in Providers :
              \/ PassSibling(r, p)
              \/ SkipExhausted(r, p)
              \/ PassMissing(r, p)
              \/ SkipOpen(r, p)
              \/ Ask(r, p)
         \/ NoSlot(r)
         \/ Deliver(r)
         \/ Deny(r)
         \/ Spoil(r)
         \/ \E outcome \in {"Failure", "Fatal"} : Fail(r, outcome)
         \/ Cancel(r)
         \/ SecondPass(r)
         \/ GiveUp(r)
    \/ \E g \in missing : Forget(g)
    \/ \E p \in Metered : Meter(p)

Spec == Init /\ [][Next]_vars

----------------------------------------------------------------------------
Phases == {"idle", "walking", "fetching", "done"}
Results == {"none", "Found", "NotFound", "Corrupt", "Failure", "Unavailable"}

Locals ==
    [phase : Phases,
     order : {None} \cup [Providers -> 1 .. Cardinality(Providers)],
     left : SUBSET Providers, force : BOOLEAN, attempted : BOOLEAN,
     skipped : BOOLEAN, failed : BOOLEAN, missed : SUBSET Groups,
     error : {"none", "Corrupt", "Failure"}, at : Providers \cup {None},
     attempt : {"none", "plain", "probe"}, result : Results,
     turned : SUBSET Providers, reached : SUBSET Providers]

TypeOK ==
    /\ store \in [Groups -> Copies]
    /\ exhausted \subseteq Metered
    /\ missing \subseteq Groups
    /\ circuit \in [Providers -> {"closed", "open", "probing"}]
    /\ req \in [Requests -> Locals]
    /\ \A r \in Requests :
         /\ (req[r].phase = "fetching") <=> (req[r].at # None)
         /\ (req[r].phase = "fetching") <=> (req[r].attempt # "none")

(***************************************************************************)
(* "NotFound only when every provider (or a backbone sibling) answered     *)
(* that it lacks the article": a request that ends so never overlooked a   *)
(* provider that has it, intact or not, whatever other requests had been   *)
(* told and whichever circuits were open.                                  *)
(***************************************************************************)
NotFoundIsCertain ==
    \A r \in Requests : req[r].result = "NotFound" =>
        \A g \in Groups : store[g] = "absent"

(***************************************************************************)
(* A corrupt copy is reported as such only when no provider can have an    *)
(* intact one; "a skipped or failed provider may hold an intact copy".     *)
(***************************************************************************)
CorruptIsCertain ==
    \A r \in Requests : req[r].result = "Corrupt" =>
        \A g \in Groups : store[g] # "intact"

(***************************************************************************)
(* Failover is complete: when a request fails, every provider with an      *)
(* intact copy was skipped for its quota or circuit, had no slot, or       *)
(* failed itself.                                                          *)
(***************************************************************************)
NoCopyOverlooked ==
    \A r \in Requests : req[r].result \notin {"none", "Found"} =>
        \A p \in Providers : store[Group(p)] = "intact" => p \in req[r].turned

(***************************************************************************)
(* "When every circuit is open, try them anyway": a request that reached   *)
(* no provider was kept from them by quotas alone, in its forced pass or,  *)
(* where nothing else was skipped, by answers it already had.              *)
(***************************************************************************)
OpenCircuitsAreTried ==
    \A r \in Requests :
        (req[r].result = "Unavailable" /\ req[r].reached = {}) =>
            req[r].force /\ req[r].turned \cap Metered # {}

(***************************************************************************)
(* Whatever requests do side by side, each provider's breaker is used the  *)
(* way a circuit may be: one probe at a time, each attempt ended once.     *)
(***************************************************************************)
BreakersAreCircuits ==
    [][\A p \in Providers : Breaker(p)!Next \/ UNCHANGED Breaker(p)!vars]_vars
=============================================================================
