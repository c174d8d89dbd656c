-------------------------------- MODULE Pool --------------------------------
(***************************************************************************)
(* The connections to one provider (nntp/src/pool.rs).  Each is owned by a *)
(* task that answers the requests sent to it in order; a fetch takes an    *)
(* idle connection, opens one, pipelines on the least loaded or waits for  *)
(* something to change, and goes round again when its connection dies.     *)
(* Whatever frees a connection or ends a connect first says so under the   *)
(* lock and then wakes those who wait, two steps.                          *)
(*                                                                         *)
(* A channel and the requests in flight behind it are one queue.  The      *)
(* permits of Downloads, the warm floor, the quota and what the replies    *)
(* contain are left out; the second a failed connect is remembered for,    *)
(* the regrowth of the limit and the patience of playback may end any      *)
(* time.                                                                   *)
(***************************************************************************)
EXTENDS Naturals, FiniteSets, Sequences, SequencesExt

CONSTANTS
    Calls,          \* of fetch
    Streams,        \* those for playback
    Fresh,          \* hedges, which do not pipeline
    Conns,          \* names for connections, used again once nothing refers to them
    MaxConnections, \* max_connections
    HeadroomFrom,   \* STREAM_HEADROOM_MIN_CONNECTIONS
    MaxRetries,     \* MAX_RETRIES
    MaxUnanswered,  \* MAX_UNANSWERED
    Mishaps,        \* bounds prewarming, regrowth of the limit, connections that die and
                    \* idle ones that are closed
    None

ASSUME PoolAssumption ==
    /\ IsFiniteSet(Conns) /\ IsFiniteSet(Calls)
    /\ Streams \subseteq Calls /\ Fresh \subseteq Streams
    /\ MaxConnections \in Nat \ {0}
    /\ HeadroomFrom \in Nat /\ HeadroomFrom > 1
    /\ MaxRetries \in Nat /\ MaxUnanswered \in Nat /\ Mishaps \in Nat
    /\ None \notin Calls

VARIABLES
    task,        \* task[c]: the task that owns the connection
    attempt,     \* attempt[c]: how far the connect is; counted in `connecting`
    opener,      \* opener[c]: the call that connects, or None: prewarm, or left alone
    load,        \* load[c]: as counted
    queue,       \* queue[c]: the requests sent to it, by call
    dropping,    \* dropping[c]: requests answered or given up, whose load is still counted
    ringing,     \* whether notify_waiters is still to tell of what has happened
    limit,       \* the effective limit: shrunk by a refused connect, regrown in time
    down,        \* failed_at is less than CONNECT_BACKOFF ago
    pc,          \* pc[k]: how far the call is
    at,          \* at[k]: the connection its request goes to, or None
    listening,   \* calls registered for changes, and not notified yet
    tired,       \* streams that gave up on a connect for the connection they seek (impatient)
    failed,      \* failed[k]: requests whose own read failed
    unanswered,  \* unanswered[k]: requests lost with their connection
    mishaps      \* how many of those there were

connects == <<attempt, opener>>
conns == <<task, connects, load, queue, dropping>>
pool == <<limit, down, mishaps>>
tries == <<tired, failed, unanswered>>
calls == <<pc, at, listening, tries>>
vars == <<conns, ringing, pool, calls>>

(***************************************************************************)
(* Tasks: none, up, ending (it still takes requests nobody will read), and *)
(* cut (taken out of the pool, but not gone yet).  Attempts: none,         *)
(* opening, and what came of it: joined, refused (others can take the      *)
(* request) or failed (none can, or it timed out).                         *)
(***************************************************************************)
Tasks == {"none", "up", "ending", "cut"}
Attempts == {"none", "opening", "joined", "refused", "failed"}

(***************************************************************************)
(*   start     about to look for a connection                              *)
(*   declined  registered, found nothing to use, and is about to wait      *)
(*   waiting   for a change                                                *)
(*   opening   its own connection; a stream does not wait for ever while   *)
(*             another is live: racing                                     *)
(*   sending   has a connection                                            *)
(*   sent      waits for the reply                                         *)
(*   done      answered, failed or cancelled                               *)
(***************************************************************************)
Stages == {"start", "declined", "waiting", "opening", "racing", "sending",
           "sent", "done"}

Init ==
    /\ task = [c \in Conns |-> "none"]
    /\ attempt = [c \in Conns |-> "none"]
    /\ opener = [c \in Conns |-> None]
    /\ load = [c \in Conns |-> 0]
    /\ queue = [c \in Conns |-> <<>>]
    /\ dropping = [c \in Conns |-> 0]
    /\ ringing = FALSE
    /\ limit = MaxConnections
    /\ down = FALSE
    /\ pc = [k \in Calls |-> "start"]
    /\ at = [k \in Calls |-> None]
    /\ listening = {} /\ tired = {}
    /\ failed = [k \in Calls |-> 0]
    /\ unanswered = [k \in Calls |-> 0]
    /\ mishaps = 0

----------------------------------------------------------------------------
\* What a look at the pool finds.

\* The workers whose channel is open.
Listed == {c \in Conns : task[c] \in {"up", "ending"}}

Connecting == {c \in Conns : attempt[c] # "none"}

Idle == {c \in Listed : load[c] = 0}

Open == Cardinality(Listed) + Cardinality(Connecting)

\* Slots under the limit with no connection yet.
Unopened == IF Open < limit THEN limit - Open ELSE 0

\* Background work leaves one idle or unopened slot for playback.
HoldHeadroom(k) ==
    /\ k \notin Streams
    /\ limit >= HeadroomFrom
    /\ Cardinality(Idle) + Unopened <= 1

\* Mutant of Spare: an off-by-one.
Spare_OneMore(k) == Open <= limit /\ ~HoldHeadroom(k)

Spare(k) == Open < limit /\ ~HoldHeadroom(k)

Usable(k) == {c \in Listed : HoldHeadroom(k) => load[c] > 0}

\* The least loaded connection (any of them, the order of the workers is not kept), if the
\* call takes it: idle, or to pipeline on.
Suits(k, c) ==
    /\ c \in Usable(k)
    /\ \A d \in Usable(k) : load[c] <= load[d]
    /\ \/ load[c] = 0
       \/ k \notin Fresh /\ (k \in tired \/ (~Spare(k) /\ Connecting = {}))

BackedOff == Open = 0 /\ down

\* Names for new connections, and the one the next connection gets.
Unused == {c \in Conns : task[c] = "none" /\ attempt[c] = "none" /\ load[c] = 0}

NextUnused == CHOOSE c \in Unused : TRUE

Happens == mishaps < Mishaps /\ mishaps' = mishaps + 1

Move(k, from, to) ==
    /\ pc[k] = from
    /\ pc' = [pc EXCEPT ![k] = to]

----------------------------------------------------------------------------
\* A call registers for changes and looks at the pool: in this order, so that what changes
\* after its look wakes it, though it only waits some time later.

\* It takes a connection, which ends its impatience,
Use(k, c) ==
    /\ Move(k, "start", "sending")
    /\ Suits(k, c)
    /\ at' = [at EXCEPT ![k] = c]
    /\ load' = [load EXCEPT ![c] = @ + 1]
    /\ tired' = tired \ {k}
    /\ UNCHANGED <<task, connects, queue, dropping, ringing, pool, listening, failed, unanswered>>

\* fails fast while the provider cannot be reached,
FailFast(k) ==
    /\ Move(k, "start", "done")
    /\ \A c \in Conns : ~Suits(k, c)
    /\ BackedOff
    /\ UNCHANGED <<conns, ringing, pool, at, listening, tries>>

\* reserves a slot and connects,
Reserve(k, c) ==
    /\ Move(k, "start", IF k \in Streams /\ Listed # {} THEN "racing" ELSE "opening")
    /\ \A d \in Conns : ~Suits(k, d)
    /\ ~BackedOff
    /\ Spare(k)
    /\ Unused # {} /\ c = NextUnused
    /\ attempt' = [attempt EXCEPT ![c] = "opening"]
    /\ opener' = [opener EXCEPT ![c] = k]
    /\ UNCHANGED <<task, load, queue, dropping, ringing, pool, at, listening, tries>>

\* or waits for a change.
Decline(k) ==
    /\ Move(k, "start", "declined")
    /\ \A c \in Conns : ~Suits(k, c)
    /\ ~BackedOff
    /\ ~Spare(k)
    /\ listening' = listening \cup {k}
    /\ UNCHANGED <<conns, ringing, pool, at, tries>>

Wait(k) ==
    /\ Move(k, "declined", "waiting")
    /\ UNCHANGED <<conns, ringing, pool, at, listening, tries>>

Wake(k) ==
    /\ Move(k, "waiting", "start")
    /\ k \notin listening
    /\ UNCHANGED <<conns, ringing, pool, at, listening, tries>>

----------------------------------------------------------------------------
\* What a request comes back to.

\* A request that is lost unanswered is sent again, so often.
AfterLoss(k) == IF unanswered[k] < MaxUnanswered THEN "start" ELSE "done"

\* One whose own read failed too, but playback does not wait for a second stall.
AfterFailure(k, reply) ==
    IF (reply = "timeout" /\ k \in Streams) \/ failed[k] = MaxRetries THEN "done" ELSE "start"

Awaited(k, c) == pc[k] = "sent" /\ at[k] = c

\* The connection goes away with these requests unanswered.
Lose(lost, c) ==
    LET Callers == {k \in lost : Awaited(k, c)} IN
    /\ pc' = [k \in Calls |-> IF k \in Callers THEN AfterLoss(k) ELSE pc[k]]
    /\ at' = [k \in Calls |-> IF k \in Callers THEN None ELSE at[k]]
    /\ unanswered' = [k \in Calls |->
                        IF k \in Callers /\ unanswered[k] < MaxUnanswered
                        THEN unanswered[k] + 1 ELSE unanswered[k]]

\* `dispatch` sends the request,
Send(k) ==
    /\ Move(k, "sending", "sent")
    /\ task[at[k]] # "none"
    /\ queue' = [queue EXCEPT ![at[k]] = Append(@, k)]
    /\ UNCHANGED <<task, connects, load, dropping, ringing, pool, at, listening, tries>>

\* or finds the connection gone since it was chosen.
SendFails(k) ==
    /\ Move(k, "sending", AfterLoss(k))
    /\ task[at[k]] = "none"
    /\ dropping' = [dropping EXCEPT ![at[k]] = @ + 1]
    /\ at' = [at EXCEPT ![k] = None]
    /\ unanswered' = [unanswered EXCEPT ![k] = IF @ < MaxUnanswered THEN @ + 1 ELSE @]
    /\ UNCHANGED <<task, connects, load, queue, ringing, pool, listening, tired, failed>>

\* A call is cancelled where it waits, or playback's deadline comes.
Leave(k) ==
    /\ Move(k, pc[k], "done")
    /\ pc[k] \in {"waiting", "sent"}
    /\ at' = [at EXCEPT ![k] = None]
    /\ listening' = listening \ {k}
    /\ UNCHANGED <<conns, ringing, pool, tries>>

\* Its own connect goes with it.
LeaveConnect(k, c) ==
    /\ Move(k, pc[k], "done")
    /\ pc[k] \in {"opening", "racing"}
    /\ attempt[c] = "opening" /\ opener[c] = k
    /\ attempt' = [attempt EXCEPT ![c] = "none"]
    /\ opener' = [opener EXCEPT ![c] = None]
    /\ ringing' = TRUE
    /\ UNCHANGED <<task, load, queue, dropping, pool, at, listening, tries>>

\* A stream tires of the connect and leaves it to itself.
Tire(k, c) ==
    /\ Move(k, "racing", "start")
    /\ attempt[c] = "opening" /\ opener[c] = k
    /\ opener' = [opener EXCEPT ![c] = None]
    /\ tired' = tired \cup {k}
    /\ UNCHANGED <<task, attempt, load, queue, dropping, ringing, pool, at, listening, failed, unanswered>>

----------------------------------------------------------------------------
\* Connects.

\* `prewarm` reserves as many slots as are missing.
Prewarm(new) ==
    /\ ~BackedOff
    /\ new # {} /\ new \subseteq Unused
    /\ Cardinality(new) <= Unopened
    /\ attempt' = [c \in Conns |-> IF c \in new THEN "opening" ELSE attempt[c]]
    /\ Happens
    /\ UNCHANGED <<task, opener, load, queue, dropping, ringing, limit, down, calls>>

\* A connect succeeds: the new worker has a load before anyone can see it.
Connected(c) ==
    /\ attempt[c] = "opening"
    /\ attempt' = [attempt EXCEPT ![c] = "joined"]
    /\ task' = [task EXCEPT ![c] = "up"]
    /\ load' = [load EXCEPT ![c] = 1]
    /\ down' = FALSE
    /\ UNCHANGED <<opener, queue, dropping, ringing, limit, mishaps, calls>>

\* One that has joined still holds its slot for a moment, and counts twice.
Others(c) == Cardinality(Listed) + Cardinality(Connecting \ {c})

AtMost(n) == IF n < MaxConnections THEN n ELSE MaxConnections

\* A connect fails: nothing else is up, or the provider does not want more.
Unconnected(c, why) ==
    /\ attempt[c] = "opening"
    /\ IF Others(c) = 0
       THEN /\ attempt' = [attempt EXCEPT ![c] = "failed"]
            /\ down' = TRUE /\ limit' = limit
       ELSE /\ attempt' = [attempt EXCEPT ![c] = why]
            /\ limit' = AtMost(Others(c)) /\ down' = down
    /\ UNCHANGED <<task, opener, load, queue, dropping, ringing, mishaps, calls>>

\* Where the end of its connect leaves a call.
AfterConnect(c) ==
    CASE attempt[c] = "joined" -> "sending"
      [] attempt[c] = "refused" -> "start"
      [] OTHER -> "done"

\* The connect gives its slot back, and whoever waited for it goes on.
Settle(c) ==
    /\ attempt[c] \in Attempts \ {"none", "opening"}
    /\ attempt' = [attempt EXCEPT ![c] = "none"]
    /\ opener' = [opener EXCEPT ![c] = None]
    /\ ringing' = TRUE
    /\ IF opener[c] # None
       THEN /\ pc' = [pc EXCEPT ![opener[c]] = AfterConnect(c)]
            /\ at' = IF attempt[c] = "joined" THEN [at EXCEPT ![opener[c]] = c] ELSE at
            /\ tired' = IF attempt[c] = "joined" THEN tired \ {opener[c]} ELSE tired
            /\ dropping' = dropping
       ELSE /\ dropping' = IF attempt[c] = "joined" THEN [dropping EXCEPT ![c] = @ + 1] ELSE dropping
            /\ UNCHANGED <<pc, at, tired>>
    /\ UNCHANGED <<task, load, queue, pool, listening, failed, unanswered>>

\* The limit regrows, and a failed connect is forgotten.
Regrow ==
    /\ limit < MaxConnections
    /\ limit' = limit + 1
    /\ Happens
    /\ UNCHANGED <<conns, ringing, down, calls>>

Forget ==
    /\ down
    /\ down' = FALSE
    /\ UNCHANGED <<conns, ringing, limit, mishaps, calls>>

----------------------------------------------------------------------------
\* The task of a connection.

\* The oldest request is done with: its load goes when it is dropped.
Served(c) ==
    /\ queue[c] # <<>>
    /\ queue' = [queue EXCEPT ![c] = Tail(@)]
    /\ dropping' = [dropping EXCEPT ![c] = @ + 1]

\* A reply, or an error that leaves the connection usable or not; nobody may want it.
Answer(c) ==
    /\ task[c] = "up"
    /\ Served(c)
    /\ LET k == Head(queue[c]) IN
         IF Awaited(k, c)
         THEN pc' = [pc EXCEPT ![k] = "done"] /\ at' = [at EXCEPT ![k] = None]
         ELSE UNCHANGED <<pc, at>>
    /\ \/ UNCHANGED <<task, mishaps>>
       \/ Happens /\ task' = [task EXCEPT ![c] = "ending"]
    /\ UNCHANGED <<connects, load, ringing, limit, down, listening, tries>>

\* The connection dies under a request: it alone gets the error.
Fail(c, reply) ==
    /\ task[c] = "up"
    /\ Served(c)
    /\ LET k == Head(queue[c]) IN
         IF Awaited(k, c)
         THEN /\ pc' = [pc EXCEPT ![k] = AfterFailure(k, reply)]
              /\ at' = [at EXCEPT ![k] = None]
              /\ failed' = [failed EXCEPT ![k] = IF AfterFailure(k, reply) = "start" THEN @ + 1 ELSE @]
         ELSE UNCHANGED <<pc, at, failed>>
    /\ Happens /\ task' = [task EXCEPT ![c] = "ending"]
    /\ UNCHANGED <<connects, load, ringing, limit, down, listening, tired, unanswered>>

\* It was idle for too long, or did not answer a keepalive.
End(c) ==
    /\ task[c] = "up"
    /\ Happens /\ task' = [task EXCEPT ![c] = "ending"]
    /\ UNCHANGED <<connects, load, queue, dropping, ringing, limit, down, calls>>

\* A task that ends drops the requests in flight, one by one,
LoseOne(c) ==
    /\ task[c] = "ending"
    /\ Served(c)
    /\ Lose({Head(queue[c])}, c)
    /\ UNCHANGED <<task, connects, load, ringing, pool, listening, tired, failed>>

\* closes its channel and drops the requests in it.
Close(c) ==
    /\ task[c] \in {"ending", "cut"}
    /\ task' = [task EXCEPT ![c] = "none"]
    /\ queue' = [queue EXCEPT ![c] = <<>>]
    /\ dropping' = [dropping EXCEPT ![c] = @ + Len(queue[c])]
    /\ Lose(ToSet(queue[c]), c)
    /\ UNCHANGED <<connects, load, ringing, pool, listening, tired, failed>>

\* Mutant of DropLoad: the load of a connection is not watched.
DropLoad_Unwatched(c) ==
    /\ dropping[c] > 0
    /\ dropping' = [dropping EXCEPT ![c] = @ - 1]
    /\ load' = [load EXCEPT ![c] = @ - 1]
    /\ ringing' = ringing
    /\ UNCHANGED <<task, connects, queue, pool, calls>>

\* Load::drop counts down,
DropLoad(c) ==
    /\ dropping[c] > 0
    /\ dropping' = [dropping EXCEPT ![c] = @ - 1]
    /\ load' = [load EXCEPT ![c] = @ - 1]
    /\ ringing' = TRUE
    /\ UNCHANGED <<task, connects, queue, pool, calls>>

\* Mutant of Ring: only those that already await the change are told.
Ring_Polled ==
    /\ ringing
    /\ ringing' = FALSE
    /\ listening' = {k \in listening : pc[k] # "waiting"}
    /\ UNCHANGED <<conns, pool, pc, at, tries>>

\* and wakes those who wait, as the end of a connect does.
Ring ==
    /\ ringing
    /\ ringing' = FALSE
    /\ listening' = {}
    /\ UNCHANGED <<conns, pool, pc, at, tries>>

\* A provider test closes connections without a request.
CloseIdle ==
    /\ \E c \in Conns : task[c] = "up" /\ load[c] = 0
    /\ Happens /\ task' = [c \in Conns |-> IF c \in Idle THEN "cut" ELSE task[c]]
    /\ UNCHANGED <<connects, load, queue, dropping, ringing, limit, down, calls>>

----------------------------------------------------------------------------
Looks(k) ==
    \/ FailFast(k) \/ Decline(k) \/ Wait(k) \/ Wake(k)
    \/ \E c \in Conns : Use(k, c) \/ Reserve(k, c)

Connects(c) == Connected(c) \/ \E why \in {"refused", "failed"} : Unconnected(c, why)

Reads(c) == Answer(c) \/ (\E reply \in {"closed", "timeout"} : Fail(c, reply)) \/ Close(c)

Next ==
    \/ \E k \in Calls :
         \/ Looks(k) \/ Send(k) \/ SendFails(k) \/ Leave(k)
         \/ \E c \in Conns : LeaveConnect(k, c) \/ Tire(k, c)
    \/ \E c \in Conns :
         \/ Connects(c) \/ Settle(c) \/ Reads(c) \/ End(c) \/ LoseOne(c)
         \/ DropLoad(c)
    \/ \E new \in SUBSET Conns : Prewarm(new)
    \/ Ring \/ Regrow \/ Forget \/ CloseIdle

Spec == Init /\ [][Next]_vars

(***************************************************************************)
(* Tasks run; connects and reads time out.  Nobody has to leave, and the   *)
(* limit need not regrow.                                                  *)
(***************************************************************************)
Fairness ==
    /\ \A k \in Calls : WF_vars(Looks(k) \/ Send(k) \/ SendFails(k))
    /\ \A c \in Conns :
         WF_vars(Connects(c) \/ Settle(c)) /\ WF_vars(Reads(c)) /\ WF_vars(DropLoad(c))
    /\ WF_vars(Ring)

FairSpec == Spec /\ Fairness

----------------------------------------------------------------------------
TypeOK ==
    /\ task \in [Conns -> Tasks]
    /\ attempt \in [Conns -> Attempts]
    /\ opener \in [Conns -> Calls \cup {None}]
    /\ load \in [Conns -> Nat]
    /\ queue \in [Conns -> Seq(Calls)]
    /\ dropping \in [Conns -> Nat]
    /\ ringing \in BOOLEAN
    /\ limit \in 1 .. MaxConnections
    /\ down \in BOOLEAN
    /\ pc \in [Calls -> Stages]
    /\ at \in [Calls -> Conns \cup {None}]
    /\ listening \subseteq Calls /\ tired \subseteq Streams
    /\ failed \in [Calls -> 0 .. MaxRetries]
    /\ unanswered \in [Calls -> 0 .. MaxUnanswered]
    /\ mishaps \in 0 .. Mishaps

(***************************************************************************)
(* "Provider connection limit; never exceeded": the pool never has more    *)
(* connections and connects than that, however many calls, prewarming and  *)
(* connects left alone come together.  Tasks it has cut off are not        *)
(* counted: they are about to close their connection.                      *)
(***************************************************************************)
WithinLimit == Cardinality(Listed \cup Connecting) <= MaxConnections

Sending(c) == {k \in Calls : pc[k] = "sending" /\ at[k] = c}

(***************************************************************************)
(* A connection's load is what its requests hold, wherever they are: on    *)
(* the way to it, sent, being dropped, or coming with a new connection.    *)
(* A lost release would keep the connection from ever being idle.          *)
(***************************************************************************)
LoadIsRequests ==
    \A c \in Conns :
        load[c] = Cardinality(Sending(c)) + Len(queue[c]) + dropping[c]
                    + (IF attempt[c] = "joined" THEN 1 ELSE 0)

\* Something is under way that will wake those who wait.
Stirring == Connecting # {} \/ ringing \/ \E c \in Conns : load[c] > 0

(***************************************************************************)
(* No call waits for a wake-up nobody will give: what frees a connection   *)
(* between its look at the pool and its wait is not missed, and nothing    *)
(* that ends unheard leaves it behind.                                     *)
(***************************************************************************)
NoStranded ==
    \A k \in Calls : pc[k] \in {"declined", "waiting"} /\ k \in listening => Stirring

(***************************************************************************)
(* Every fetch ends, though connects fail or hang, connections die with    *)
(* requests on them and others leave, and without playback's deadline;     *)
(* as long as the limit does not regrow for ever while connects are        *)
(* refused, since those rounds of a fetch are not counted.                 *)
(***************************************************************************)
FetchEnds == \A k \in Calls : pc[k] = "start" ~> pc[k] = "done"
=============================================================================
