----------------------------- MODULE ImportQueue -----------------------------
(***************************************************************************)
(* The import queue (queue/src/service.rs) over the tables queue and       *)
(* history (db/src/lib.rs).  Workers claim due jobs and record what came   *)
(* of them, under the lock `serial`; users submit, hold, release and       *)
(* remove jobs and pause the queue whenever they like; the process may     *)
(* stop at any point and start again from its tables.                      *)
(*                                                                         *)
(* A step is one transaction, one call of the handoff writer, or what runs *)
(* between two awaits.  What an import does to decide on its outcome is    *)
(* elsewhere: here it comes to one of Outcomes.  All jobs are of one       *)
(* category and name, so they compete for its folders.                     *)
(***************************************************************************)
EXTENDS Naturals, FiniteSets

CONSTANTS
    Jobs,
    Content,      \* Content[j]: the hash of the job's NZB
    Priority,     \* Priority[j]
    Workers,
    Concurrency,  \* the limits a user may set
    Folders,      \* MAX_DUPLICATES: folder names a job may get
    StuckLimit,   \* STUCK_LIMIT: the stall that fails the job
    Pauses,       \* what users set the pause of the queue to
    Restarts,     \* bound: crashes
    None

ASSUME ImportQueueAssumption ==
    /\ None \notin Jobs \cup Workers \cup {"Completed", "Failed"}
    /\ Priority \in [Jobs -> Nat]
    /\ IsFiniteSet(Workers)
    /\ Concurrency # {} /\ Concurrency \subseteq 1 .. Cardinality(Workers)
    /\ {Folders, StuckLimit} \subseteq Nat \ {0} /\ Restarts \in Nat
    /\ Pauses \subseteq BOOLEAN

VARIABLES
    \* The database:
    queued,      \* jobs with a row in the queue
    ahead,       \* ahead[j]: the jobs before j by sort_order
    held,        \* jobs paused by the user
    waiting,     \* jobs whose retry_at is to come
    stuck,       \* stuck[j]: its stuck_count
    history,     \* history[j]: "Completed", "Failed", or None
    folder,      \* folder[n]: the job whose output the n-th folder holds, or None
    stored,      \* the global pause, as configured
    \* The handoff directory:
    handed,      \* <<j, n>>: j's files are in the n-th folder
    \* The process:
    checked,     \* the jobs between the duplicate check and the insert
    active,      \* the jobs in Queue::active
    serial,      \* the worker that holds the lock across steps, or None
    at,          \* at[w]: how far worker w is
    job,         \* job[w]: the job it claimed, or None
    dir,         \* dir[w]: the folder it publishes to
    concurrency,
    paused,      \* the flag
    pausing,     \* [at, to]: a call of set_paused between its two steps
    \* For the properties:
    accepted,    \* jobs whose submission succeeded
    removed,     \* jobs a user removed from the queue
    cooling,     \* jobs whose last attempt failed less than its backoff ago
    restarts

tables == <<queued, ahead, held, waiting, stuck, history, folder>>
worker == <<at, job, dir>>
asked == <<accepted, removed, checked>>
pause == <<stored, paused, pausing>>
vars == <<tables, handed, active, serial, worker, concurrency, cooling, restarts, asked, pause>>

Outcomes == {"done", "failed", "retry", "stuck", "panic"}

Init ==
    /\ queued = {} /\ held = {} /\ waiting = {}
    /\ ahead = [j \in Jobs |-> {}]
    /\ stuck = [j \in Jobs |-> 0]
    /\ history = [j \in Jobs |-> None]
    /\ folder = [n \in 1 .. Folders |-> None]
    /\ handed = {} /\ active = {} /\ serial = None
    /\ at = [w \in Workers |-> "idle"]
    /\ job = [w \in Workers |-> None]
    /\ dir = [w \in Workers |-> 0]
    /\ concurrency \in Concurrency
    /\ stored = FALSE /\ paused = FALSE /\ pausing = {}
    /\ checked = {} /\ accepted = {} /\ removed = {} /\ cooling = {}
    /\ restarts = 0

----------------------------------------------------------------------------
(* Users.                                                                  *)

\* `enqueue` holds `submit` from the check to the insert.
MaySubmit == checked = {}

\* A new NZB whose content is not queued yet goes on to be inserted.  (One that is
\* queued is answered with the job there, and one that was rejected is not queued.)
Check(j) ==
    /\ MaySubmit
    /\ j \notin accepted \cup checked
    /\ \A k \in queued : Content[k] # Content[j]
    /\ checked' = checked \cup {j}
    /\ UNCHANGED <<tables, handed, active, serial, worker, concurrency, cooling, restarts,
                   accepted, removed, pause>>

\* It gets a row behind every other, held if it was added paused.
Insert(j) ==
    /\ j \in checked
    /\ checked' = checked \ {j}
    /\ accepted' = accepted \cup {j}
    /\ queued' = queued \cup {j}
    /\ ahead' = [ahead EXCEPT ![j] = queued]
    /\ held' \in {held, held \cup {j}}
    /\ UNCHANGED <<waiting, stuck, history, folder, handed, active, serial, worker,
                   concurrency, cooling, restarts, removed, pause>>

\* Or it cannot be inserted, or its submission is dropped.
Refuse(j) ==
    /\ j \in checked
    /\ checked' = checked \ {j}
    /\ UNCHANGED <<tables, handed, active, serial, worker, concurrency, cooling, restarts,
                   accepted, removed, pause>>

\* What is left of the columns of a row that goes.
Without(j) ==
    /\ queued' = queued \ {j}
    /\ ahead' = [k \in Jobs |-> IF k = j THEN {} ELSE ahead[k] \ {j}]
    /\ held' = held \ {j}
    /\ waiting' = waiting \ {j}
    /\ stuck' = [stuck EXCEPT ![j] = 0]

\* `remove_job` asks nobody: the job may be importing.
Remove(j) ==
    /\ j \in queued
    /\ Without(j)
    /\ removed' = removed \cup {j}
    /\ UNCHANGED <<history, folder, handed, active, serial, worker, concurrency, cooling,
                   restarts, accepted, checked, pause>>

Hold(j) ==
    /\ j \in queued
    /\ held' = IF j \in held THEN held \ {j} ELSE held \cup {j}
    /\ UNCHANGED <<queued, ahead, waiting, stuck, history, folder, handed, active, serial,
                   worker, concurrency, cooling, restarts, asked, pause>>

\* `set_paused` stores the pause,
StorePause(p) ==
    /\ stored' = p
    /\ pausing' = pausing \cup {p}
    /\ UNCHANGED <<tables, handed, active, serial, worker, concurrency, cooling, restarts,
                   asked, paused>>

\* and sets the flag.
SetPaused(p) ==
    /\ p \in pausing
    /\ pausing' = pausing \ {p}
    /\ paused' = p
    /\ UNCHANGED <<tables, handed, active, serial, worker, concurrency, cooling, restarts,
                   asked, stored>>

SetConcurrency ==
    /\ concurrency' \in Concurrency
    /\ UNCHANGED <<tables, handed, active, serial, worker, cooling, restarts, asked, pause>>

\* The content of a folder is deleted.
DeleteFolder(n) ==
    /\ folder[n] # None
    /\ folder' = [folder EXCEPT ![n] = None]
    /\ UNCHANGED <<queued, ahead, held, waiting, stuck, history, handed, active, serial,
                   worker, concurrency, cooling, restarts, asked, pause>>

\* An Arr takes a finished job's files.
Collect(j) ==
    /\ history[j] = "Completed"
    /\ handed' = {h \in handed : h[1] # j}
    /\ handed' # handed
    /\ UNCHANGED <<tables, active, serial, worker, concurrency, cooling, restarts, asked, pause>>

----------------------------------------------------------------------------
(* Claims.                                                                 *)

Due == queued \ (held \cup waiting)

Before(k, j) ==
    \/ Priority[k] > Priority[j]
    \/ Priority[k] = Priority[j] /\ k \in ahead[j]

\* Mutant of NextJobs: as many jobs as are active.
NextJobs_TooFew == {j \in Due : Cardinality({k \in Due : Before(k, j)}) < Cardinality(active)}

\* `next_jobs` with the limit `claim` gives it.
NextJobs == {j \in Due : Cardinality({k \in Due : Before(k, j)}) < Cardinality(active) + 1}

\* Mutant of Candidates: jobs that are importing are not passed over.
Candidates_Active == NextJobs

Candidates == NextJobs \ active

Busy == {w \in Workers : at[w] # "idle"}

MayClaim == serial = None /\ ~paused /\ Cardinality(Busy) < concurrency

\* `claim`: the first due job that is not importing yet.
Claim(w, j) ==
    /\ w \notin Busy
    /\ MayClaim
    /\ j \in Candidates /\ \A k \in Candidates : ~Before(k, j)
    /\ active' = active \cup {j}
    /\ at' = [at EXCEPT ![w] = "importing"]
    /\ job' = [job EXCEPT ![w] = j]
    /\ UNCHANGED <<dir, tables, handed, serial, concurrency, cooling, restarts, asked, pause>>

\* Whether the run loop would claim a job now.
Claimable == MayClaim /\ Candidates # {}

----------------------------------------------------------------------------
(* A worker's import.                                                      *)

Goes(w, to) == at' = [at EXCEPT ![w] = to] /\ UNCHANGED <<job, dir>>

\* The attempt comes to an outcome, by itself or cancelled by the watchdog.
Attempt(w) ==
    /\ at[w] = "importing"
    /\ \E outcome \in Outcomes : Goes(w, outcome)
    /\ UNCHANGED <<tables, handed, active, serial, concurrency, cooling, restarts, asked, pause>>

\* Mutant of Finish: the row does not have to be there.
Finish_Blindly(j, status) ==
    /\ Without(j)
    /\ history' = [history EXCEPT ![j] = status]

\* `finish_job`: a job that is still queued moves to history.
Finish(j, status) ==
    IF j \in queued THEN /\ Without(j)
                         /\ history' = [history EXCEPT ![j] = status]
                    ELSE UNCHANGED <<queued, ahead, held, waiting, stuck, history>>

\* The n-th folder is free, in the tree and where jobs are handed off.
Free(n) == folder[n] = None /\ \A j \in Jobs : <<j, n>> \notin handed

FreeFolders == {n \in 1 .. Folders : Free(n)}

\* Whether what `import` records is a failure.
Fails(w) ==
    \/ at[w] \in {"failed", "panic"}
    \/ at[w] = "stuck" /\ stuck[job[w]] + 1 >= StuckLimit
    \/ at[w] = "done" /\ FreeFolders = {}

\* `fail`: the job is over.
RecordFailed(w) ==
    /\ serial = None
    /\ Fails(w)
    /\ Finish(job[w], "Failed")
    /\ Goes(w, "recorded")
    /\ UNCHANGED <<folder, handed, active, serial, concurrency, cooling, restarts, asked, pause>>

\* `retry_job`: a job that is still queued waits for its backoff.
RetryJob(j) ==
    /\ waiting' = waiting \cup ({j} \cap queued)
    /\ cooling' = cooling \cup ({j} \cap queued)
    /\ UNCHANGED <<queued, ahead, held, stuck, history, folder>>

RecordRetry(w) ==
    /\ serial = None
    /\ at[w] = "retry"
    /\ RetryJob(job[w])
    /\ Goes(w, "recorded")
    /\ UNCHANGED <<handed, active, serial, concurrency, restarts, asked, pause>>

\* `requeue_stuck`: behind every other job.
RequeueStuck(j) ==
    /\ ahead' = [k \in Jobs |-> IF k = j THEN queued \ {j} ELSE ahead[k] \ {j}]
    /\ stuck' = [stuck EXCEPT ![j] = @ + 1]
    /\ waiting' = waiting \ {j}

RecordStuck(w) ==
    /\ serial = None
    /\ at[w] = "stuck" /\ ~Fails(w)
    /\ IF job[w] \in queued
       THEN RequeueStuck(job[w])
       ELSE UNCHANGED <<ahead, stuck, waiting>>
    /\ Goes(w, "recorded")
    /\ UNCHANGED <<queued, held, history, folder, handed, active, serial, concurrency,
                   cooling, restarts, asked, pause>>

\* Mutant of SerialOf: no lock from the choice of the folder to the write.
SerialOf_None(w) == None

\* Who has the lock while w publishes a result.
SerialOf(w) == w

\* `publish` finds the first free folder,
PickFolder(w) ==
    /\ serial = None
    /\ at[w] = "done" /\ ~Fails(w)
    /\ \E n \in FreeFolders :
         /\ \A m \in FreeFolders : n <= m
         /\ dir' = [dir EXCEPT ![w] = n]
    /\ at' = [at EXCEPT ![w] = "publishing"]
    /\ serial' = SerialOf(w)
    /\ UNCHANGED <<job, tables, handed, active, concurrency, cooling, restarts, asked, pause>>

\* Mutant of HandOff: an error of the writer is passed over.
HandOff_Unchecked(w) ==
    /\ at[w] = "publishing"
    /\ handed' \in {handed, handed \cup {<<job[w], dir[w]>>}}
    /\ Goes(w, "handed")
    /\ UNCHANGED <<tables, active, serial, concurrency, cooling, restarts, asked, pause>>

\* hands the job off,
HandOff(w) ==
    /\ at[w] = "publishing"
    /\ handed' = handed \cup {<<job[w], dir[w]>>}
    /\ Goes(w, "handed")
    /\ UNCHANGED <<tables, active, serial, concurrency, cooling, restarts, asked, pause>>

\* and writes its output and history; if it was removed meanwhile the files go again.
Publish(w) ==
    /\ at[w] = "handed"
    /\ Finish(job[w], "Completed")
    /\ IF job[w] \in queued
       THEN folder' = [folder EXCEPT ![dir[w]] = job[w]] /\ UNCHANGED handed
       ELSE handed' = handed \ {<<job[w], dir[w]>>} /\ UNCHANGED folder
    /\ serial' = None
    /\ Goes(w, "recorded")
    /\ UNCHANGED <<active, concurrency, cooling, restarts, asked, pause>>

----------------------------------------------------------------------------
(* Failures.                                                               *)

\* The handoff cannot be written, or a write of the database fails: files that were
\* written go again, and the job waits for its backoff.
Relent(w) ==
    /\ \/ serial = None /\ at[w] \in {"done", "failed", "stuck"}
       \/ at[w] \in {"publishing", "handed"}
    /\ RetryJob(job[w])
    /\ handed' = handed \ {<<job[w], dir[w]>>}
    /\ serial' = IF serial = w THEN None ELSE serial
    /\ Goes(w, "recorded")
    /\ UNCHANGED <<active, concurrency, restarts, asked, pause>>

\* Mutant of Unrecorded: the claim goes at once.
Unrecorded_Drops == "recorded"

\* How a worker goes on when no retry time was stored either: it keeps the claim.
Unrecorded == "backing off"

\* Nothing can be written at all.
RecordNothing(w) ==
    /\ \/ serial = None /\ at[w] \in Outcomes
       \/ at[w] \in {"publishing", "handed"}
    /\ handed' = handed \ {<<job[w], dir[w]>>}
    /\ serial' = IF serial = w THEN None ELSE serial
    /\ cooling' = cooling \cup ({job[w]} \cap queued)
    /\ Goes(w, Unrecorded)
    /\ UNCHANGED <<tables, active, concurrency, restarts, asked, pause>>

\* The claim ends.
EndClaim(w) ==
    /\ at[w] = "recorded"
    /\ active' = active \ {job[w]}
    /\ at' = [at EXCEPT ![w] = "idle"]
    /\ job' = [job EXCEPT ![w] = None]
    /\ dir' = [dir EXCEPT ![w] = 0]
    /\ UNCHANGED <<tables, handed, serial, concurrency, cooling, restarts, asked, pause>>

(***************************************************************************)
(* A backoff takes minutes, in which the run loop looks every five seconds *)
(* and a claim whose result is recorded ends: it is over only where        *)
(* neither has anything to do.                                             *)
(***************************************************************************)
MinutesPass == ~Claimable /\ \A w \in Workers : at[w] # "recorded"

BackedOff(w) ==
    /\ at[w] = "backing off"
    /\ MinutesPass
    /\ cooling' = cooling \ {job[w]}
    /\ Goes(w, "recorded")
    /\ UNCHANGED <<tables, handed, active, serial, concurrency, restarts, asked, pause>>

RetryDue(j) ==
    /\ j \in waiting
    /\ MinutesPass
    /\ waiting' = waiting \ {j}
    /\ cooling' = cooling \ {j}
    /\ UNCHANGED <<queued, ahead, held, stuck, history, folder, handed, active, serial, worker,
                   concurrency, restarts, asked, pause>>

\* The process stops anywhere and starts again; `restore` reads the pause.
Crash ==
    /\ restarts < Restarts
    /\ restarts' = restarts + 1
    /\ active' = {} /\ serial' = None /\ checked' = {} /\ pausing' = {}
    /\ at' = [w \in Workers |-> "idle"]
    /\ job' = [w \in Workers |-> None]
    /\ dir' = [w \in Workers |-> 0]
    /\ paused' = stored
    /\ cooling' = waiting
    /\ concurrency' \in Concurrency
    /\ UNCHANGED <<tables, handed, accepted, removed, stored>>

Works(w) ==
    \/ Attempt(w)
    \/ RecordFailed(w) \/ RecordRetry(w) \/ RecordStuck(w)
    \/ PickFolder(w) \/ HandOff(w) \/ Publish(w)
    \/ Relent(w) \/ RecordNothing(w)
    \/ EndClaim(w) \/ BackedOff(w)

Next ==
    \/ \E j \in Jobs :
         \/ Check(j) \/ Insert(j) \/ Refuse(j) \/ Remove(j) \/ Hold(j) \/ Collect(j)
         \/ RetryDue(j)
         \/ \E w \in Workers : Claim(w, j)
    \/ \E p \in Pauses : StorePause(p) \/ SetPaused(p)
    \/ SetConcurrency
    \/ \E n \in 1 .. Folders : DeleteFolder(n)
    \/ \E w \in Workers : Works(w)
    \/ Crash

Spec == Init /\ [][Next]_vars

(***************************************************************************)
(* The run loop looks again and again, requests and the watchdog bound an  *)
(* attempt, and clocks run.  Nobody has to submit, resume or collect, and  *)
(* nothing has to fail.                                                    *)
(***************************************************************************)
Fairness ==
    /\ WF_vars(\E w \in Workers, j \in Jobs : Claim(w, j))
    /\ \A w \in Workers : WF_vars(Works(w))
    /\ \A j \in Jobs : WF_vars(RetryDue(j))

FairSpec == Spec /\ Fairness

----------------------------------------------------------------------------
Stages == Outcomes \cup {"importing", "publishing", "handed", "recorded", "backing off"}

TypeOK ==
    /\ queued \cup checked \cup active \cup accepted \cup removed \cup cooling \subseteq Jobs
    /\ held \cup waiting \subseteq queued
    /\ ahead \in [Jobs -> SUBSET queued]
    /\ stuck \in [Jobs -> 0 .. StuckLimit - 1]
    /\ history \in [Jobs -> {"Completed", "Failed", None}]
    /\ folder \in [1 .. Folders -> Jobs \cup {None}]
    /\ handed \subseteq Jobs \X (1 .. Folders)
    /\ serial \in Workers \cup {None}
    /\ at \in [Workers -> {"idle"} \cup Stages]
    /\ job \in [Workers -> Jobs \cup {None}]
    /\ dir \in [Workers -> 0 .. Folders]
    /\ \A w \in Workers : at[w] = "idle" <=> job[w] = None
    /\ concurrency \in Concurrency
    /\ stored \in BOOLEAN /\ paused \in BOOLEAN /\ pausing \subseteq BOOLEAN
    /\ restarts \in 0 .. Restarts

(***************************************************************************)
(* No two workers ever import the same job, and a job is active exactly    *)
(* while one does ("two jobs never claim the same row").                   *)
(***************************************************************************)
OneWorkerPerJob ==
    /\ active = {job[w] : w \in Busy}
    /\ \A v, w \in Busy : job[v] = job[w] => v = w

(***************************************************************************)
(* A job whose submission succeeded is in one place: in the queue, in the  *)
(* history, or removed by a user, whatever crashes, fails to be written or *)
(* is removed while it is imported.                                        *)
(***************************************************************************)
NothingLost ==
    \A j \in accepted :
        \/ j \in queued /\ history[j] = None /\ j \notin removed
        \/ j \notin queued /\ history[j] # None /\ j \notin removed
        \/ j \notin queued /\ history[j] = None /\ j \in removed

\* "The same NZB sent twice at once queues once."
SameContentOnce == \A j, k \in queued : Content[j] = Content[k] => j = k

\* Nothing is imported twice: no job by two workers, no content from two rows.
NothingTwice == OneWorkerPerJob /\ SameContentOnce

(***************************************************************************)
(* "The folder found free stays free until the write": what is published   *)
(* or handed off never meets another job's files.                          *)
(***************************************************************************)
FolderStaysFree ==
    \A w \in Workers : at[w] \in {"publishing", "handed"} =>
        /\ folder[dir[w]] = None
        /\ \A j \in Jobs \ {job[w]} : <<j, dir[w]>> \notin handed

(***************************************************************************)
(* "Completes only once handed off": a folder holds the output of a job    *)
(* that completed, and its files are there until an Arr takes them; files  *)
(* of a job that did not complete are being published, or were left by a   *)
(* crash.                                                                  *)
(***************************************************************************)
HandedOff ==
    /\ \A n \in 1 .. Folders : folder[n] # None => history[folder[n]] = "Completed"
    /\ restarts = 0 => \A h \in handed :
           \/ history[h[1]] = "Completed"
           \/ \E w \in Workers : at[w] = "handed" /\ h = <<job[w], dir[w]>>

\* A job completes only in the step that finds its files handed off.
CompletesHandedOff ==
    [][\A j \in Jobs : history[j] # "Completed" /\ history'[j] = "Completed" =>
           \E n \in 1 .. Folders : folder'[n] = j /\ <<j, n>> \in handed']_vars

(***************************************************************************)
(* A job whose attempt failed is not imported again before its backoff is  *)
(* over, even where no retry time could be stored.                         *)
(***************************************************************************)
NotRerunAtOnce ==
    [][\A w \in Workers : job[w] = None /\ job'[w] # None => job'[w] \notin cooling]_vars

(***************************************************************************)
(* A job that is due is tried, however often others fail, stall or come    *)
(* before it, unless a user pauses, holds or removes it: provided users do *)
(* not hold and release jobs for ever, and the database can be written.    *)
(***************************************************************************)
JobsAreTried ==
    <>[][held' = held /\ ~ \E w \in Workers : RecordNothing(w)]_vars =>
        \A j \in Jobs :
            j \in Due /\ ~paused ~> \/ \E w \in Workers : job[w] = j
                                    \/ j \notin queued \/ j \in held \/ paused
=============================================================================
