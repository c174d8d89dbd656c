# Verification of InfiniDysk

InfiniDysk is a Usenet-backed virtual filesystem in Rust: it mounts releases it
never downloads, and streams them from NNTP providers while they are read. The
Arrs (Sonarr, Radarr) use it as a download client. This directory holds TLA+
modules of its concurrent core, the configurations that check them with TLC, and
theorems about them that TLAPS proves for every value of the constants.

Paths below are under `src/crates/`. `PROJECT.json` maps every definition to the
lines it models, names the hazards and the properties that watch them, and gives
for every checked property a plausible bug (a *mutant*) that it catches; the
mutants stand in the modules right before the definitions they change.

    tlc -workers 4 -config MCPool.cfg MCPool
    tlapm PoolProofs.tla

- [The system](#the-system)
- [What is hard about it](#what-is-hard-about-it)
- [The modules](#the-modules): one section each, with state, actions, runs, bounds, fairness, proofs
- [Where code and comments differ](#where-code-and-comments-differ)
- [What is proved and what is only checked](#what-is-proved-and-what-is-only-checked)
- [What is not modelled](#what-is-not-modelled)
- [Plan](#plan)

## The system

A read of a mounted file, a health check and an import all come down to fetching
articles; an import comes from an Arr and ends as rows in the database and
symlinks or STRM files in a folder an Arr collects.

    media server                              Arr
        | FUSE / WebDAV                        | SABnzbd API
    virtual files (vfs)                    import queue (queue) ---- database (db)
        |                                      |      |
    stream window, gaps (stream)  <--- import steps   handoff (infinidysk)
        |
    shared fetches, disk cache (stream/cache, disk)
        |
    provider cascade (nntp/client) -- misses, breakers, quotas, exclusive lease
        |
    connection pool per provider (nntp/pool) -- download slots (nntp/downloads)
        |
    NNTP connections

| Component | State it keeps | Operations | What makes it correct | Module |
|---|---|---|---|---|
| Download slots, `nntp/src/downloads.rs` | free slots, two lanes of waiters | `acquire`, `Permit::drop`, `release` | no slot is lost, nobody sleeps beside a free slot, playback first, each lane in order | `Downloads` |
| Connection pool, `nntp/src/pool.rs` | workers with loads, connects under way, learned limit, recent refusal | `fetch`, `prewarm`, the connection tasks, `close_idle` | the provider's limit, loads that match requests, wake-ups that come, fetches that end | `Pool` |
| Circuit breaker, `nntp/src/breaker.rs` | failures in a window, open until, probing, next cooldown | `attempt`, `finish`, drop | one probe; only it decides; trips are earned | `Breaker`, `Circuit` |
| Provider cascade, `nntp/src/client.rs`, `missing.rs` | order of providers, memory of misses, quotas | `request` | a result is certain; failover is complete | `Cascade` |
| Exclusive lease, `nntp/src/client.rs` | gate, token, count of admitted requests | `admit`, `prewarm`, `warm`, `exclusive`, drop of `Lease` | a test has the providers to itself, playback preempts it, nobody is shut out | `Lease` |
| Shared fetches, `stream/src/cache.rs` | memory and disk tier, map of flights | `body`, `flight`, drop of `Landing` | one fetch per article, driven while anybody wants it | `SingleFlight`, `SharedFetch` |
| Stream window, `stream/src/lib.rs` | leases on a budget, window of segments, a hedge | reads, seeks, fetch tasks | the right segment, bytes in order, no reader starves at the budget | `Window` |
| Disk cache, `stream/src/disk.rs` | index, bytes used, files | insert, read, evict, scan | index and files agree, eviction never takes what is newer | planned |
| Virtual files, FUSE, WebDAV, `vfs`, `fuse`, `webdav` | item tree, sessions, handles | lookup, read, release | reads of one handle stay ordered | planned |
| Import queue, `queue/src/service.rs` | active jobs, pause, folders, tables `queue` and `history` | submit, claim, process, publish, remove, pause | a job is imported by one worker, has one result, completes only handed off | `ImportQueue` |
| Handoff, `infinidysk/src/handoff.rs` | files in Arr folders, rows naming them, a gate | look, write, undo, discard, sweep | no file is left behind, none of another job goes, a hung directory stops nobody | `Handoff` |
| Database choice, `infinidysk/src/database.rs`, `db/src/transfer.rs` | boot file, change log, both databases | `start`, `cancel`, `cutover`, copies and syncs, the switch at boot | no acknowledged write is lost, whatever fails on the way | `Migration` |
| Backups, `infinidysk/src/backup/` | live set, staged copy, undo copy, intent | stage, request, the phases at boot, roll back, undo | what is opened is whole, nothing written is lost | `Restore` |
| Library conversion, `infinidysk/src/library.rs`, with `arr/reconcile.rs`, `arr/webhook.rs` | the run, the journal, library files, owners and items | start and cancel, walk, the steps of a row, rescans; deliveries, reconciliation | no item loses its last pointer or goes by mistake, rescans are remembered, the status is true | `Conversion` |
| Gaps, `stream/src/gaps.rs` | segments recorded as holes | record, look up | damage is counted once | planned |
| Maintenance, health, repair, `infinidysk/src/maintenance.rs`, `health`, `arr` | one slot, holds, nightly window, due checks | start, hold, check, repair | one job at a time, holds end | planned |

The other components (protocol text, parsers, settings, the web interface, the
import from 1.x, test tools) are listed in `PROJECT.json` with the reason they
have no module.

How the parts touch: requests share the breakers and the memory of misses by
reference under small mutexes and are cancelled by being dropped at any await;
the cascade asks one pool after another; a pool wakes its callers through a
`Notify` and hands connections requests over a channel; all pools share one
`Downloads`; queue workers share an `active` set and one lock (`serial`) for
everything that publishes; the database is the only thing that survives a crash.

## What is hard about it

- **Steps between unlock and effect.** `release` (downloads.rs) sends a permit
  after it unlocks; `Landing::drop` (cache.rs) locks after the last reference is
  dead; a pool call looks, then registers, then waits; `set_paused` stores, then
  sets.
- **Cancellation.** Every future may be dropped: a probe, a waiter, a reader that
  drives a fetch others wait for, a call whose connect goes on without it.
- **Late outcomes.** A request admitted before a breaker tripped, or sent on a
  connection that dies, reports after the state has changed.
- **Shared memory of results.** A miss is remembered for a whole backbone; a
  corrupt copy or a failure taken for a miss makes an article disappear.
- **Partial failure and crashes.** A publish writes files, then a transaction;
  either may fail, users remove jobs meanwhile, the process may stop between.
- **Liveness.** Two priorities on every queue, retries that must end, jobs that
  stall for ever, a gate that background work waits at while playback goes on.

`PROJECT.json` lists 40 such hazards with their lines and the properties that watch
them. Four have none, with the reason.

## The modules

Conventions: a step is what the code does under one lock or between two awaits; a
cancellation is an action of its own, enabled wherever the future may be dropped;
an operator with an underscore (`Queued_OwnLane`) is a mutant and no part of the
model. History variables (`failed` and `factor` in `Breaker`, `early` in `Lease`,
`turned` and `reached` in `Cascade`, `accepted`, `removed`, `cooling` in
`ImportQueue`, `blind`, `lost`, `spoiled`, `taken` in `Handoff`, `doubt`, `kept` in
`Migration`, `written`, `dropped`, `cut` and the intent's `was` and `goal` in `Restore`,
`fresh`, `crossed`, `past` in `Conversion`) record the past for a property and enable nothing but, in
`ImportQueue`, that a job is submitted once. A *mishap* (a *surprise* in `Window`
and `Conversion`) is anything that need not go wrong; a constant bounds how many do.
The MC modules give constants their values, and `MCImportQueue` an order to what is
alike.

### Downloads

`free`, `urgent` and `background` are the fields behind the mutex; `call[r]`,
`slots[r]`, `target[r]` are where a call, its permit and the `release` its drop
runs have come to. A waiter that gives up leaves its entry in the lane, closed,
until a release meets it or a sweep (`SweepAt`, the lengths at which `acquire`
sweeps) removes it. `release` is four actions: dropping the permit, locking and
taking a waiter (`HandOn`), sending outside the lock (`SendOk`, `SendFailed`,
which goes back into the loop), ending.

Run **downloads**: three playback and two background calls over three slots, with
weights 0 (raised to 1), 2 and 5 (capped at 3). Five calls give each lane a
heavy and a light waiter and leave one call to release; the lanes' closed
entries, a failed send and a call for all the slots occur together. It shows
`NoStrandedWaiter` (a waiter has somebody to wake it; not that slots are never idle:
one behind a heavier waiter that left waits for the next release, though there is
room), `InTurn` (playback first, each lane in order), and, fairly,
`WaitersServed`: playback calls and, once playback pauses for good, background
calls are served or give up.
*Fairness*: permits are dropped in the end (requests time out), and `release`,
which is a loop without awaits, runs on.

Proved: `TypeOK`, `Conservation`, `NoStrandedWaiter`, `InTurn` and its two halves
`PlaybackFirst` and `NoOvertaking`, for any calls, weights and slots. The invariant
adds: where every name is in the lanes (`LaneInv`), that a permit on its way has a
target that is waiting or has left and is in no lane (`TargetInv`), that slots are
held in the phases that hold some (`SlotInv`), and that while a lane has entries
somebody holds slots or runs `release` (`BusyInv`); without `BusyInv` a closed entry
could hold back newcomers with all slots free. `DownloadsProofs` begins with the
facts on counting.

### Breaker and Circuit

`Circuit` is the abstract breaker: closed, open or probing, which attempts are
admitted and how each leaves. `Breaker` is `breaker.rs`: failure window,
coalescing of bursts, trip, ladder of cooldowns, probe, forced attempts, ignored
outcomes, drop of an unfinished attempt, over a clock. `IsACircuit` is the
refinement, with `AsCircuit` as its mapping; `Cascade` is built on `Circuit`.

Run **breaker**: three attempts (symmetric), window 6, coalescing 2, three
failures to trip, cooldowns 2, 4, 5 and a clock up to `MaxTime` = 13: enough for
a trip, a failed probe, a second trip at the cap and a late outcome from before
the first. Deadlock checking is off: the bounded clock stops. It checks
`TripsAsDocumented` (a closed breaker that opens has seen enough failures, spaced
and within the window, and the cooldown is where the ladder says) and the
refinement.

Proved for any number of attempts and any durations: `BreakerTypeOK`, `OneProbe`,
`OnlyTheProbeDecides` and the refinement `Spec => IsACircuit`; the first two are
inductive together, the others follow step by step. For
`TripsAsDocumented` the invariant `CountStands` names the recorded failures that the
count stands for; it needs `Coalesce` above 0 (two seconds in the code), as two
failures at one instant could otherwise both count. The ladder is stated by the factor
the trips have come to, so that its proof needs no powers.

### Cascade

`Client::request` as a walk over the providers: the order of preference (any
order of equals, as least-load balancing gives), passes over siblings of a missed
backbone, used-up quotas, remembered misses and open circuits, the fetch, and its
six ends (delivered, denied, corrupt, failed in two ways, no slot), the second,
forced pass and the final result. Each provider's breaker is an instance of
`Circuit`. `store` is what the backbones really have. Two things the code takes
as given, the model does too: providers of one backbone store the same, and a
copy that decodes badly is stored badly. What a miss is remembered for ends any
time (`Forget`), quotas are used up and renewed any time (`Meter`).

Run **cascade**: a body request and a STAT at once over two providers of one
backbone, the second one level down and metered, with every order, outcome and
quota, each request cancelled anywhere. It checks `NotFoundIsCertain`, where what
one request remembers serves the other, `NoCopyOverlooked`,
`OpenCircuitsAreTried`, and `BreakersAreCircuits`: every use of a breaker is a step
of `Circuit`, so a cancelled probe gives its place back. Two providers are the
fewest with a sibling and another level, two requests the fewest with one in
flight while the other adds to what is remembered. With one backbone the run cannot
tell a corrupt copy from a miss that another backbone makes up for: that a result of
"corrupt" is certain is proved only (`CorruptIsCertain`).

Proved for any providers, backbones and concurrent requests: `TypeOK`,
`NotFoundIsCertain`, `CorruptIsCertain`, `NoCopyOverlooked`. The invariant `Sound`
says what the locals of a request under way know: what counts as missed has no
intact copy, and every provider behind it with one was skipped or failed, which
the flags remember. `OpenCircuitsAreTried` needs (`Trying`)
that `attempted` is set exactly when a provider was reached, and that in the forced pass
only a used-up quota makes the walk skip anybody. The refinement
`BreakersAreCircuits` goes step by step: most steps leave a provider's breaker alone,
the others are the step of `Circuit` they claim to be, which the attempt in the
request's hands (`Sound` again) makes possible.

### Lease

`admit`, `prewarm`, `warm` and `exclusive` with the lease it returns. The gate is
tokio's `RwLock`, external, modelled as first come first served (`queue`,
`readers`, `writer`). `preempt`, the tokens and the count of admitted requests
are guarded separately in the code, so each use is a step. `phase = "draining"`
is a request whose caller has gone while a connection still reads its reply: it
is still load on the pool, which `Quiet` looks at.

Run **lease**: two streams, two background requests, a warmer and two tests, so that
a lease is dropped while the next waits. It checks `LeaseHolds` (a held lease has
the providers to itself, `HeldAlone`, but for streams that looked before its token
was published, `OnlyEarlyStreamsSlipBy`), and `GateOpensAgain`: whoever waits at the
gate gets through or leaves, however long playback goes on. *Fairness*: each call's
own steps happen, requests end (they time out), and a test gives up when `drain` has
passed; nobody is forced to cancel.

Proved for any numbers of callers: `LeaseTypeOK`, `LeaseHolds` with its two
parts, `TokenInReach`. The invariant adds that the gate is never open and shut
at once, that past `Settle` no background work is left (`Quieted`), and that a
stream on its way looked before the token was there or has cancelled it
(`Early`).

### SingleFlight and SharedFetch

`SharedFetch` is the promise: readers that ask share one fetch; it goes on while
one of them wants it; all get its result. `SingleFlight` is `cache.rs` for one
article: the map of weak references (`inflight`), the flights with their
generation, the readers that hold and drive them, the landing that takes the
entry out when the flight ends or its last reader goes, and the gap between that
reader's going and the landing's lock. `IsShared` is the refinement. Each tier is
one bit, filled and evicted any time.

Run **single_flight**: four readers and four flights, enough for one flight being
driven, one landed and two whose landings are still to be dropped. It checks
`IsShared` and `ReadersServed`. *Fairness*: a flight
that is held is polled, its fetch ends (the client's requests time out), landings
drop, readers that are served return.

Proved for any readers and flights: `FlightTypeOK`, `MapIsCurrent`, `WantedOnly` (the
three are inductive together) and the refinement `Spec => IsShared`.

### ImportQueue

The service over its tables: `queued`, `held`, `waiting` (a retry time is set),
`ahead` (the order of requeues), `stuck`, `history`, `folder`; the files in
the Arrs' reach are `handed`; `active`, `serial`, `concurrency`, `paused` are
memory; `at`, `job`, `dir` are the workers. Submission is a check and an insert
under the lock of submissions; a claim takes what `next_jobs` gives beyond the
active ones; an attempt ends in one of `Outcomes`, and each end is recorded in a
transaction that may fail, with the fallbacks the code has, down to a backoff in
memory; publishing picks a folder, writes the files, then commits. `Crash` is
enabled anywhere and keeps the tables and files.

Run **queue**: two jobs, either of one content or of two priorities, two folders
and two workers, with everything users do, pauses and a crash (436,000 states). It
checks `NothingTwice` (one worker per job, one queued row per content),
`FolderStaysFree`, `NothingLost`, `NotRerunAtOnce`, `CompletesHandedOff` and
`JobsAreTried`. Two folders make publishing run out of them; two stalls fail a job
(three in the code: the last of several, and one before it); `Restarts` = 1 as a
second crash meets no state the first does not leave; users pause and do not
resume, which would lead back to states without a pause.
The action constraint `InOrder` has the first free worker claim and the first of
two jobs of one content be submitted first: nothing tells the others from these
(a symmetry set would not do beside liveness). It also bounds submissions.
*Fairness*: the run loop claims while it can, each worker goes on (the watchdog
bounds an attempt) and retry times come; nobody has to submit, pause, resume or
collect, nothing has to fail.
`JobsAreTried` is claimed where users do not hold jobs for ever and the database
can be written: both are conditions of the property, not of the fairness. With two
jobs and two workers a free worker is never far: that jobs of a high priority keep
one of a low priority waiting while the house is full is not explored.
`MinutesPass` is the one assumption about time: a backoff of minutes outlasts a
claim of the run loop, which looks every five seconds.

Proved for any jobs, workers, folders and crashes: `TypeOK`, `NothingTwice` with its
parts `OneWorkerPerJob` and `SameContentOnce`, `NothingLost`, `FolderStaysFree`,
`HandedOff`, `NotRerunAtOnce`, `CompletesHandedOff`. The invariant ties the parts
together:
the lock is the publishing worker's (`Locked`), tables partition what was
accepted (`Rows`), a job that is imported has no result yet (`Underway`), one
submission is under way, of new content (`Submitted`), the files of the job being
published are there (`Files`), and a cooling job keeps its retry time or its claim
(`Cool`).

Left out: invalid and rejected submissions, history retries, first health checks,
NZB blobs and their retention, the creation of category folders, the count of
attempts, write permits, more than one category or name. `Free` is reliable,
whereas `handoff.rs` takes an I/O error for "not taken". A panic only happens
during the attempt. A commit that takes effect but reports an error is in
`Handoff`.

### Pool

The connections of one provider. `task[c]` and `attempt[c]` are a connection's
task and the connect that makes it, `opener[c]` the call that waits for that
connect (it may leave; the connect goes on), `load[c]` its load, `queue[c]` what
was sent to it and is not answered (the channel and the requests in flight are
one queue, answered in order), `dropping[c]` loads about to be dropped, `ringing`
a wake-up about to be sent; `limit` is the learned limit and `down` the
remembered refusal. `pc[k]` is where a fetch is: `start`, `declined` (registered
with the `Notify`, nothing suited), `waiting`, `opening`, `racing` (a tired stream
takes whichever is first), `sending`, `sent`, `done`. Names in `Conns` are used
again.

Run **pool**: a hedge and a background call over at most two connections, with
headroom from two up (`HeadroomFrom`; four in the code, the same pattern at
half the size), one retry of either kind, and one mishap: the bound `Mishaps`
covers prewarming, a connection that dies, an idle one that is closed and a
regrowth of the limit. Two connections are the fewest with a last slot to keep
free. It checks `WithinLimit`, `NoStranded` and `FetchEnds`;
deadlock checking is off, as the calls end. `AtMost`, the cap when a connect that
has just joined counts twice, never binds at two connections; the proof covers it.
*Fairness*: each call's own steps, connects and reads end (they time out), loads
are dropped and wake-ups sent; nobody has to leave, and the limit need not
regrow. `FetchEnds` depends on the bound on regrowth: two connects to a dead
provider that both fail before the first gives its slot back each count the other
as live, throttle the limit by one, and go round without counting a retry
(pool.rs 629-660); if the limit regrew every time, they could do so for ever.

Proved for any calls, connections and limits: `TypeOK` (the limit stays between
1 and `MaxConnections`), `WithinLimit`, `LoadIsRequests`, `NoStranded`. The
invariant adds that a connect has no load yet (`Blank`), a call waits for at most
one connect and a connect for at most one call (`Owned`), requests are sent
somewhere and only streams race (`Placed`), and that while anybody listens
something is stirring (`Heard`): a connect, a wake-up or a load. The key lemma is
`DeclineHears`: a look at the pool that finds nothing cannot happen with nothing
under way, since headroom is never held at a limit of one. That is why the
assumption `HeadroomFrom > 1` is there; the code has 4.

Left out: the warm floor and the retiring of connections above it, the quota's
part in the pool, `abort`, the download permits (they are `Downloads`), the
sink that consumes a body, counters. The model keeps no order of workers, so of
equally loaded connections either may be taken. A task cut off by `close_idle` is
about to close its socket and no longer counts, so for a moment there may be
one more socket than the limit.

### Handoff

The STRM strategy of `handoff.rs`, with the publishing of `queue/src/service.rs`
around it. `disk` and `dirs` are the completed directory; `rows`, `tree`, `history`
the tables; `at` and `name` the publish that runs (the queue holds `serial`, so
there is one); `gate` is `busy`, and `work`, `todo`, `done` what a thread on the
directory does, which goes on after its caller gave up; `sweep`, `seen`, `checked`
the sweep between its read of the rows and its deletes, and `hand` what it found at a
path it is about to remove: `ours` and `remove` are separate calls of a thread
without the gate (`SweepLook`, `SweepRemove`). Everything is numbered by
the publish it comes from, so that a file says whose it is. `free_dir` is
`PassName`, `Look`, `Looked`, `LookFails`; `bounded` is `StartWrite`, `Refused`,
`GiveUp`, `Written`, `Finished`; the transaction is `Finish`, `NotFinished`,
`FinishUnsure`; the rest is `Undo`, `Discard`, an Arr's `Collect`, users' deletes,
the sweep and `Crash`.

Run **handoff**: two publishes, two folder names, one mishap (653,000 states).
Two publishes are an older one whose thread is late and a newer one in its place,
two names let the newer one evade; with one mishap each fault meets every
schedule, but not a second fault. It checks

- `OthersAreSpared`: no thread writes or removes another publish's file, however
  late it is, except after a look at a name that failed: `taken` counts an I/O
  error as free (handoff.rs:301);
- `NothingLeftBehind`: a file no row names is being worked on, or one the process
  can lose: a crash between files and transaction (the sweep goes by rows), a
  write that fails after its rename, a file that could not be removed, of which
  the sweep forgets the row all the same (handoff.rs:256-262), and a row forgotten
  for an older one of its path;
- `KeptForTheArr`: a completed job's files stay until collected, with three
  exceptions: a commit that took effect but reported an error is answered by a
  discard (service.rs:688-696), a sweep that read an older row of a subtitle's path
  compares only sizes, and one that found the older file itself at a path removes what
  has been written there since (handoff.rs:254-256): an Arr collected the older file,
  and a newer publish took the path, while a call on the directory hung;
- `HangsPass`: a publish ends even if the directory never answers, and if it does
  answer the gate opens again.

*Fairness*: the publisher's own steps, whose timeouts fire; nothing is said of the
directory, except as the condition of the second half of `HangsPass`. Deadlock
checking is off: publishes run out. A failed first write leaves its empty folder,
so that each retry takes another name and after the last (99 in the code) the job
fails as a duplicate; the model has this and no property forbids it. Discarding is
neither gated nor bounded in the code, and is not in the model either.

Proved for any publishes, folder names and mishaps: `TypeOK`, `OthersAreSpared`,
`NothingLeftBehind`, `KeptForTheArr`. The invariant adds that a thread works exactly
while it holds the gate (`Gated`), that a publish has nothing on disk or in the tables
before its turn (`Unused`), that no item has the name a publish works on, unless its
commit was unsure (`Named`), that while it is active nobody else has files at its
paths (`Placed`), that it knows what it has still to remove (`Known`) and has all it
wrote when it completes (`Whole`), that what a sweep read is of nobody's current files
(`SeenStale`), and that it removes nothing that it did not take for its row's
(`HandOurs`). `Placed` is what a late thread relies on: its name stays untaken because
the gate makes every look wait for it.

Left out: the symlink strategy, which writes no files, a change of the STRM
directory, the unions of several categories, and a second sweep beside the first (the
cleanup of the history and the daily maintenance each run one).

### Migration

Which database the app runs on (`infinidysk/src/database.rs`) and the move from SQLite
to PostgreSQL (`db/src/transfer.rs`). `visible` is the boot file and `atRisk` what a
host crash may leave of it: a save may fail before its rename, or after it at the sync
of the folder. `file` is the copy in memory. Contents are abstracted to the keys in
which the databases differ: `behind` against SQLite as it is, `apart` against the
worker's snapshot; `capture`, `batch` and `since` are the change log before and after
that snapshot. `start`, `cancel`, `cutover` are actions for each step that can fail, and
the client of a call may leave before each, which drops the rest: `StartSaves` without a
save, `CancelCleans` without its cleaning, and `CallDropped`, after which the worker is
"gone", as it was stopped and nothing starts it again (database.rs:581-587, 627-636).
The worker's passes are `BeginCopy` to `Collides`, the boot's decisions `StartPostgres`
to `StartEnv`, the switch `SwitchApply` to `SwitchUnsure`. `Upgrade`, `FileLost`,
`FileRestored`, `HostCrash` and `Disturbed` (somebody writes to the target) are the
world's.

Run **migration**: two rows, one newer build, three mishaps (80,000 states). Two
rows are the fewest with one copied and one changed meanwhile; three mishaps are a
save that fails, the crash that undoes it, and a failure after. It checks
`NoWriteIsLost` (the app never runs on a database that lacks a write it
acknowledged), `LogIsTrue` (while the move reports to be in sync the log has every
key that differs, `SyncedIsTracked`, and there is a log for a move only, but for what
a failed call left, `CaptureOnlyForAMove`), and `MoveGoesOn`: copies and
switches end although the app goes on writing, unless a call was dropped that had
stopped the worker. *Fairness*: the worker, the switch
and boot go on; the mishaps are bounded.

`doubt` marks the ways in which PostgreSQL may differ without the log's knowledge,
which the comparison at the switch then finds: somebody else wrote there; SQLite
runs with `synchronous = NORMAL`, so a host crash may lose commits that were
copied; a restored backup may bring its own triggers and log; and a reconcile
whose save fails is trusted by the next start. `kept` marks a log that is on without a
move, until it is next removed: a cancel could not remove it (database.rs:596-599), or a
start turned it on and then could not read the schema's version (536), or neither save
nor remove it again (547-549), or its client left before the save.

Outside the model: a boot file lost beside a SQLite file that was not yet renamed, an
environment URL that names SQLite after the switch, and commits in SQLite that a host
crash loses, other than by `doubt`.

Proved for any rows, upgrades and mishaps: `TypeOK`, `NoWriteIsLost`,
`LogIsTrue` with its two parts. The invariant says that the move is one
way (`OneWay`: once PostgreSQL took a write, no crash leaves a boot file that says
otherwise), how worker, calls and file agree (`InStep`), when changes are logged
(`Logged`), that no file is of a newer build (`Schemas`), and during each step of a
pass where a differing key is (`Tracked`): still to copy, or logged since.

### Restore

A restore and its undo at boot (`backup/boot.rs`, `mod.rs`, `api.rs`). `dir` says
whose database each file is: main file and write-ahead log of the live set, the
staged copy, the undo copy and the one set aside by an undo. `images` is everything a
host crash may leave of it: each rename or removal since the last sync of the folder
survives or not, one by one. `intent` is the request with its phase, and `intents` what
may be left of that; its `was` and `goal` are history, the database that was live when
it was written and the one it asks for. The phases are `MoveFile`, `Moved`, `Synced`,
`NextPhase`, one file at a time. `bad` are databases this build cannot open, `needs`
those whose last commits are only in the log.

Run **restore**: two restores, one undo, four mishaps (369,000 states): a
restore over an older undo copy, its roll-back, and failures of both; with four mishaps
a crash meets a recovery from a crash, after a save that failed and a copy that did not
open. It checks `OpensWhole` (what is opened has its
main file, its own log, and no other's), `WritesSurvive` (nothing the app wrote is
lost until the user lets it go), `RequestKept` (the outcome is what was asked for
or what there was) and `RequestEnds`. *Fairness*: the process is started again,
boot goes on, and a saved request restarts the app. The one exception to
`OpensWhole` is `cut`: a deletion of the undo copy has no sync and goes file by
file, so a crash may leave a main file without its log, which an undo would take.

Proved for any restores, undos and mishaps: `TypeOK`, `OpensWhole`, `WritesSurvive`,
`RequestKept`. The heart of the invariant is `Explained`: every folder a crash may leave
is explained by every intent it may leave with it, phase by phase, which is how the
boot that follows, knowing only the intent, can go on. That each phase is synced before the
next one is named (`Clean`) makes it inductive: of the folder and the intent only one is
ever uncertain while boot moves files. Beside it stand where the process can be
(`Control`), that a database has its main file in one place (`Apart`), that no crash
exchanges the database that is open (`Steady`), and what the next step relies on
(`Ready`).

Left out: making, verifying, naming and pruning of backups, and space on disk.

### Window

A file's readers and the budget they share (`stream/src/lib.rs`). `window[r]` is a
reader's `head`, `next` and the fetches between, each with its stage (`chained` to
the fetch before it, `queued` for budget, `running`, `done`, `failed`), its permit,
the flag that lets it go over budget, and of a streaming body what the present
connection sent, what reached the reader and what the reader saw. `line` is the
semaphore's queue, `hedge` the request that races the head, `strays` the fetches a
reader saw to the end and left running. A poll of a read is one step (`ReadInHand`,
`ReadHead`, `ReadFails`, `Wait`), with everything `align`, `schedule` and `cancel`
do in it.

Run **window**: a reader of three segments of two units, the last a hole, and one
whose only segment takes the whole budget of two; windows of two; one surprise (a
seek, failure, body sent again, read given up, hedge or reopened reader; 42,000
states). It checks `InPlace` (no segment is served as another, `Aligned`, and a body read
while it comes is given once and in order, however often it was sent again,
`StreamedInOrder`), `BudgetInTurn` (only the segment a read is blocked on goes over
budget, and a reader's segments get theirs in order) and `ReadsReturn`: a read returns
even if other readers hold the budget and never read on. *Fairness*: fetches and
hedges end (they time out) and reads are polled when woken; nobody has to go on
reading.

`Shares` is who holds budget for a segment: its fetch, the reader that has it in hand,
the strays. `Held` is all of it, piece by piece, and `Free` what is left; that `Free` is
never negative is part of `BudgetInTurn`, since the semaphore's permits travel from a
fetch to the hand or to a stray and must not be doubled on the way.

Proved for any readers, files, windows and budgets: `TypeOK`, `InPlace` and
`BudgetInTurn`. The invariant `WInv` says of every window that it is `Good`: each fetch
is for the segment of its place, holds the beginning of that segment, and asks for
budget only once those before it have; behind the head none is let through without.
`Good` is kept by the operators windows are made with (`Align`, `Fill`, `Popped`,
`Replace`, each with a lemma), and so by the steps that combine them. The budget is a
counting argument on top: what is held after a step was held before it, or was handed
on by one that no longer holds it (`Handed`), or was free and is taken (`Taken`).

Left out: strict readers, growth of the window after an open, how much damage a
file may have (a hole is filled or fails the read, either way), and byte offsets
within units.

### Conversion

A library is converted from symlinks to STRM files or back
(`infinidysk/src/library.rs`): the job renames each pointer to its other form, moves
the Arr's ownership with it and has the Arr rescan. The model follows one file of
one Sonarr or Radarr, in one folder; the others are there only in that they may
come before it, after it or fail. `disk` says whose file is at each place (a name
and a form); `arr` is the Arr's record of the file, with an id it changes when it
finds the file anew, and `event` its delivery under way; `run`, `journal`, `owner`,
`item` are the tables; `state`, `stop` and `calls` what users see and ask; `pc`,
`job`, `rows`, `todo`, `cur` the task.

`ReadRun` and `Begin` are `convert`; a pass then resumes what an earlier one left
(`Resume`), walks the folder (`Walk`, `Keep`, `Look`) and asks for rescans (`Remap`
to `Rescanned`). A row goes through `Intend`, `Write`, `Written`, `Owners`, `Moved`,
`Remove`, `Removed`, with `Forget`, `Undo` and `Return` where a step finds the file
changed, each a step of its own between two awaits. `BeginFails`, `Waits`, `WriteFails`,
`RemoveFails`, `SettleFails` and `Crash`, after which the run may not be readable, are
the failures. Beside it `Store` and `Tell` are the two halves of `start` and `cancel`,
whose client may leave before either (`Leaves`); `Deletes`, `Renames`, `Drops`,
`Finds` the Arr's own doings, `Deliver` the webhook, and `Looks`, `Reads`, `Judges`
the reconciliation of the owner.

Run **conversion**: two names, two requests and two surprises (2,797,000 states).
Two requests are a run and its cancellation, or there and back; two names are one
rename; with two surprises each fault meets a crash, a stranger's file or an event
of the Arr. It checks

- `LastKept`: the job never takes an item's last pointer from the library, with two
  exceptions among resumed rows ([below](#where-code-and-comments-differ));
- `ItemKept`: while the Arr does not see the file, neither its deliveries nor the
  reconciliation delete the item for that, unless the reconciliation looked for
  owners to rescan just before there was one, the pointer moved was not where its
  owner was or had a row left, or an owner was moved back whose file may be gone;
- `RescansRemembered`: an owner that waits for a rescan has a row that asks for one,
  unless a rename was delivered in between or the move back took over the row;
- `StatusTrue`: between two passes and with no request under way, what the job says is
  so. It says that it runs or waits just when a run is stored to be made, that it is
  cancelled just when one is stored as cancelled, and that it is idle just when there is
  none, unless it last said so past a request or the run (`crossed`, in the cases
  [below](#where-code-and-comments-differ)); and if it is idle and nothing went wrong,
  the library is in the form asked for (`IdleWhenMade`), but for a run that was stored
  as a pass ended and was forgotten with the one it made.

Each exception is a state the code reaches: without any one of them TLC finds the
property violated, on this run or, for the owner moved back, with two names, one request
and four surprises. With them it finds nothing there, nor with three names and three.

Simplified: what the Arr lists is read once in a pass, as the code caches it; a file
is "ours" if it is exactly what was written, "foreign" if it is anything else, which
no Arr takes for media; an Arr's moves, deletions and unowned deletions are judged
in one step; a step that waits after it failed costs a second surprise. There is no
liveness: that a run ends needs more state than a run of the checker has time for.

Left out: what to convert (previews, of which only the interrupt is there, rewrites
and copies), files imported meanwhile in the earlier form, replaced keys and their
sweep, adoption of owners, reconciliations held for a user to confirm, Lidarr, and
an Arr that is removed while a run goes on.

Proved (`MoveProofs`): all four. The invariant says what each step may rely on of the
row, the journal and the two pointers (`Shaped`, `Led`, `OneRow`, `Doubled`): while no
file was moved of which a row was left there is one row, a row that this pass began has
two pointers, and a resumed one is undone only for somebody else's file. `Remembered`
ties the waiting owner to its row, with its place and through the rescan; `RunStands`
says that until its words cross a request the job is right about the run, or has a
request or the end of a pass still to tell it, and that a pass makes the stored run
unless one was stored since it looked; `Calm` is what a whole pass has done when nothing
went wrong.

`ItemKept` needs an invariant of its own over that one (`Sighted`), as where the file is
is kept in five copies: the Arr's, the owner's, the row's, the event's and the lists
that the pass and the reconciliation made. `Followed`: while the Arr has the file under
the id the owner knows, the owner is there, behind its renames, or moved ahead by a row.
`LostToRow`: otherwise a row took the file from its sight (`Lost`), whose owner waits.
`RowOf`, `Fresh`, `Answer` and `Listed` say what a row, the pass, the answer to a rescan
and the two lists know of the file and of the id when they are acted upon. One lemma per
action (`RenamesSees`, `SettleSees` ...) keeps all six. TLC found the last exception, of
the owner moved back, as a step that this invariant does not survive.

## Where code and comments differ

Some comments promise more than the code does. The models have the code's
behaviour, and what they check is what is left of the promise.

- `admit` (client.rs:453) looks for a lease and counts the stream in two steps; a
  test that publishes its token and reads the count between them is granted a
  lease that playback runs beside and does not cancel.
  `OnlyEarlyStreamsSlipBy`, checked and proved, says this is the only way.
- `set_paused` (service.rs:266) stores the setting, awaits, then sets the flag: two
  overlapping calls may leave them different. `ImportQueue` has both steps; no
  property relates them.
- With headroom held (pool.rs:545), a background call still pipelines behind
  playback on the connection playback uses; when the stream is answered,
  background work has every connection, where the comment says a slot is left.
  `Pool` has this, and no property forbids it.
- A run of the conversion "must finish" (library.rs:42), but the end of a pass
  forgets whatever run is stored (1014), also one stored since the pass read it (872).
- What the conversion says of its run is kept beside the stored run, not read from it, and
  stays wrong until it next says something (for "running" maintenance waits):
  - a pass that read the run before a request sets its own state over the request's:
    "running" (902) or, at `Stop::Wait`, "waiting" (922) over a run cancelled meanwhile,
    which the next pass does not find and so leaves; "idle" (913) over a run stored
    after the pass forgot its own;
  - a request sets its state after another step has undone what it stored: "running" or
    "cancelled" after the run was made and forgotten, or after a later request; or
    though storing it failed, which only warns;
  - a request stores a run and its client leaves before it is told;
  - a run that could not be forgotten is "idle" (913), and so is one that could not be
    read when the process starts (505).
- A row resumed as MOVED looks at its source only: if somebody's file has taken that
  name since, the undo removes the target, which is the last pointer; if the target
  has gone or been replaced meanwhile, the source still goes.
- The reconciliation passes its check for owners to rescan (reconcile.rs:210), the
  conversion then moves an owner, and the reconciliation reads the moved owner: it
  is at a path the Arr does not know yet, and its item is deleted. So it is if the
  conversion moves a pointer that the Arr has renamed before the delivery of that is
  applied: the owner at the old path is not marked as one to rescan.
- A row resumed as MOVED is undone because somebody's file has the name of the source; the
  owner moves back with its mark taken off, to a name the Arr has no file at, and the
  reconciliation deletes the item.
- A rename delivered to an owner that waits for a rescan gives it a path no row has:
  the mark stays, and the Arr is not reconciled until a later settlement.
- Going back before the Arr rescanned overwrites the row (`ON CONFLICT (source)`) or
  leaves one whose file the Arr will never have, reported as missed for good.

The last seven are the exceptions that the properties of `Conversion` make.

## What is proved and what is only checked

`PROJECT.json` lists 60 theorems in eight proof modules:

| Proof module | Proves about | Safety in the runs that it covers |
|---|---|---|
| `DownloadsProofs` | `Downloads` | `NoStrandedWaiter`, `InTurn` |
| `ClientProofs` | `Breaker`, `Cascade`, `Lease` | `IsACircuit`, `TripsAsDocumented`, `NotFoundIsCertain`, `NoCopyOverlooked`, `OpenCircuitsAreTried`, `BreakersAreCircuits`, `LeaseHolds` |
| `StreamProofs` | `Window`, `SingleFlight` | `InPlace`, `BudgetInTurn`, `IsShared` |
| `ImportQueueProofs` | `ImportQueue` | `NothingTwice`, `FolderStaysFree`, `NotRerunAtOnce`, `NothingLost`, `CompletesHandedOff` |
| `PoolProofs` | `Pool` | `WithinLimit`, `NoStranded` |
| `HandoffProofs` | `Handoff` | `OthersAreSpared`, `NothingLeftBehind`, `KeptForTheArr` |
| `MoveProofs` | `Migration`, `Conversion` | `NoWriteIsLost`, `LogIsTrue`, `RescansRemembered`, `LastKept`, `ItemKept`, `StatusTrue` |
| `RestoreProofs` | `Restore` | `OpensWhole`, `WritesSurvive`, `RequestKept` |

Modules that are proved about together share their module of proofs; so that their names
do not meet, `Breaker`, `Lease`, `SingleFlight` and `Conversion` prefix their general
ones (`LeaseInit`, `FlightTypeOK`).

All have the same shape: an inductive
invariant `Inv` (checked with TLC before it was proved), `Init => Inv`, one lemma
per action or group of actions for `Inv /\ [Next]_vars => Inv'`, and each property
from `Inv`. They rest on the named assumptions about the constants in the modules
(sets are finite where they are counted, numbers are natural, names are
distinct), which TLC evaluates on every run, and on no fairness.

Some proved properties are in no run, as a run on a small instance adds nothing to
them: the type invariants, `Conservation`, `OneProbe`, `OnlyTheProbeDecides`,
`CorruptIsCertain`, `TokenInReach`, `MapIsCurrent`, `WantedOnly`, `HandedOff`,
`LoadIsRequests`. Only model-checked, on the instances above, are

- liveness under fairness, which the prover does not do: `WaitersServed`,
  `GateOpensAgain`, `ReadersServed`, `JobsAreTried`, `FetchEnds`, `HangsPass`,
  `MoveGoesOn`, `RequestEnds`, `ReadsReturn`.

No module uses a RECURSIVE operator.

## What is not modelled

Beyond what the sections name: real time (timeouts and windows may end any time,
except in `Breaker`), the contents of articles and files, byte counts, latencies
and the choice by latency, memory ordering (each atomic and each mutex is
sequentially consistent), and the replacement of the configured providers while
requests run. The downloads, pool and cascade models are separate: the cascade
sees a pool by the outcomes of a fetch, and the pool runs as if a download slot
were always granted in time. The components without a module are in
`PROJECT.json` with the reason.

## Plan

Done, in order of what matters most to users: `Downloads`, the permits all requests
pass; `Circuit` and `Breaker`; `Cascade` over `Circuit`; `Lease`; `SharedFetch` and
`SingleFlight`; `ImportQueue`; `Pool`; `Handoff`; `Window`; `Migration`; `Restore`;
`Conversion`.

Next:

1. that `Handoff` implements the `handed` of `ImportQueue`;
2. `DiskCache`: index against files under eviction, rewriting and scan, then
   `Gaps`;
3. `Maintenance`: the one slot, holds, the write-preferring permits of the
   database;
4. health checks and repair, FUSE handles, quotas, the polling of the Arrs and NZB
   retention; the warm floor in `Pool`; what is left of the conversion.
