------------------------------ MODULE Migration ------------------------------
(***************************************************************************)
(* Which database the app runs on, and moving it from SQLite to PostgreSQL *)
(* while it runs (infinidysk/src/database.rs, db/src/transfer.rs).         *)
(*                                                                         *)
(* The boot file names the database and the state of the move.  It is      *)
(* replaced by a rename and a sync of its folder: a rename whose sync      *)
(* failed is visible, but a host crash may undo it.  Triggers log the keys *)
(* written in SQLite; a worker copies everything, then applies the log     *)
(* over and over, each pass from one snapshot of SQLite.  The switch takes *)
(* place at a restart, after a last pass that compares both sides.         *)
(*                                                                         *)
(* Contents are abstracted to what the sides differ in: `behind` holds the *)
(* keys that PostgreSQL has other than SQLite.                             *)
(***************************************************************************)
EXTENDS Naturals

CONSTANTS
    Keys,       \* rows of the database
    Upgrades,   \* bound: newer builds installed
    Mishaps     \* bound: failed calls, lost writes and files

ASSUME MigrationAssumption == Upgrades \in Nat /\ Mishaps \in Nat

VARIABLES
    phase,      \* what the process does: "down", "checked" and so on (see TypeOK)
    visible,    \* the boot file
    atRisk,     \* what a host crash may leave of it
    file,       \* `Migrator.file`: the copy in memory
    schema,     \* the SQLite schema
    retired,    \* the SQLite file has its pre-postgres name
    capture,    \* the change log and its triggers
    batch,      \* logged keys the worker's snapshot has
    since,      \* keys logged since, or all of them when no pass runs
    behind,     \* keys PostgreSQL has other than SQLite
    apart,      \* keys PostgreSQL has other than the worker's snapshot
    moved,      \* PostgreSQL has writes that SQLite has not
    work,       \* the worker's step; "gone" when a call left without starting it again
    errored,    \* `status.error`
    op,         \* the step of `start` or `cancel`
    mishaps,
    doubt, kept
\* The last two are history: PostgreSQL may differ in ways the log does not tell since it
\* was last compared; a call that failed left the log on without a move, and it was not
\* turned off since.

boot == <<visible, atRisk>>
sqlite == <<schema, retired, capture, batch, since>>
target == <<behind, apart, moved>>
process == <<phase, file, work, errored, op>>
ghosts == <<doubt, kept>>
vars == <<boot, sqlite, target, process, mishaps, ghosts>>

Log == batch \cup since

States == {"none", "copying", "syncing", "cutover", "switched"}
File(state, version) == [state |-> state, schema |-> version]
NoMove == File("none", 0)
Files == [state : States, schema : 0 .. Upgrades]

Init ==
    /\ visible = NoMove /\ atRisk = {NoMove} /\ file = NoMove
    /\ schema = 0 /\ retired = FALSE
    /\ capture = "off" /\ batch = {} /\ since = {}
    /\ behind = Keys /\ apart = Keys /\ moved = FALSE
    /\ phase = "sqlite" /\ work = "none" /\ errored = FALSE /\ op = "idle"
    /\ mishaps = 0 /\ doubt = FALSE /\ kept = FALSE

Mishap == mishaps < Mishaps /\ mishaps' = mishaps + 1
NoMishap == UNCHANGED mishaps

----------------------------------------------------------------------------
(* The boot file.                                                          *)

Saved(f) == visible' = f /\ atRisk' = {f} /\ NoMishap

\* `SaveError::NotDurable`.
SavedLoosely(f) == Mishap /\ visible' = f /\ atRisk' = atRisk \cup {f}

\* `SaveError::Unpublished`.
NotSaved == Mishap /\ UNCHANGED boot

\* `save_logged`, with `risk` what a host crash may leave before: a failure only warns.
LoggedSaveOver(f, risk) ==
    \/ Saved(f)
    \/ Mishap /\ visible' = f /\ atRisk' = risk \cup {f}
    \/ Mishap /\ UNCHANGED visible /\ atRisk' = risk

LoggedSave(f) == LoggedSaveOver(f, atRisk)

----------------------------------------------------------------------------
(* Writes of the app.                                                      *)

Write(k) ==
    /\ phase \in {"sqlite", "env"}
    /\ behind' = behind \cup {k}
    /\ since' = IF capture = "on" THEN since \cup {k} ELSE since
    /\ UNCHANGED <<schema, retired, capture, batch, apart, moved, boot, process, mishaps, ghosts>>

WriteMoved ==
    /\ phase = "postgres" /\ moved' = TRUE
    /\ UNCHANGED <<behind, apart, boot, sqlite, process, mishaps, ghosts>>

----------------------------------------------------------------------------
(* The user's calls: `start`, `cancel`, `cutover`.                         *)

\* `stop_run`: the pass is dropped, its log stays.
Dropped == batch' = {} /\ since' = Log

\* `stop_capture`.
CaptureStops == capture' = "off" /\ batch' = {} /\ since' = {}

\* An empty target is prepared, then changes are captured.
Start ==
    /\ phase = "sqlite" /\ op = "idle" /\ file.state = "none"
    /\ capture' = "on" /\ behind' = Keys /\ apart' = Keys
    /\ op' = "starting"
    /\ UNCHANGED <<schema, retired, batch, since, moved, boot, phase, file, work, errored,
                   mishaps, ghosts>>

\* Without a save there is no move.  The log stays on if it cannot be removed then, or if
\* the call ends before the save: the schema's version cannot be read, or the client left.
StartSaves ==
    /\ op = "starting" /\ op' = "idle"
    /\ LET next == File("copying", schema) IN
         \/ /\ Saved(next) \/ SavedLoosely(next)
            /\ file' = next /\ work' = "idle" /\ kept' = FALSE
            /\ UNCHANGED <<capture, batch, since>>
         \/ /\ NotSaved
            /\ \/ CaptureStops /\ kept' = FALSE
               \/ kept' = TRUE /\ UNCHANGED <<capture, batch, since>>
            /\ UNCHANGED <<file, work>>
    /\ UNCHANGED <<phase, errored, schema, retired, target, doubt>>

\* Mutant of Cancel: the log goes before the save.
Cancel_CaptureFirst ==
    /\ phase = "sqlite" /\ op = "idle" /\ file.state \in {"copying", "syncing"}
    /\ CaptureStops
    /\ \/ /\ Saved(NoMove)
          /\ file' = NoMove /\ work' = "none" /\ errored' = FALSE /\ op' = "cancelled"
       \/ /\ SavedLoosely(NoMove) \/ NotSaved
          /\ work' = "idle"
          /\ UNCHANGED <<file, errored, op>>
    /\ UNCHANGED <<phase, schema, retired, target, ghosts>>

\* If the save fails in any way, the move goes on.
Cancel ==
    /\ phase = "sqlite" /\ op = "idle" /\ file.state \in {"copying", "syncing"}
    /\ Dropped
    /\ \/ /\ Saved(NoMove)
          /\ file' = NoMove /\ work' = "none" /\ errored' = FALSE /\ op' = "cancelled"
       \/ /\ SavedLoosely(NoMove) \/ NotSaved
          /\ work' = "idle"
          /\ UNCHANGED <<file, errored, op>>
    /\ UNCHANGED <<phase, schema, retired, capture, target, ghosts>>

\* A log that cannot be removed, or whose client left before, stays until the next start.
CancelCleans ==
    /\ op = "cancelled" /\ op' = "emptying"
    /\ \/ CaptureStops /\ kept' = FALSE /\ NoMishap
       \/ Mishap /\ kept' = TRUE /\ UNCHANGED <<capture, batch, since>>
    /\ UNCHANGED <<schema, retired, target, boot, phase, file, work, errored, doubt>>

\* The target is emptied if it can be.
CancelEmpties ==
    /\ op = "emptying" /\ op' = "idle"
    /\ \/ behind' = Keys /\ apart' = Keys
       \/ UNCHANGED <<behind, apart>>
    /\ UNCHANGED <<moved, boot, sqlite, phase, file, work, errored, mishaps, ghosts>>

\* The caller then restarts the process.
Cutover ==
    /\ phase = "sqlite" /\ op = "idle" /\ file.state = "syncing" /\ ~errored
    /\ Dropped
    /\ LET next == File("cutover", file.schema) IN
         \/ /\ Saved(next) \/ SavedLoosely(next)
            /\ file' = next /\ work' = "none"
         \/ /\ NotSaved
            /\ work' = "idle" /\ UNCHANGED file
    /\ UNCHANGED <<phase, errored, op, schema, retired, capture, target, ghosts>>

\* The client leaves while `cancel` or `cutover` waits for the worker to end: the rest of
\* the call is dropped, and nothing starts another worker.
CallDropped ==
    /\ phase = "sqlite" /\ op = "idle" /\ file.state \in {"copying", "syncing"}
    /\ Mishap
    /\ Dropped
    /\ work' = "gone"
    /\ UNCHANGED <<phase, file, errored, op, schema, retired, capture, target, boot, ghosts>>

----------------------------------------------------------------------------
(* The worker: `run`, `copy`, `copy_all`, `sync_pass`, `sync`.             *)

Running == phase = "sqlite" /\ work \notin {"none", "gone"}
Full == file.state = "copying"

\* The snapshot is taken and the target emptied.
BeginCopy ==
    /\ Running /\ work = "idle" /\ Full
    /\ capture' = "on"
    /\ batch' = Log /\ since' = {}
    /\ behind' = Keys /\ apart' = Keys
    /\ work' = "copying"
    /\ UNCHANGED <<schema, retired, moved, boot, phase, file, errored, op, mishaps, ghosts>>

CopyRow(k) ==
    /\ Running /\ work = "copying" /\ k \in apart
    /\ apart' = apart \ {k}
    /\ behind' = IF k \in since THEN behind ELSE behind \ {k}
    /\ UNCHANGED <<moved, boot, sqlite, process, mishaps, ghosts>>

EndCopy ==
    /\ Running /\ work = "copying" /\ apart = {}
    /\ batch' = {}
    /\ work' = "copied"
    /\ UNCHANGED <<schema, retired, capture, since, target, boot, phase, file, errored, op,
                   mishaps, ghosts>>

BeginSync ==
    /\ Running
    /\ work = "copied" \/ (work = "idle" /\ file.state = "syncing")
    /\ batch' = Log /\ since' = {}
    /\ apart' = behind
    /\ work' = "syncing"
    /\ UNCHANGED <<schema, retired, capture, behind, moved, boot, phase, file, errored, op,
                   mishaps, ghosts>>

\* One transaction of the target.
Apply ==
    /\ Running /\ work = "syncing"
    /\ apart' = apart \ batch
    /\ behind' = behind \ (batch \ since)
    /\ work' = "applied"
    /\ UNCHANGED <<moved, boot, sqlite, phase, file, errored, op, mishaps, ghosts>>

\* Mutant of Same: the target is compared with SQLite as it is by now.
Same_Live == behind = {}

\* `compare`, within the snapshot.
Same == apart = {}

Compare ==
    /\ Running /\ work = "applied" /\ Full /\ Same
    /\ work' = "compared" /\ doubt' = FALSE
    /\ UNCHANGED <<boot, sqlite, target, phase, file, errored, op, mishaps, kept>>

EndSync ==
    /\ Running /\ work = "applied" /\ ~Full
    /\ batch' = {} /\ work' = "idle" /\ errored' = FALSE
    /\ UNCHANGED <<schema, retired, capture, since, target, boot, phase, file, op, mishaps, ghosts>>

EndFullCopy ==
    /\ Running /\ work = "compared"
    /\ batch' = {} /\ work' = "idle" /\ errored' = FALSE
    /\ file' = File("syncing", schema)
    /\ LoggedSave(file')
    /\ UNCHANGED <<schema, retired, capture, since, target, phase, op, ghosts>>

\* The connection fails or stalls, also after a commit; or the sides differ after a copy.
Fails ==
    /\ Running /\ work # "idle"
    /\ Mishap \/ (work = "applied" /\ Full /\ ~Same /\ NoMishap)
    /\ Dropped
    /\ work' = "idle" /\ errored' = TRUE
    /\ UNCHANGED <<schema, retired, capture, target, boot, phase, file, op, ghosts>>

\* A row of the target is in the way of an applied one: all is copied again.
Collides ==
    /\ Running /\ work = "syncing" /\ ~Full /\ apart \ batch # {}
    /\ Dropped
    /\ work' = "idle"
    /\ file' = File("copying", schema)
    /\ LoggedSave(file')
    /\ UNCHANGED <<schema, retired, capture, target, phase, errored, op, ghosts>>

\* Someone else writes to the target, or a statement of a dropped pass is late.
Disturbed(k) ==
    /\ phase = "sqlite" /\ file.state # "none"
    /\ Mishap
    /\ behind' = behind \cup {k} /\ apart' = apart \cup {k}
    /\ doubt' = TRUE
    /\ UNCHANGED <<moved, boot, sqlite, process, kept>>

----------------------------------------------------------------------------
(* Boot: `select`, `reconcile`, `resume`.                                  *)

\* The process ends, at a restart or a crash, maybe with a boot file it could not bring up
\* to date.
Stop ==
    /\ phase # "down" /\ phase' = "down"
    /\ Dropped
    /\ doubt' = (doubt \/ visible # file)
    /\ file' = NoMove /\ work' = "none" /\ errored' = FALSE /\ op' = "idle"
    /\ UNCHANGED <<schema, retired, capture, target, boot, mishaps, kept>>

\* The host goes down: a rename may be undone, and SQLite loses its last commits, of
\* which PostgreSQL may have had some.
HostCrash ==
    /\ Mishap
    /\ phase' = "down"
    /\ file' = NoMove /\ work' = "none" /\ errored' = FALSE /\ op' = "idle"
    /\ visible' \in atRisk /\ atRisk' = {visible'}
    /\ \E lost \in SUBSET Keys :
         /\ behind' = IF retired \/ visible'.state = "switched" THEN behind ELSE behind \cup lost
         /\ \/ since' = Log \ lost /\ UNCHANGED capture
            \/ capture' = "off" /\ since' = {}
    /\ batch' = {}
    /\ doubt' = TRUE
    /\ UNCHANGED <<schema, retired, apart, moved, kept>>

\* A newer build changes SQLite's tables, and a rebuilt table has lost its triggers.
Upgrade ==
    /\ phase = "down" /\ visible.state # "switched" /\ ~retired
    /\ schema < Upgrades /\ schema' = schema + 1
    /\ capture' \in {capture, IF capture = "on" THEN "broken" ELSE capture}
    /\ behind' = Keys
    /\ UNCHANGED <<retired, batch, since, apart, moved, boot, process, mishaps, ghosts>>

\* The user loses the boot file after the switch.
FileLost ==
    /\ phase = "down" /\ retired
    /\ Mishap
    /\ visible' = NoMove /\ atRisk' = {NoMove}
    /\ UNCHANGED <<sqlite, target, process, ghosts>>

\* It is put back, as the refused start asks for.
FileRestored ==
    /\ phase = "down" /\ retired /\ visible.state # "switched"
    /\ visible' = File("switched", 0) /\ atRisk' = {visible'}
    /\ UNCHANGED <<sqlite, target, process, mishaps, ghosts>>

\* Mutant of Durable: the boot file is used as it is found.
Durable_AsFound == UNCHANGED atRisk

\* The boot file is made durable before any database is opened; else nothing starts.
Durable == atRisk' = {visible}

Idle == work' = "none" /\ errored' = FALSE /\ op' = "idle"

\* Of a SQLite file not renamed yet, this renames it if it can.
Retires == retired' \in {TRUE, retired}

StartPostgres ==
    /\ phase = "down" /\ visible.state = "switched"
    /\ Durable /\ Retires
    /\ phase' = "postgres" /\ file' = visible /\ Idle
    /\ UNCHANGED <<visible, schema, capture, batch, since, target, mishaps, ghosts>>

\* `choose`: no new SQLite file where only a renamed one is left.
Opens == phase = "down" /\ visible.state # "switched" /\ ~retired

\* A leftover log goes.
StartPlain ==
    /\ Opens /\ visible.state = "none"
    /\ Durable
    /\ CaptureStops
    /\ phase' = "sqlite" /\ file' = NoMove /\ Idle
    /\ kept' = FALSE
    /\ UNCHANGED <<visible, schema, retired, target, mishaps, doubt>>

\* The log has every write since the copy.
Trusted == capture = "on" /\ visible.schema = schema

Continue ==
    /\ Opens /\ visible.state # "none" /\ Trusted
    /\ Durable
    /\ file' = visible
    /\ IF visible.state = "cutover" THEN phase' = "switching" /\ work' = "none"
                                    ELSE phase' = "sqlite" /\ work' = "idle"
    /\ errored' = FALSE /\ op' = "idle"
    /\ UNCHANGED <<visible, sqlite, target, mishaps, ghosts>>

\* Everything is copied again.
StartOver ==
    /\ Opens /\ visible.state # "none" /\ ~Trusted
    /\ capture' = "on"
    /\ file' = File("copying", schema)
    /\ LoggedSaveOver(file', {visible})
    /\ phase' = "sqlite" /\ work' = "idle"
    /\ errored' = (visible.state = "cutover") /\ op' = "idle"
    /\ UNCHANGED <<schema, retired, batch, since, target, ghosts>>

\* INFINIDYSK_DATABASE_URL names the SQLite file: a move is dropped.
StartEnv ==
    /\ Opens
    /\ file' = NoMove
    /\ IF visible.state = "none"
       THEN /\ Durable
            /\ UNCHANGED <<visible, capture, batch, since, mishaps, kept>>
       ELSE \/ CaptureStops /\ LoggedSaveOver(NoMove, {visible}) /\ kept' = FALSE
            \/ /\ Mishap /\ visible' = NoMove /\ atRisk' = {NoMove} /\ kept' = TRUE
               /\ UNCHANGED <<capture, batch, since>>
    /\ phase' = "env" /\ Idle
    /\ UNCHANGED <<schema, retired, target, doubt>>

----------------------------------------------------------------------------
(* The switch: `serve_cutover`, while the app does not run.                *)

SwitchApply ==
    /\ phase = "switching" /\ phase' = "applied"
    /\ behind' = behind \ Log
    /\ UNCHANGED <<apart, moved, boot, sqlite, file, work, errored, op, mishaps, ghosts>>

SwitchCompare ==
    /\ phase = "applied" /\ behind = {}
    /\ phase' = "equal"
    /\ batch' = {} /\ since' = {}
    /\ doubt' = FALSE
    /\ UNCHANGED <<schema, retired, capture, target, boot, file, work, errored, op, mishaps, kept>>

\* The app goes on with SQLite.
FallBack(state) ==
    /\ file' = File(state, file.schema)
    /\ phase' = "sqlite" /\ work' = "idle" /\ errored' = TRUE
    /\ UNCHANGED <<op, sqlite, target, ghosts>>

SwitchDiffers ==
    /\ phase = "applied" /\ behind # {}
    /\ FallBack("copying")
    /\ LoggedSave(file')

\* PostgreSQL does not answer, or the boot file cannot be written.  (A second save that
\* fails as well leaves the request in the boot file.)
SwitchFails ==
    /\ phase \in {"switching", "applied", "equal"}
    /\ FallBack("syncing")
    /\ Mishap
    /\ \/ visible' = file' /\ atRisk' \in {{file'}, atRisk \cup {file'}}
       \/ UNCHANGED boot

Switch ==
    /\ phase = "equal"
    /\ Saved(File("switched", 0))
    /\ CaptureStops /\ Retires /\ kept' = FALSE
    /\ phase' = "postgres" /\ file' = visible'
    /\ UNCHANGED <<schema, target, work, errored, op, doubt>>

\* Visible but maybe not durable: the process stops before either database takes writes.
SwitchUnsure ==
    /\ phase = "equal"
    /\ SavedLoosely(File("switched", 0))
    /\ phase' = "down" /\ file' = NoMove
    /\ UNCHANGED <<sqlite, target, work, errored, op, ghosts>>

----------------------------------------------------------------------------
Worker ==
    \/ BeginCopy \/ EndCopy \/ BeginSync \/ Apply \/ Compare \/ EndSync \/ EndFullCopy
    \/ Fails \/ Collides
    \/ \E k \in Keys : CopyRow(k)

Switching == SwitchApply \/ SwitchCompare \/ SwitchDiffers \/ SwitchFails \/ Switch \/ SwitchUnsure

Calls == Start \/ StartSaves \/ Cancel \/ CancelCleans \/ CancelEmpties \/ Cutover \/ CallDropped

Starts == StartPostgres \/ StartPlain \/ Continue \/ StartOver \/ StartEnv

Others ==
    \/ WriteMoved \/ Stop \/ HostCrash \/ Upgrade \/ FileLost \/ FileRestored
    \/ \E k \in Keys : Write(k) \/ Disturbed(k)

Next == Worker \/ Switching \/ Calls \/ Starts \/ Others

Spec == Init /\ [][Next]_vars

\* The worker's task and the switch at boot go on while the process runs.  Nothing is said
\* of the user's calls, of writes, or of starting the process again.
FairSpec == Spec /\ WF_vars(Worker) /\ WF_vars(Switching)

----------------------------------------------------------------------------
(* Properties.                                                             *)

TypeOK ==
    /\ phase \in {"down", "sqlite", "env", "switching", "applied", "equal", "postgres"}
    /\ visible \in Files /\ atRisk \subseteq Files /\ file \in Files
    /\ schema \in 0 .. Upgrades /\ retired \in BOOLEAN
    /\ capture \in {"off", "on", "broken"}
    /\ batch \subseteq Keys /\ since \subseteq Keys
    /\ behind \subseteq Keys /\ apart \subseteq Keys /\ moved \in BOOLEAN
    /\ work \in {"none", "gone", "idle", "copying", "copied", "syncing", "applied", "compared"}
    /\ errored \in BOOLEAN
    /\ op \in {"idle", "starting", "cancelled", "emptying"}
    /\ mishaps \in 0 .. Mishaps /\ doubt \in BOOLEAN /\ kept \in BOOLEAN

(* The database the app runs on has every write it ever acknowledged,      *)
(* whatever failed or crashed during the move (database.rs:189-216,        *)
(* 1100-1140): it never goes back to SQLite once PostgreSQL took a write,  *)
(* and never on to PostgreSQL while that lacks one.                        *)
NoWriteIsLost ==
    /\ phase \in {"sqlite", "env"} => ~moved
    /\ phase = "postgres" => behind = {}

(* While the move reports to be in sync, the log has every key that is     *)
(* different (database.rs:907-908), unless someone else wrote to the       *)
(* target, SQLite lost commits, or the state could not be saved.           *)
SyncedIsTracked ==
    phase = "sqlite" /\ file.state \in {"syncing", "cutover"} /\ ~doubt => behind \subseteq Log

(* Writes are logged for a move only: without one, the log would grow for  *)
(* good (database.rs:917-923).  Only a call that failed leaves it on: a    *)
(* cancel that could not remove it, as it warns (596-599), or a start that *)
(* ended without its save and without removing it (536, 547-549).          *)
CaptureOnlyForAMove ==
    phase = "sqlite" /\ op = "idle" /\ file.state = "none" /\ ~kept => capture = "off"

(* What is logged is true to the move: enough for it, and nothing without, *)
(* but for what the two name.                                              *)
LogIsTrue == SyncedIsTracked /\ CaptureOnlyForAMove

(* A copy comes to an end while the app goes on writing: the passes are    *)
(* bounded by their snapshot (transfer.rs:335-427).  Only a call dropped   *)
(* between stopping the worker and starting it again (581-587, 627-636)    *)
(* leaves a copy that nobody goes on with until a restart.                 *)
CopyEnds ==
    LET Copying == phase = "sqlite" /\ file.state = "copying"
    IN  Copying ~> ~Copying \/ work = "gone"

(* A switch comes to an end: the app runs again, on either database.       *)
SwitchEnds == phase \in {"switching", "applied", "equal"} ~> phase \in {"sqlite", "postgres", "down"}

(* Whatever a move is doing comes to an end.                               *)
MoveGoesOn == CopyEnds /\ SwitchEnds
=============================================================================
