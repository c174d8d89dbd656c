------------------------------- MODULE Restore -------------------------------
(***************************************************************************)
(* Restoring a backup, and undoing that, at the next start                 *)
(* (infinidysk/src/backup/boot.rs, mod.rs, api.rs; the boot in app.rs).    *)
(*                                                                         *)
(* A database is a main file and, after a crash, a write-ahead log beside  *)
(* it that holds its last commits.  A restore stages a copy, writes an     *)
(* intent and restarts; boot then moves the live set aside and the copy    *)
(* in, one file at a time, each phase made durable before the intent names *)
(* the next.  If the copy does not open, the next boot puts the old set    *)
(* back.  An undo swaps the sets again.                                    *)
(*                                                                         *)
(* Databases are numbered as they appear.  A file operation is visible at  *)
(* once; until the folder is synced a host crash may undo it.              *)
(***************************************************************************)
EXTENDS Naturals

CONSTANTS
    Restores,   \* bound: backups restored
    Undos,      \* bound: restores undone
    Mishaps     \* bound: crashes and failed calls

ASSUME RestoreAssumption == Restores \in Nat /\ Undos \in Nat /\ Mishaps \in Nat

None == 0
Ids == 1 .. Restores + 1
Parts == {"wal", "main"}
Sets == {"live", "staged", "undo", "undone"}
Files == Sets \X Parts
Gone == <<"gone", "main">>

NoIntent == [action |-> "none", phase |-> "none", was |-> None, goal |-> None]
Phases == {"requested", "aside-cleared", "live-aside", "swapped", "opened",
           "rolling-back", "incoming-back", "rolled-back"}
Intents ==
    {NoIntent} \cup [action : {"restore", "undo"}, phase : Phases, was : Ids, goal : Ids]

VARIABLES
    dir,        \* dir[f]: whose file is at f, or None
    images,     \* all that a host crash may leave of dir
    intent,     \* the intent file; `was` and `goal` are history: the live database when it
                \* was written, and the one asked for
    intents,    \* all that a host crash may leave of it
    app,        \* "down", or what the process does (see TypeOK)
    step,       \* within a phase: "move" its files, "sync", or "write" the next
    task,       \* of the running app: "none", a restore being staged, or a deletion
    made,       \* databases so far
    undos,
    bad,        \* databases this build cannot open
    needs,      \* databases whose last commits are in their log only
    mishaps,
    written, dropped, cut
\* The last three are history: databases the app wrote to; those the user let go; those of
\* which a deletion left a part.

files == <<dir, images>>
request == <<intent, intents>>
process == <<app, step, task>>
bounds == <<made, undos, mishaps>>
databases == <<bad, needs>>
ghosts == <<written, dropped, cut>>
vars == <<files, request, process, bounds, databases, ghosts>>

Live == dir[<<"live", "main">>]
Empty == [f \in Files |-> None]

Init ==
    /\ dir = [Empty EXCEPT ![<<"live", "main">>] = 1]
    /\ images = {dir}
    /\ intent = NoIntent /\ intents = {NoIntent}
    /\ app = "up" /\ step = "move" /\ task = "none"
    /\ made = 1 /\ undos = 0 /\ mishaps = 0
    /\ bad = {} /\ needs = {}
    /\ written = {1} /\ dropped = {} /\ cut = {}

Mishap == mishaps < Mishaps /\ mishaps' = mishaps + 1 /\ UNCHANGED <<made, undos>>

----------------------------------------------------------------------------
(* Files.                                                                  *)

Changed(d, db, from, to) ==
    [f \in Files |-> IF f = to THEN db ELSE IF f = from THEN None ELSE d[f]]

\* A database is put at `to`, away from `from`.  Until the folder is synced, each such
\* operation survives a host crash or not.
Put(db, from, to) ==
    /\ dir' = Changed(dir, db, from, to)
    /\ images' = images \cup {Changed(d, db, from, to) : d \in images}

\* The file at `from` is renamed, or removed.
Rename(from, to) == Put(dir[from], from, to)

\* The log of the live database is what SQLite makes it, which survives.
SetLog(db) ==
    /\ dir' = [dir EXCEPT ![<<"live", "wal">>] = db]
    /\ images' = {[d EXCEPT ![<<"live", "wal">>] = db] : d \in images}

\* The folder is synced, with the intent that is in it now.
SyncDir(now) ==
    /\ images' = {dir} /\ UNCHANGED dir
    /\ intent' = now /\ intents' = {now}

\* `write_atomic` of the intent.
Written(next) == SyncDir(next) /\ UNCHANGED bounds

\* It fails before its rename, or at the sync after it.
NotWritten(next) ==
    /\ Mishap
    /\ intent' \in {intent, next} /\ intents' = intents \cup {intent'}
    /\ UNCHANGED files

\* The set of a place, in the order its files are moved.
Occupied(s) == \E p \in Parts : dir[<<s, p>>] # None

First(s) == IF dir[<<s, "wal">>] # None THEN "wal" ELSE "main"

Delete(s) == Rename(<<s, First(s)>>, Gone)
Move(s, t) == Rename(<<s, First(s)>>, <<t, First(s)>>)
Clash(s, t) == \E p \in Parts : dir[<<s, p>>] # None /\ dir[<<t, p>>] # None

----------------------------------------------------------------------------
(* The running app.                                                        *)

\* A commit goes to the log of the live database: the app's, or `record` of the outcome.
Commit ==
    /\ app = "up" \/ (app = "finishing" /\ step = "move")
    /\ SetLog(Live)
    /\ needs' = needs \cup {Live} /\ written' = written \cup {Live}
    /\ UNCHANGED <<request, process, bounds, bad, dropped, cut>>

\* `stage_restore`, when the copy is made and checked: it gets its name.
Stage ==
    /\ app = "up" /\ task = "none" /\ intent = NoIntent /\ made <= Restores
    /\ made' = made + 1
    /\ Put(made', Gone, <<"staged", "main">>)
    /\ bad' \in {bad, bad \cup {made'}}
    /\ task' = "placed"
    /\ UNCHANGED <<request, app, step, undos, mishaps, needs, ghosts>>

StageSync ==
    /\ app = "up" /\ task = "placed"
    /\ \/ SyncDir(intent) /\ task' = "staged" /\ UNCHANGED bounds
       \/ Mishap /\ Delete("staged") /\ task' = "none" /\ UNCHANGED request
    /\ UNCHANGED <<app, step, databases, ghosts>>

Asked(action, db) ==
    [action |-> action, phase |-> "requested", was |-> Live, goal |-> db]

\* Once the intent is visible, the copy stays, and the request stands.
Request ==
    /\ app = "up" /\ task = "staged" /\ task' = "none"
    /\ LET next == Asked("restore", made) IN
         \/ Written(next)
         \/ NotWritten(next) /\ intent' = next
         \/ Mishap /\ Delete("staged") /\ UNCHANGED request
    /\ UNCHANGED <<app, step, databases, ghosts>>

RequestUndo ==
    /\ app = "up" /\ task = "none" /\ intent = NoIntent /\ undos < Undos
    /\ dir[<<"undo", "main">>] # None
    /\ LET next == Asked("undo", dir[<<"undo", "main">>]) IN
         \/ SyncDir(next) /\ undos' = undos + 1 /\ UNCHANGED <<made, mishaps>>
         \/ NotWritten(next) /\ intent' = next
    /\ UNCHANGED <<process, databases, ghosts>>

\* Mutant of DeleteUndo: an unfinished restore does not refuse it.
DeleteUndo_Anytime ==
    /\ app = "up" /\ task \in {"none", "deleting"}
    /\ Occupied("undo") /\ Delete("undo")
    /\ dropped' = dropped \cup {dir[<<"undo", First("undo")>>]}
    /\ task' = IF \E p \in Parts : dir'[<<"undo", p>>] # None THEN "deleting" ELSE "none"
    /\ UNCHANGED <<request, app, step, bounds, databases, written, cut>>

\* `delete_undo`, file by file; no sync.
DeleteUndo ==
    /\ app = "up" /\ task \in {"none", "deleting"} /\ intent = NoIntent
    /\ Occupied("undo")
    /\ \/ /\ Delete("undo")
          /\ dropped' = dropped \cup {dir[<<"undo", First("undo")>>]}
          /\ cut' = cut \cup {dir[<<"undo", "wal">>]}
          /\ task' = IF \E p \in Parts : dir'[<<"undo", p>>] # None THEN "deleting" ELSE "none"
          /\ UNCHANGED bounds
       \/ /\ Mishap /\ task' = "none"
          /\ UNCHANGED <<files, dropped, cut>>
    /\ UNCHANGED <<request, app, step, databases, written>>

\* The last connection folds the log into the main file.
Close ==
    /\ app = "up" /\ app' = "down"
    /\ SetLog(None)
    /\ needs' = needs \ {Live}
    /\ task' = "none" /\ step' = "move"
    /\ UNCHANGED <<request, bounds, bad, ghosts>>

----------------------------------------------------------------------------
(* Crashes.                                                                *)

\* A file being staged is removed by the next boot.
Kill ==
    /\ app # "down" /\ app' = "down" /\ task' = "none" /\ step' = "move"
    /\ Mishap
    /\ UNCHANGED <<files, request, databases, ghosts>>

HostCrash ==
    /\ Mishap
    /\ dir' \in images /\ images' = {dir'}
    /\ intent' \in intents /\ intents' = {intent'}
    /\ app' = "down" /\ task' = "none" /\ step' = "move"
    /\ UNCHANGED <<databases, ghosts>>

----------------------------------------------------------------------------
(* Boot: `apply_pending`, `run_phases`.                                    *)

Aside == IF intent.action = "restore" THEN "undo" ELSE "undone"
Incoming == IF intent.action = "restore" THEN "staged" ELSE "undo"

\* Without a request, what was staged goes.
StartPlain ==
    /\ app = "down" /\ intent = NoIntent
    /\ IF dir[<<"staged", "main">>] # None
       THEN Rename(<<"staged", "main">>, Gone) ELSE UNCHANGED files
    /\ app' = "opening"
    /\ UNCHANGED <<request, step, task, bounds, databases, ghosts>>

\* Mutant of StartPending: the intent is used as it is found.
StartPending_AsFound ==
    /\ app = "down" /\ intent # NoIntent
    /\ app' = "phases"
    /\ UNCHANGED <<files, request, step, task, bounds, databases, ghosts>>

\* The intent is made durable, or nothing starts.
StartPending ==
    /\ app = "down" /\ intent # NoIntent
    /\ SyncDir(intent)
    /\ app' = "phases"
    /\ UNCHANGED <<step, task, bounds, databases, ghosts>>

\* What a phase does to the files: what it moves or deletes next, and what is in its way.
Source ==
    CASE intent.phase = "requested" -> Aside
      [] intent.phase \in {"aside-cleared", "rolling-back"} -> "live"
      [] intent.phase = "live-aside" -> Incoming
      [] intent.phase = "incoming-back" -> Aside
      [] OTHER -> "none"

Deletes ==
    intent.phase = "requested" \/ (intent.phase = "rolling-back" /\ intent.action = "restore")

Target ==
    CASE intent.phase = "aside-cleared" -> Aside
      [] intent.phase = "rolling-back" -> Incoming
      [] OTHER -> "live"

After(phase) ==
    CASE phase = "requested" -> "aside-cleared"
      [] phase = "aside-cleared" -> "live-aside"
      [] phase = "live-aside" -> "swapped"
      [] phase = "rolling-back" -> "incoming-back"
      [] phase = "incoming-back" -> "rolled-back"

\* The phase cannot be explained: startup stops, until someone looks into it.  (`place`
\* lets no file of a live set be there.)
Unresolved ==
    /\ app = "phases" /\ Source # "none" /\ step = "move"
    /\ \/ intent.phase = "requested" /\ dir[<<Incoming, "main">>] = None
       \/ ~Deletes /\ Clash(Source, Target)
       \/ /\ intent.phase = "live-aside" /\ intent.action = "restore"
          /\ (dir[<<"staged", "main">>] # None) = Occupied("live")
          /\ (Live = None \/ dir[<<"staged", "main">>] # None)

\* The next file.
MoveFile ==
    /\ app = "phases" /\ Source # "none" /\ step = "move" /\ ~Unresolved
    /\ Occupied(Source)
    /\ IF Deletes THEN Delete(Source) ELSE Move(Source, Target)
    /\ dropped' = IF intent.phase = "requested" THEN dropped \cup {dir[<<Source, First(Source)>>]}
                                                ELSE dropped
    /\ UNCHANGED <<request, process, bounds, databases, written, cut>>

\* Files that are unexplained, a file operation that fails, or the sync: startup stops, and
\* the next one goes on from here.
MoveFails ==
    /\ app = "phases" /\ Source # "none" /\ step \in {"move", "sync"}
    /\ IF Unresolved THEN UNCHANGED bounds ELSE Mishap
    /\ app' = "down" /\ step' = "move"
    /\ UNCHANGED <<files, request, task, databases, ghosts>>

Moved ==
    /\ app = "phases" /\ Source # "none" /\ step = "move" /\ ~Unresolved
    /\ ~Occupied(Source)
    /\ step' = "sync"
    /\ UNCHANGED <<files, request, app, task, bounds, databases, ghosts>>

Synced ==
    /\ app = "phases" /\ step = "sync"
    /\ SyncDir(intent) /\ step' = "write"
    /\ UNCHANGED <<app, task, bounds, databases, ghosts>>

\* `write_phase`.
NextPhase ==
    /\ app = "phases" /\ step = "write" /\ step' = "move"
    /\ LET next == [intent EXCEPT !.phase = After(@)] IN
         \/ Written(next) /\ UNCHANGED app
         \/ NotWritten(next) /\ app' = "down"
    /\ UNCHANGED <<task, databases, ghosts>>

PhasesDone ==
    /\ app = "phases" /\ Source = "none" /\ app' = "opening"
    /\ UNCHANGED <<files, request, step, task, bounds, databases, ghosts>>

----------------------------------------------------------------------------
(* Opening the database: `serve`, `begin_roll_back`, `finish`.             *)

Swapped == intent.phase = "swapped"

\* A missing file would be created empty: see `OpensWhole`.  An older backup is brought up
\* to date, which goes to its log.
Open ==
    /\ app = "opening" /\ Live \notin bad
    /\ app' = IF intent = NoIntent THEN "up" ELSE "finishing"
    /\ step' = IF Swapped THEN "write" ELSE "move"
    /\ \/ UNCHANGED <<files, needs>>
       \/ SetLog(Live) /\ needs' = needs \cup {Live}
    /\ UNCHANGED <<request, task, bounds, bad, ghosts>>

\* Mutant of OpenFails: whatever does not open is rolled back.
OpenFails_Always ==
    /\ app = "opening"
    /\ \/ Live \in bad /\ UNCHANGED bounds
       \/ Mishap
    /\ app' = IF intent = NoIntent THEN "down" ELSE "closing"
    /\ UNCHANGED <<files, request, step, task, databases, ghosts>>

\* It cannot be opened, by this build or just now; files may have appeared beside it.
OpenFails ==
    /\ app = "opening"
    /\ \/ Live \in bad /\ UNCHANGED bounds
       \/ Mishap
    /\ IF Swapped
       THEN app' = "closing" /\ (SetLog(Live) \/ UNCHANGED files)
       ELSE app' = "down" /\ UNCHANGED files
    /\ UNCHANGED <<request, step, task, databases, ghosts>>

BeginRollBack ==
    /\ app = "closing" /\ app' = "down"
    /\ LET next == [intent EXCEPT !.phase = "rolling-back"] IN
         \/ Written(next)
         \/ NotWritten(next)
    /\ UNCHANGED <<step, task, databases, ghosts>>

\* Mutant of MarkOpened: the next phase is left to the clean-up.
MarkOpened_Later ==
    /\ app = "finishing" /\ step = "write" /\ step' = "move"
    /\ UNCHANGED <<files, request, app, task, bounds, databases, ghosts>>

\* From here on nothing rolls back.
MarkOpened ==
    /\ app = "finishing" /\ step = "write" /\ step' = "move"
    /\ LET next == [intent EXCEPT !.phase = "opened"] IN
         \/ Written(next) /\ UNCHANGED app
         \/ NotWritten(next) /\ app' = "down"
    /\ UNCHANGED <<task, databases, ghosts>>

\* The outcome cannot be recorded or a file not removed: the next start tries again.
FinishFails ==
    /\ app = "finishing" /\ step \in {"move", "sync"}
    /\ Mishap
    /\ app' = "up" /\ step' = "move"
    /\ UNCHANGED <<files, request, task, databases, ghosts>>

Undone == intent.action = "undo" /\ intent.phase = "opened"

\* `clean_up`: what an undo replaced goes,
DeleteUndone ==
    /\ app = "finishing" /\ step = "move"
    /\ Undone /\ Occupied("undone")
    /\ Delete("undone")
    /\ dropped' = dropped \cup {dir[<<"undone", First("undone")>>]}
    /\ UNCHANGED <<request, process, bounds, databases, written, cut>>

UndoneDeleted ==
    /\ app = "finishing" /\ step = "move"
    /\ ~(Undone /\ Occupied("undone"))
    /\ IF Undone THEN SyncDir(intent) ELSE UNCHANGED <<files, request>>
    /\ step' = "sync"
    /\ UNCHANGED <<app, task, bounds, databases, ghosts>>

\* and then the intent.
RemoveIntent ==
    /\ app = "finishing" /\ step = "sync"
    /\ \/ Written(NoIntent)
       \/ NotWritten(NoIntent) /\ intent' = NoIntent
    /\ app' = "up" /\ step' = "move"
    /\ UNCHANGED <<task, databases, ghosts>>

----------------------------------------------------------------------------
Boot ==
    \/ StartPlain \/ StartPending \/ MoveFile \/ Moved \/ Synced \/ NextPhase \/ PhasesDone
    \/ Open \/ OpenFails \/ BeginRollBack \/ MarkOpened \/ DeleteUndone \/ UndoneDeleted
    \/ RemoveIntent

Running == Commit \/ Stage \/ StageSync \/ Request \/ RequestUndo \/ DeleteUndo \/ Close

Failures == Kill \/ HostCrash \/ MoveFails \/ FinishFails

Next == Boot \/ Running \/ Failures

Spec == Init /\ [][Next]_vars

Requested == intent.phase = "requested" /\ intents = {intent}

\* The process is started again whenever it ends, boot goes on, and a request that was
\* saved restarts the app (`restart`; after one not known to be saved people are asked to).
FairSpec == Spec /\ WF_vars(Boot) /\ WF_vars(Close /\ Requested)

----------------------------------------------------------------------------
(* Properties.                                                             *)

TypeOK ==
    /\ dir \in images /\ images \subseteq [Files -> {None} \cup Ids]
    /\ intent \in intents /\ intents \subseteq Intents
    /\ app \in {"down", "phases", "opening", "closing", "finishing", "up"}
    /\ step \in {"move", "sync", "write"}
    /\ task \in {"none", "placed", "staged", "deleting"}
    /\ made \in Ids /\ undos \in 0 .. Undos /\ mishaps \in 0 .. Mishaps
    /\ bad \subseteq Ids /\ needs \subseteq Ids
    /\ written \subseteq Ids /\ dropped \subseteq Ids /\ cut \subseteq {None} \cup Ids

(* What is opened is a whole database (boot.rs:165-199): its main file is  *)
(* there, so that none is created empty, beside it no log of another, and  *)
(* its own log if that has commits; unless the user's deletion of the undo *)
(* copy was cut short and the rest of it restored.                         *)
OpensWhole ==
    app \in {"opening", "finishing", "up"} =>
        /\ Live # None
        /\ dir[<<"live", "wal">>] \in {None, Live}
        /\ Live \in needs \ cut => dir[<<"live", "wal">>] = Live

(* No database the app ever wrote to is lost, wherever a restore, an undo  *)
(* or a roll-back of one stops (boot.rs:1-3): its files are there until    *)
(* the user deletes the undo copy, restores over it, or has undone it.     *)
WritesSurvive ==
    \A d \in written \ dropped :
        /\ \E s \in Sets : dir[<<s, "main">>] = d
        /\ d \in needs => \E s \in Sets : dir[<<s, "wal">>] = d

(* When the app runs after a request, it runs on what was asked for, or on *)
(* what there was before; and a restore can be undone until the user lets  *)
(* the undo copy go.                                                       *)
RequestKept ==
    app = "up" /\ task = "none" =>
        /\ intent.phase = "opened" => Live = intent.goal
        /\ intent.phase = "rolled-back" => Live = intent.was
        /\ intent.action = "restore" /\ intent.phase = "opened" =>
             dir[<<"undo", "main">>] = intent.was \/ intent.was \in dropped

(* A request is carried out or rolled back, and the app runs again, once   *)
(* failures cease.                                                         *)
RequestEnds == Requested ~> app = "up" /\ intent.phase # "requested"
=============================================================================
