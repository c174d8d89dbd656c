------------------------------- MODULE Handoff -------------------------------
(***************************************************************************)
(* Handing finished jobs off to the Arrs (infinidysk/src/handoff.rs): the  *)
(* STRM files and subtitles written below the completed STRM directory,    *)
(* the rows of `handoff_files` that name them, and the sweep that removes  *)
(* what no Arr took.  Every call to the directory runs on a thread behind  *)
(* a gate, since the directory may hang: the caller gives up, the thread   *)
(* does not.                                                               *)
(*                                                                         *)
(* Every publish has a number, whatever its job; so have the items, the    *)
(* rows and the files that come of it.  Jobs all want the same folder      *)
(* name, so publishes compete for the names of `free_dir`: "name",         *)
(* "name (2)", ...  One publish runs at a time: the queue holds `serial`.  *)
(***************************************************************************)
EXTENDS Naturals

CONSTANTS
    Publishes,  \* bound: attempts to publish a job
    Folders,    \* names a job folder may get (MAX_DUPLICATES)
    Mishaps     \* bound: I/O errors, ambiguous commits and crashes

ASSUME HandoffAssumption ==
    Publishes \in Nat /\ Folders \in Nat \ {0} /\ Mishaps \in Nat

Kinds == {"strm", "subtitle"}
Names == 1 .. Folders
Paths == Names \X Kinds
Numbers == 1 .. Publishes
Nobody == 0
Probe == Publishes + 1

VARIABLES
    disk,       \* disk[p]: whose file is at p
    dirs,       \* job folders in the completed STRM directory
    rows,       \* rows[p]: whose row of handoff_files has path p
    tree,       \* tree[f]: whose items are in /content/<category>/<f>
    history,    \* publishes with a row in the history
    latest,     \* the number of publishes so far
    at,         \* where the latest one is
    name,       \* name[n]: the folder name publish n tries
    gate,       \* `busy`: whose call holds it
    work,       \* work[n]: what the thread of n does
    todo,       \* todo[n]: the files n has still to write or remove
    done,       \* done[n]: the files n has written
    sweep, seen, checked,   \* the sweep, the rows it read, the paths it forgets
    hand,       \* the row whose file the sweep is about to remove, and whose it found
    mishaps,
    blind, lost, spoiled, taken
\* The last four are history: publishes that took a look that failed for a free name;
\* those whose files the program may lose track of; those whose files it may remove
\* although they complete, its commit unsure or its sweep behind the times; paths whose
\* files an Arr took.

files == <<disk, dirs>>
db == <<rows, tree, history>>
publish == <<latest, at, name>>
thread == <<gate, work, todo, done>>
sweeper == <<sweep, seen, checked, hand>>
ghosts == <<blind, lost, spoiled, taken>>
vars == <<files, db, publish, thread, sweeper, mishaps, ghosts>>

Init ==
    /\ disk = [p \in Paths |-> Nobody] /\ dirs = {}
    /\ rows = [p \in Paths |-> Nobody]
    /\ tree = [f \in Names |-> Nobody] /\ history = {}
    /\ latest = 0 /\ at = "idle" /\ name = [n \in Numbers |-> 1]
    /\ gate = Nobody /\ work = [n \in Numbers |-> "none"]
    /\ todo = [n \in Numbers |-> {}] /\ done = [n \in Numbers |-> {}]
    /\ sweep = "idle" /\ seen = {} /\ checked = {} /\ hand = {}
    /\ mishaps = 0
    /\ blind = {} /\ lost = {} /\ spoiled = {} /\ taken = {}

\* Something goes wrong that need not.
Mishap == mishaps < Mishaps /\ mishaps' = mishaps + 1

\* `remove`: the file at p, then its folder if that empties it.
Remove(p) ==
    /\ disk' = [disk EXCEPT ![p] = Nobody]
    /\ dirs' = IF \A k \in Kinds : disk'[<<p[1], k>>] = Nobody THEN dirs \ {p[1]} ELSE dirs

Path(n, k) == <<name[n], k>>

----------------------------------------------------------------------------
(* Finding a name: `free_dir` and `taken`.                                 *)

Begin ==
    /\ at = "idle" /\ latest < Publishes
    /\ latest' = latest + 1 /\ at' = "naming"
    /\ UNCHANGED <<name, files, db, thread, sweeper, mishaps, ghosts>>

\* On to the next name; with none left the job fails as a duplicate.
NextName ==
    IF name[latest] < Folders
    THEN at' = "naming" /\ name' = [name EXCEPT ![latest] = @ + 1]
    ELSE at' = "idle" /\ UNCHANGED name

\* The name is taken in the tree.
PassName ==
    /\ at = "naming" /\ tree[name[latest]] # Nobody
    /\ NextName
    /\ UNCHANGED <<latest, files, db, thread, sweeper, mishaps, ghosts>>

Look ==
    /\ at = "naming" /\ tree[name[latest]] = Nobody
    /\ gate = Nobody
    /\ gate' = latest /\ work' = [work EXCEPT ![latest] = "look"]
    /\ at' = "looking"
    /\ UNCHANGED <<latest, name, todo, done, files, db, sweeper, mishaps, ghosts>>

\* A thread ends and opens the gate.
Ends(n) == gate' = Nobody /\ work' = [work EXCEPT ![n] = "none"]

\* The answer comes in time.
Looked ==
    /\ at = "looking" /\ Ends(latest)
    /\ IF name[latest] \in dirs THEN NextName ELSE at' = "named" /\ UNCHANGED name
    /\ UNCHANGED <<latest, todo, done, files, db, sweeper, mishaps, ghosts>>

\* An I/O error counts as nothing there.
LookFails ==
    /\ at = "looking" /\ Ends(latest)
    /\ Mishap
    /\ at' = "named" /\ blind' = blind \cup {latest}
    /\ UNCHANGED <<latest, name, todo, done, files, db, sweeper, lost, spoiled, taken>>

----------------------------------------------------------------------------
(* Writing: `hand_off`, its thread, and `bounded` around it.               *)

\* An unreadable subtitle is left out.
StartWrite ==
    /\ at = "named" /\ gate = Nobody
    /\ gate' = latest /\ work' = [work EXCEPT ![latest] = "write"]
    /\ \E ks \in {Kinds, {"strm"}} : todo' = [todo EXCEPT ![latest] = ks]
    /\ at' = "writing"
    /\ UNCHANGED <<latest, name, done, files, db, sweeper, mishaps, ghosts>>

\* The gate is held by a call that has not answered: the job goes back to the queue.
Refused ==
    /\ gate # Nobody
    /\ at = "named" \/ (at = "naming" /\ tree[name[latest]] = Nobody)
    /\ at' = "idle"
    /\ UNCHANGED <<latest, name, files, db, thread, sweeper, mishaps, ghosts>>

\* Mutant of GiveUp: the gate opens when the caller gives up.
GiveUp_Opens ==
    /\ at \in {"looking", "writing"}
    /\ at' = "idle" /\ gate' = Nobody
    /\ UNCHANGED <<latest, name, files, db, work, todo, done, sweeper, mishaps, ghosts>>

\* Mutant of GiveUp: a look has no timeout.
GiveUp_Writes ==
    /\ at = "writing" /\ at' = "idle"
    /\ UNCHANGED <<latest, name, files, db, thread, sweeper, mishaps, ghosts>>

\* The thread makes no progress for so long that the caller gives up.
GiveUp ==
    /\ at \in {"looking", "writing"}
    /\ at' = "idle"
    /\ UNCHANGED <<latest, name, files, db, thread, sweeper, mishaps, ghosts>>

\* Somebody still waits for the thread of n.
Waited(n) == n = latest /\ at \in {"looking", "writing"}

WriteFile(n, k) ==
    /\ work[n] = "write" /\ k \in todo[n]
    /\ disk' = [disk EXCEPT ![Path(n, k)] = n] /\ dirs' = dirs \cup {name[n]}
    /\ todo' = [todo EXCEPT ![n] = @ \ {k}] /\ done' = [done EXCEPT ![n] = @ \cup {k}]
    /\ UNCHANGED <<gate, work, db, publish, sweeper, mishaps, ghosts>>

\* A write fails, before its folder was made or after, or even after the rename; the
\* thread removes what it wrote before.
WriteFails(n, k) ==
    /\ work[n] = "write" /\ k \in todo[n]
    /\ Mishap
    /\ \/ /\ dirs' \in {dirs, dirs \cup {name[n]}}
          /\ UNCHANGED <<disk, lost>>
       \/ /\ disk' = [disk EXCEPT ![Path(n, k)] = n]
          /\ dirs' = dirs \cup {name[n]}
          /\ lost' = lost \cup {n}
    /\ work' = [work EXCEPT ![n] = "undo"]
    /\ todo' = [todo EXCEPT ![n] = done[n]]
    /\ UNCHANGED <<gate, done, db, publish, sweeper, blind, spoiled, taken>>

\* Mutant of Written: a result nobody waits for is dropped.
Written_Kept(n) ==
    /\ work[n] = "write" /\ todo[n] = {}
    /\ Ends(n) /\ UNCHANGED todo
    /\ at' = IF Waited(n) THEN "written" ELSE at
    /\ UNCHANGED <<latest, name, done, files, db, sweeper, mishaps, ghosts>>

\* Everything is written.  The caller takes the result and the gate with it; if it
\* gave up, the thread goes on to undo its work.
Written(n) ==
    /\ work[n] = "write" /\ todo[n] = {}
    /\ IF Waited(n)
       THEN Ends(n) /\ at' = "written" /\ UNCHANGED todo
       ELSE /\ work' = [work EXCEPT ![n] = "undo"]
            /\ todo' = [todo EXCEPT ![n] = done[n]]
            /\ UNCHANGED <<gate, at>>
    /\ UNCHANGED <<latest, name, done, files, db, sweeper, mishaps, ghosts>>

\* A file that cannot be removed is only logged.
Undo(n, k) ==
    /\ work[n] = "undo" /\ k \in todo[n]
    /\ \/ Remove(Path(n, k)) /\ UNCHANGED <<mishaps, lost>>
       \/ Mishap /\ lost' = lost \cup {n} /\ UNCHANGED files
    /\ todo' = [todo EXCEPT ![n] = @ \ {k}]
    /\ UNCHANGED <<gate, work, done, db, publish, sweeper, blind, spoiled, taken>>

\* A look nobody waits for answers, or everything is undone; after a failed write the
\* caller may still be there to hear of it.
Finished(n) ==
    /\ \/ work[n] = "look" /\ ~Waited(n)
       \/ work[n] = "undo" /\ todo[n] = {}
    /\ Ends(n)
    /\ at' = IF Waited(n) THEN "idle" ELSE at
    /\ UNCHANGED <<latest, name, todo, done, files, db, sweeper, mishaps, ghosts>>

\* A user tries out the directory.
StartProbe ==
    /\ gate = Nobody /\ gate' = Probe
    /\ UNCHANGED <<work, todo, done, publish, files, db, sweeper, mishaps, ghosts>>

EndProbe ==
    /\ gate = Probe /\ gate' = Nobody
    /\ UNCHANGED <<work, todo, done, publish, files, db, sweeper, mishaps, ghosts>>

----------------------------------------------------------------------------
(* Completing: the end of `publish` in the queue, with `finish_job`.       *)

\* The items, the history and the rows, in one transaction.
Stored ==
    /\ tree' = [tree EXCEPT ![name[latest]] = latest]
    /\ history' = history \cup {latest}
    /\ rows' = [p \in Paths |-> IF p[1] = name[latest] /\ p[2] \in done[latest]
                                THEN latest ELSE rows[p]]
    /\ taken' = {p \in taken : ~(p[1] = name[latest] /\ p[2] \in done[latest])}

Finish ==
    /\ at = "written"
    /\ Stored
    /\ at' = "idle"
    /\ UNCHANGED <<latest, name, files, thread, sweeper, mishaps, blind, lost, spoiled>>

\* What was written goes again.
ToDiscard == at' = "discarding" /\ todo' = [todo EXCEPT ![latest] = done[latest]]

\* The job was removed meanwhile, or nothing could be stored.
NotFinished ==
    /\ at = "written"
    /\ ToDiscard
    /\ UNCHANGED <<latest, name, files, db, gate, work, done, sweeper, mishaps, ghosts>>

\* The commit took effect, but its answer was lost.
FinishUnsure ==
    /\ at = "written"
    /\ Mishap
    /\ Stored
    /\ ToDiscard
    /\ spoiled' = spoiled \cup {latest}
    /\ UNCHANGED <<latest, name, files, gate, work, done, sweeper, blind, lost>>

\* `discard`, without the gate.
Discard ==
    /\ at = "discarding"
    /\ IF todo[latest] = {}
       THEN at' = "idle" /\ UNCHANGED <<files, todo, mishaps, lost>>
       ELSE \E k \in todo[latest] :
              /\ todo' = [todo EXCEPT ![latest] = @ \ {k}]
              /\ \/ Remove(Path(latest, k)) /\ UNCHANGED <<mishaps, lost>>
                 \/ Mishap /\ lost' = lost \cup {latest} /\ UNCHANGED files
              /\ UNCHANGED at
    /\ UNCHANGED <<latest, name, gate, work, done, db, sweeper, blind, spoiled, taken>>

----------------------------------------------------------------------------
(* Arrs and users.                                                         *)

\* An Arr moves a file of a completed job out.
Collect(p) ==
    /\ disk[p] \in history
    /\ Remove(p)
    /\ taken' = taken \cup {p}
    /\ UNCHANGED <<db, publish, thread, sweeper, mishaps, blind, lost, spoiled>>

DeleteHistory(n) ==
    /\ n \in history /\ history' = history \ {n}
    /\ UNCHANGED <<rows, tree, files, publish, thread, sweeper, mishaps, ghosts>>

DeleteItems(f) ==
    /\ tree[f] # Nobody /\ tree' = [tree EXCEPT ![f] = Nobody]
    /\ UNCHANGED <<rows, history, files, publish, thread, sweeper, mishaps, ghosts>>

----------------------------------------------------------------------------
(* The sweep.                                                              *)

\* `stale_handoffs`: the item of a row, or the history of its job, is gone.
Stale(p) ==
    /\ rows[p] # Nobody
    /\ tree[p[1]] # rows[p] \/ rows[p] \notin history

StartSweep ==
    /\ sweep = "idle" /\ \E p \in Paths : Stale(p)
    /\ sweep' = "removing"
    /\ seen' = {<<p, rows[p]>> : p \in {q \in Paths : Stale(q)}}
    /\ checked' = {}
    /\ UNCHANGED <<hand, files, db, publish, thread, mishaps, ghosts>>

\* Mutant of Ours: whatever is at the path.
Ours_Any(p, n) == TRUE

\* `ours`, of a file that is there: a STRM names its item, but of a subtitle only the
\* size is known, and another may have it too.
Ours(p, n) == disk[p] = n \/ p[2] = "subtitle"

\* One row.  The file that still is what was written is to be removed; a row whose file
\* cannot be read stays for a later sweep.
SweepLook(p, n) ==
    /\ sweep = "removing" /\ hand = {} /\ <<p, n>> \in seen
    /\ seen' = seen \ {<<p, n>>}
    /\ \/ /\ disk[p] # Nobody /\ Ours(p, n)
          /\ hand' = {[path |-> p, row |-> n, found |-> disk[p]]}
          /\ UNCHANGED <<checked, mishaps>>
       \/ /\ disk[p] # n
          /\ checked' = checked \cup {p}
          /\ UNCHANGED <<hand, mishaps>>
       \/ Mishap /\ UNCHANGED <<hand, checked>>
    /\ UNCHANGED <<sweep, files, db, publish, thread, ghosts>>

\* A removal that may hit a newer file than the row's: of a subtitle, or of a file
\* written since the sweep found the right one.
Outdated(h) == h.found = h.row \/ h.path[2] = "subtitle"

\* The file goes that is at the path by now; that it cannot be removed is only logged.
SweepRemove(h) ==
    /\ h \in hand /\ hand' = {}
    /\ checked' = checked \cup {h.path}
    /\ \/ /\ Remove(h.path)
          /\ spoiled' = IF Outdated(h) THEN spoiled \cup ({disk[h.path]} \ {Nobody, h.row})
                                       ELSE spoiled
          /\ UNCHANGED mishaps
       \/ Mishap /\ UNCHANGED <<files, spoiled>>
    /\ UNCHANGED <<sweep, seen, db, publish, thread, blind, lost, taken>>

\* Rows go by their path, whoever has written them since.
Forget ==
    /\ sweep = "removing" /\ seen = {} /\ hand = {}
    /\ sweep' = "idle" /\ checked' = {}
    /\ rows' = [p \in Paths |-> IF p \in checked THEN Nobody ELSE rows[p]]
    /\ lost' = lost \cup {rows[p] : p \in {q \in checked : disk[q] = rows[q]}}
    /\ UNCHANGED <<seen, hand, tree, history, files, publish, thread, mishaps, blind, spoiled,
                   taken>>

\* They cannot be deleted.
ForgetFails ==
    /\ sweep = "removing" /\ seen = {} /\ hand = {}
    /\ Mishap
    /\ sweep' = "idle" /\ checked' = {}
    /\ UNCHANGED <<seen, hand, files, db, publish, thread, ghosts>>

\* The process stops anywhere.
Crash ==
    /\ Mishap
    /\ at' = "idle" /\ gate' = Nobody
    /\ work' = [n \in Numbers |-> "none"]
    /\ sweep' = "idle" /\ seen' = {} /\ checked' = {} /\ hand' = {}
    /\ lost' = lost \cup {n \in Numbers : work[n] \in {"write", "undo"}}
                    \cup (IF at \in {"written", "discarding"} THEN {latest} ELSE {})
    /\ UNCHANGED <<latest, name, todo, done, files, db, blind, spoiled, taken>>

----------------------------------------------------------------------------
Threads ==
    \/ Looked \/ EndProbe
    \/ \E n \in Numbers :
         \/ \E k \in Kinds : WriteFile(n, k) \/ WriteFails(n, k) \/ Undo(n, k)
         \/ Written(n) \/ Finished(n)

Publisher ==
    \/ PassName \/ Look \/ StartWrite \/ Refused \/ GiveUp
    \/ Finish \/ NotFinished \/ FinishUnsure \/ Discard

Others ==
    \/ Begin \/ LookFails \/ StartProbe \/ StartSweep \/ Forget \/ ForgetFails \/ Crash
    \/ \E p \in Paths : Collect(p)
    \/ \E n \in Numbers : DeleteHistory(n)
    \/ \E f \in Names : DeleteItems(f)
    \/ \E s \in seen : SweepLook(s[1], s[2])
    \/ \E h \in hand : SweepRemove(h)

Next == Threads \/ Publisher \/ Others

Spec == Init /\ [][Next]_vars

\* A publish goes on: its timeouts fire and the database answers.  Nothing is said of
\* the directory, which may hang for good.
FairSpec == Spec /\ WF_vars(Publisher)

----------------------------------------------------------------------------
(* Properties.                                                             *)

TypeOK ==
    /\ disk \in [Paths -> {Nobody} \cup Numbers] /\ dirs \subseteq Names
    /\ rows \in [Paths -> {Nobody} \cup Numbers]
    /\ tree \in [Names -> {Nobody} \cup Numbers] /\ history \subseteq Numbers
    /\ latest \in {0} \cup Numbers
    /\ at \in {"idle", "naming", "looking", "named", "writing", "written", "discarding"}
    /\ at # "idle" => latest \in Numbers
    /\ name \in [Numbers -> Names]
    /\ gate \in {Nobody, Probe} \cup Numbers
    /\ work \in [Numbers -> {"none", "look", "write", "undo"}]
    /\ todo \in [Numbers -> SUBSET Kinds] /\ done \in [Numbers -> SUBSET Kinds]
    /\ sweep \in {"idle", "removing"}
    /\ seen \subseteq Paths \X Numbers /\ checked \subseteq Paths
    /\ hand \subseteq [path : Paths, row : Numbers, found : Numbers]
    /\ mishaps \in 0 .. Mishaps
    /\ blind \subseteq Numbers /\ lost \subseteq {Nobody} \cup Numbers /\ spoiled \subseteq Numbers
    /\ taken \subseteq Paths

(* No publish writes over the file of another, or takes its file away      *)
(* again, however late its thread is (handoff.rs:443, 471): unless it took *)
(* the failed look at a name for a free one (handoff.rs:301).              *)
OthersAreSpared ==
    \A n \in Numbers \ blind : work[n] \in {"write", "undo"} \/ (n = latest /\ at = "discarding")
        => \A k \in todo[n] : disk[Path(n, k)] \in {Nobody, n}

(* No file is left behind (handoff.rs:1-3): one that no row names belongs  *)
(* to a publish that is not through with it, or to one that the process    *)
(* died on, whose write failed after its rename, whose file could not be   *)
(* removed, or whose row was forgotten in place of an older one.           *)
NothingLeftBehind ==
    \A p \in Paths : disk[p] # Nobody /\ rows[p] # disk[p] =>
        \/ disk[p] \in lost
        \/ work[disk[p]] \in {"write", "undo"}
        \/ disk[p] = latest /\ at \in {"written", "discarding"}

(* An Arr finds what the history promises (service.rs:688-696): the files  *)
(* of a completed job stay until taken.  Only a commit reported as failed  *)
(* takes them away, or a sweep on its way from an older row of the path:   *)
(* it removes a subtitle, known by its size alone (handoff.rs:373), or     *)
(* what was written since it found the older file there (254-256).         *)
KeptForTheArr ==
    \A p \in Paths : rows[p] # Nobody /\ rows[p] \in history /\ tree[p[1]] = rows[p] =>
        disk[p] = rows[p] \/ p \in taken \/ rows[p] \in spoiled

(* A publish comes to an end, even on a directory that never answers.      *)
PublishEnds == at # "idle" ~> at = "idle"

(* If the directory answers in the end, however late, the gate opens for   *)
(* others again and again.                                                 *)
GateOpens == WF_vars(Threads) => []<>(gate = Nobody)

(* A hung directory stops neither the job that writes nor, in the end,     *)
(* those that come after it.                                               *)
HangsPass == PublishEnds /\ GateOpens
=============================================================================
