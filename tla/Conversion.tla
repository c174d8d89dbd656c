----------------------------- MODULE Conversion -----------------------------
(***************************************************************************)
(* The conversion of the library (infinidysk/src/library.rs), for one file *)
(* of a Sonarr or Radarr: the job moves the pointer to an item from the    *)
(* name of a symlink to that of a STRM or back, in steps that a row of the *)
(* journal records, moves the Arr's ownership with it, and has the Arr     *)
(* rescan.  Beside it run what users ask for, the Arr, which renames,      *)
(* deletes and scans, its deliveries, and the reconciliation with its      *)
(* library.                                                                *)
(*                                                                         *)
(* A step is what happens between two awaits.  The library holds many      *)
(* other files: one that the Arr lacks is never held for a user to         *)
(* confirm, and others may come before this one or after it.               *)
(***************************************************************************)
EXTENDS Naturals, FiniteSets

CONSTANTS
    Names,      \* bound: the names the Arr gives the file, in turn
    Requests,   \* bound: what users ask for
    Surprises,  \* bound: what fails or changes meanwhile
    None

Sides == {"link", "strm"}
Places == (1 .. Names) \X Sides
At(place, side) == <<place[1], side>>

ASSUME ConversionAssumption ==
    /\ Names \in Nat \ {0} /\ {Requests, Surprises} \subseteq Nat
    /\ None \notin Places \cup Nat \cup {"ours", "foreign", "due", "cancelled"}

INTENT == 1
WRITTEN == 2
MOVED == 3
CONVERTED == 4

VARIABLES
    \* The library folder and the Arr:
    disk,      \* disk[p]: "ours", a pointer to the item, "foreign", or None
    arr,       \* [at, id]: the Arr's record; at = None when it has none
    event,     \* its delivery that is to be applied, [id, to], or None
    \* The database:
    want,      \* the side of the strategy in the settings
    run,       \* RUN_KEY: "due", "cancelled", or None
    journal,   \* the rows of library_files
    owner,     \* [at, id, pending]: the row in arr_owners, or None
    item,      \* the item exists
    \* The process:
    state,     \* what the job says it does
    stop,      \* its cancellation token is cancelled
    calls,     \* the requests under way, [kind, at]
    pc, job,   \* the task: how far it is, and [run, side, files] of this pass, whose
               \* files are the Arr's as it listed them, or None
    rows,      \* the rows this pass has yet to resume, or to rescan
    todo,      \* the places it has yet to look at
    cur,       \* the row being worked on, or None
    resumed,   \* it was there before this pass
    seen,      \* the id of the rescanned file, 0 when the rescan failed, or None
    check,     \* the reconciliation: [at, owner, arr]
    \* What happened:
    fresh,     \* a run is stored since this pass looked for one, or was not forgotten
    crossed,   \* the job said it past a request or the run: see Says, Tell, Leaves and Crash
    past,      \* and of these:
    \* Bounds:
    requests, surprises

Rarities == {
    "deleted",   \* the Arr deleted the file
    "stray",     \* a pointer was moved that is not where its owner is
    "again",     \* one was moved of which a row was left
    "slipped",   \* an owner became one to rescan as the reconciliation had looked for such
    "renamed",   \* an owner to rescan was renamed
    "undone",    \* an owner was moved back for a row that an earlier pass left
    "lost"}      \* a run was forgotten that was not made

library == <<disk, arr, event>>
tables == <<journal, owner, item>>
said == <<state, crossed>>
users == <<want, run, said, stop, calls, requests>>
others == <<check, fresh, past>>
task == <<pc, job, rows, todo, cur, resumed, seen>>
convertVars == <<library, tables, users, others, task, surprises>>

Resting == [run |-> FALSE, side |-> None, files |-> None]
Off == [at |-> "off", owner |-> None, arr |-> None]

\* The two sides are alike: it starts with symlinks.
ConvertInit ==
    /\ want = "link"
    /\ disk = [p \in Places |-> IF p = <<1, want>> THEN "ours" ELSE None]
    /\ arr = [at |-> <<1, want>>, id |-> 1]
    /\ owner = [at |-> <<1, want>>, id |-> 1, pending |-> FALSE]
    /\ event = None /\ item = TRUE /\ journal = {} /\ run = None
    /\ state = "idle" /\ stop = FALSE /\ calls = {}
    /\ pc = "rest" /\ job = Resting /\ rows = {} /\ todo = {} /\ cur = None
    /\ resumed = FALSE /\ seen = None
    /\ check = Off /\ past = {} /\ fresh = FALSE /\ crossed = FALSE
    /\ requests = 0 /\ surprises = 0

Surprise == surprises < Surprises /\ surprises' = surprises + 1
Planned == UNCHANGED surprises

Goes(to) == pc' = to /\ UNCHANGED <<job, rows, todo, cur, resumed, seen>>

\* What is now to be told, if it happens.
Note(what, happens) == past' = past \cup {w \in {what} : happens}

----------------------------------------------------------------------------
(* A pass of the job.                                                      *)

\* The rows to finish, and those whose rescan is to be asked for: one that an earlier
\* rescan did not pick up waits for a run.
Unfinished == {r \in journal : r.state < CONVERTED}
Unscanned(retry) == {r \in journal : r.state = CONVERTED /\ (retry \/ ~r.missed)}

\* A new token; then
Wake ==
    /\ pc = "rest" /\ pc' = "read"
    /\ stop' = FALSE
    /\ UNCHANGED <<library, tables, want, run, said, calls, requests, others, job, rows, todo,
                   cur, resumed, seen, surprises>>

\* `convert` reads the run; when it cannot, there is none.
ReadRun ==
    /\ pc = "read" /\ pc' = "begin"
    /\ \/ job' = [job EXCEPT !.run = run = "due"] /\ Planned
       \/ UNCHANGED job /\ Surprise
    /\ fresh' = FALSE
    /\ UNCHANGED <<library, tables, users, check, past, rows, todo, cur, resumed, seen>>

Ends ==
    /\ pc' = "rest" /\ job' = Resting /\ rows' = {} /\ todo' = {} /\ cur' = None
    /\ resumed' = FALSE /\ seen' = None

\* A pass says how its run stands: wrongly, when requests since it looked for the run left
\* another than `its`.
Says(what, its) == state' = what /\ crossed' = (fresh /\ run # its)

\* It reads the journal and the settings.  Rescans are asked for again after an hour.
Begin(hour) ==
    /\ pc = "begin"
    /\ IF job.run \/ Unfinished # {} \/ (hour /\ Unscanned(FALSE) # {})
       THEN /\ pc' = "resume"
            /\ job' = [job EXCEPT !.side = want]
            /\ rows' = Unfinished
            /\ IF job.run THEN Says("running", "due") ELSE UNCHANGED said
            /\ UNCHANGED <<todo, cur, resumed, seen>>
       ELSE Ends /\ UNCHANGED said
    /\ UNCHANGED <<library, tables, want, run, stop, calls, requests, others, surprises>>

\* The journal cannot be read: nothing is done this time.
BeginFails ==
    /\ pc = "begin" /\ Ends
    /\ UNCHANGED <<library, tables, users, others>> /\ Surprise

\* Mutant of Stopped: a pass that is stopped counts as done.
Stopped_AsDone ==
    /\ stop
    /\ pc = "resume" \/ (pc = "files" /\ job.run)
    /\ Goes("finish")
    /\ UNCHANGED <<library, tables, users, others, surprises>>

\* Stop::Cancelled, looked for before each row and each file, of others too.
Stopped ==
    /\ stop
    /\ pc = "resume" \/ (pc = "files" /\ job.run)
    /\ Ends
    /\ UNCHANGED <<library, tables, users, others, surprises>>

EndsWaiting ==
    /\ Ends
    /\ IF job.run THEN Says("waiting", "due") ELSE UNCHANGED said
    /\ UNCHANGED <<want, run, stop, calls, requests>>

\* Stop::Wait: a folder, the mount, the Arr or the database fails.
Waits ==
    /\ pc \in {"resume", "files", "list", "intend", "forget", "written", "owners", "moved",
               "remove", "removed", "undo", "return", "back"}
    /\ EndsWaiting
    /\ UNCHANGED <<library, tables, others>> /\ Surprise

Resume(r) ==
    /\ pc = "resume" /\ ~stop
    /\ r \in rows /\ rows' = rows \ {r}
    /\ cur' = r /\ resumed' = TRUE
    /\ pc' = CASE r.state = INTENT -> "write"
               [] r.state = WRITTEN -> "owners"
               [] r.state = MOVED -> "remove"
    /\ UNCHANGED <<library, tables, users, others, job, todo, seen, surprises>>

\* A run walks the folder.
Walk ==
    /\ pc = "resume" /\ rows = {} /\ pc' = "files"
    /\ todo' = {p \in Places : job.run /\ disk[p] = "ours"}
    /\ UNCHANGED <<library, tables, users, others, job, rows, cur, resumed, seen, surprises>>

\* A pointer in the form stays, as does one whose item is gone.
Keep(p) ==
    /\ pc = "files" /\ ~stop /\ p \in todo /\ todo' = todo \ {p}
    /\ ~item \/ p[2] = job.side
    /\ UNCHANGED <<library, tables, users, others, pc, job, rows, cur, resumed, seen,
                   surprises>>

\* Another moves.  Its owner is asked for first,
Look(p) ==
    /\ pc = "files" /\ ~stop /\ p \in todo /\ todo' = todo \ {p}
    /\ item /\ p[2] # job.side
    /\ LET its == owner # None /\ owner.at = p
       IN /\ cur' = [from |-> p, to |-> At(p, job.side), state |-> INTENT, missed |-> FALSE,
                     owned |-> IF its THEN "asked" ELSE "no",
                     id |-> IF its THEN owner.id ELSE None]
          /\ pc' = IF its THEN "list" ELSE "intend"
          /\ past' = past \cup {w \in {"stray"} : owner # None /\ ~its}
                          \cup {w \in {"again"} : journal # {}}
    /\ UNCHANGED <<library, tables, users, check, fresh, job, rows, resumed, seen, surprises>>

\* whether the Arr lists the file, by its id or its path,
Lists(a, at, id) == a.at # None /\ (a.id = id \/ a.at = at)

\* as it did for an earlier file of this pass.
List ==
    /\ pc = "list" /\ pc' = "intend"
    /\ job' = [job EXCEPT !.files = IF @ = None THEN arr ELSE @]
    /\ cur' = [cur EXCEPT !.owned =
                 IF Lists(job'.files, cur.from, cur.id) THEN "rescanned" ELSE "moved"]
    /\ UNCHANGED <<library, tables, users, others, rows, todo, resumed, seen, surprises>>

ListForAnother ==
    /\ pc = "files" /\ todo # {} /\ job.files = None
    /\ job' = [job EXCEPT !.files = arr]
    /\ UNCHANGED <<library, tables, users, others, pc, rows, todo, cur, resumed, seen,
                   surprises>>

----------------------------------------------------------------------------
(* The steps of a row.                                                     *)

OtherRows(row) == {r \in journal : r.from # row.from}
Put(row) == journal' = OtherRows(row) \cup {row}
Reached(row, n) == [row EXCEPT !.state = n]

Onward ==
    /\ pc' = IF resumed THEN "resume" ELSE "files"
    /\ cur' = None /\ resumed' = FALSE
    /\ UNCHANGED <<job, rows, todo, seen>>

OnDisk == UNCHANGED <<arr, event, tables, users, others>>
InTables == UNCHANGED <<library, item, users>>

\* The row is put, further on.
Advance(n, to) ==
    /\ cur' = Reached(cur, n) /\ Put(cur')
    /\ pc' = to
    /\ UNCHANGED <<owner, others, job, rows, todo, resumed, seen>> /\ InTables /\ Planned

Intend == pc = "intend" /\ Advance(INTENT, "write")

Source == disk[cur.from]
Target == disk[cur.to]

\* The target is written, unless the source is gone or the name is somebody's.
WriteTarget ==
    /\ pc = "write"
    /\ IF Source = "ours" /\ Target # "foreign"
       THEN disk' = [disk EXCEPT ![cur.to] = "ours"] /\ Goes("written")
       ELSE UNCHANGED disk /\ Goes("forget")
    /\ OnDisk /\ Planned

\* The write fails, perhaps after its rename.
WriteFails ==
    /\ pc = "write" /\ Goes("forget")
    /\ \/ UNCHANGED disk
       \/ Source = "ours" /\ Target = None /\ disk' = [disk EXCEPT ![cur.to] = "ours"]
    /\ OnDisk /\ Surprise

Forget ==
    /\ pc = "forget" /\ Onward
    /\ journal' = OtherRows(cur)
    /\ UNCHANGED <<owner, others>> /\ InTables /\ Planned

Written == pc = "written" /\ Advance(WRITTEN, "owners")

\* `move_owner`: nothing when the file is not at `from` anymore.
MoveOwner(from, to, pending) ==
    owner' = IF cur.owned # "no" /\ owner # None /\ owner.at = from
             THEN [owner EXCEPT !.at = to, !.pending = pending] ELSE owner

Owners ==
    /\ pc = "owners" /\ Goes("moved")
    /\ MoveOwner(cur.from, cur.to, cur.owned = "rescanned")
    /\ Note("slipped", check.at = "owners" /\ owner' # owner)
    /\ UNCHANGED <<journal, check, fresh>> /\ InTables /\ Planned

Moved == pc = "moved" /\ Advance(MOVED, "remove")

\* Mutant of Removable: a missing source is somebody else's doing.
Removable_Ours == Source = "ours"

\* The source goes if it still is what was converted.  One that is missing after a
\* restart was removed by us.
Removable == Source = "ours" \/ (Source = None /\ resumed)

Remove ==
    /\ pc = "remove"
    /\ Goes(IF Removable THEN "removed" ELSE "undo")
    /\ disk' = IF Source = "ours" THEN [disk EXCEPT ![cur.from] = None] ELSE disk
    /\ OnDisk /\ Planned

\* It cannot be removed, or the target cannot: the row waits for the next pass.
RemoveFails ==
    /\ pc \in {"remove", "undo"} /\ Onward
    /\ UNCHANGED disk
    /\ OnDisk /\ Surprise

\* Mutant of Kept: every row goes once its source is removed.
Kept_Not(row) == FALSE

\* A row whose Arr is to rescan stays.
Kept(row) == row.owned = "rescanned"
Removed ==
    /\ pc = "removed" /\ Onward
    /\ IF Kept(cur) THEN Put(Reached(cur, CONVERTED)) ELSE journal' = OtherRows(cur)
    /\ UNCHANGED <<owner, others>> /\ InTables /\ Planned

\* `undo`: the target goes if it is what was written, and the owner moves back.
Undo ==
    /\ pc = "undo" /\ Goes("return")
    /\ disk' = IF Target = "ours" THEN [disk EXCEPT ![cur.to] = None] ELSE disk
    /\ OnDisk /\ Planned

Return ==
    /\ pc = "return" /\ Goes("forget")
    /\ MoveOwner(cur.to, cur.from, FALSE)
    /\ Note("undone", resumed /\ owner' # owner)
    /\ UNCHANGED <<journal, check, fresh>> /\ InTables /\ Planned

----------------------------------------------------------------------------
(* Rescans and the end of a pass.                                          *)

\* `remap`
Remap ==
    /\ pc = "files" /\ todo = {}
    /\ rows' = Unscanned(job.run)
    /\ pc' = IF rows' = {} THEN "finish" ELSE "rescan"
    /\ UNCHANGED <<library, tables, users, others, job, todo, cur, resumed, seen, surprises>>

\* The Arr has looked at the file's folder since it changed.
Scanned ==
    IF arr.at = None THEN \A p \in Places : disk[p] # "ours" ELSE disk[arr.at] = "ours"

\* The files are read: a row whose file has no new name is missed.
Answered(r) ==
    [r EXCEPT !.missed = @ \/ arr.at # r.to, !.owned = IF arr.at = r.to THEN "settled" ELSE @]

\* The rescan is done.
\* A stop leaves all rows as they are, and so does a rescan that fails.
Rescan ==
    /\ pc = "rescan"
    /\ \/ stop /\ pc' = "back" /\ UNCHANGED <<rows, seen>> /\ Planned
       \/ pc' = "back" /\ seen' = 0 /\ UNCHANGED rows /\ Surprise
       \/ /\ ~stop /\ pc' = "settle"
          /\ IF Scanned THEN Planned ELSE Surprise
          /\ seen' = arr.id
          /\ rows' = {Answered(r) : r \in rows}
    /\ UNCHANGED <<library, tables, users, others, job, todo, cur, resumed>>

\* `settle_owner`, for the others.
Settle ==
    /\ pc = "settle" /\ Goes("back")
    /\ owner' = IF owner # None /\ \E r \in rows : r.owned = "settled"
                THEN [owner EXCEPT !.id = seen, !.pending = FALSE] ELSE owner
    /\ UNCHANGED <<journal, others>> /\ InTables /\ Planned

\* It fails: every row waits for the next rescan.
Unanswered(r) == [r EXCEPT !.owned = "rescanned"]
SettleFails ==
    /\ pc = "settle" /\ pc' = "back"
    /\ seen' = 0
    /\ rows' = {Unanswered(r) : r \in rows}
    /\ UNCHANGED <<library, tables, users, others, job, todo, cur, resumed>> /\ Surprise

WriteBack(r) ==
    /\ pc = "back" /\ r \in rows /\ rows' = rows \ {r}
    /\ IF Kept(r) THEN Put(r) ELSE journal' = OtherRows(r)
    /\ UNCHANGED <<owner, others, pc, job, todo, cur, resumed, seen>> /\ InTables /\ Planned

\* A stop, of this rescan or another's, or a failure ends the pass, else all is done.
Rescanned ==
    /\ pc = "back" /\ rows = {}
    /\ \/ stop /\ Ends /\ UNCHANGED users
       \/ seen = 0 /\ EndsWaiting
       \/ seen \notin {None, 0} /\ Goes("finish") /\ UNCHANGED users
    /\ UNCHANGED <<library, tables, others, surprises>>

\* The run is forgotten, with any stored since; requests from here on come after it,
Finish ==
    /\ pc = "finish"
    /\ IF job.run THEN Goes("done") ELSE Ends
    /\ \/ run' = (IF job.run THEN None ELSE run) /\ Planned
       \/ job.run /\ UNCHANGED run /\ Surprise
    /\ Note("lost", fresh /\ run' # run)
    /\ fresh' = IF job.run THEN run' # None ELSE fresh
    /\ UNCHANGED <<library, tables, want, said, stop, calls, requests, check>>

\* and the job is idle.
Done ==
    /\ pc = "done" /\ Ends
    /\ Says("idle", None)
    /\ UNCHANGED <<library, tables, want, run, stop, calls, requests, others, surprises>>

----------------------------------------------------------------------------
(* What users ask for.                                                     *)

Asks(kind) ==
    /\ requests < Requests /\ requests' = requests + 1
    /\ \A c \in calls : c.kind # kind
    /\ calls' = calls \cup {[kind |-> kind, at |-> "store"]}
    /\ UNCHANGED <<library, tables, run, said, stop, others, task, surprises>>

\* The other form is confirmed: the settings are saved, then a run starts.
Confirm == Asks("start") /\ want' \in Sides \ {want}

Check == Asks("start") /\ UNCHANGED want

\* `cancel` finds a run.
CancelRun == run # None /\ Asks("cancel") /\ UNCHANGED want

\* `start` and `cancel` store the run,
RunOf(c) == IF c.kind = "start" THEN "due" ELSE "cancelled"
Store(c) ==
    /\ c \in calls /\ c.at = "store"
    /\ calls' = (calls \ {c}) \cup {[c EXCEPT !.at = "tell"]}
    /\ \/ /\ run' = RunOf(c)
          /\ fresh' = TRUE /\ Planned
       \/ UNCHANGED <<run, fresh>> /\ Surprise
    /\ UNCHANGED <<library, tables, want, said, stop, requests, check, past, task>>

\* and interrupt the job: too late if that run is not the stored one anymore, or never was.
Tell(c) ==
    /\ c \in calls /\ c.at = "tell"
    /\ calls' = calls \ {c}
    /\ state' = IF c.kind = "start" THEN "running" ELSE "cancelled"
    /\ stop' = TRUE
    /\ crossed' = (run # RunOf(c))
    /\ UNCHANGED <<library, tables, want, run, requests, others, task, surprises>>

\* The client leaves meanwhile: the rest of the call is dropped, and a run that was stored
\* is not told of.
Leaves(c) ==
    /\ c \in calls /\ calls' = calls \ {c}
    /\ crossed' = (crossed \/ c.at = "tell")
    /\ UNCHANGED <<library, tables, want, run, state, stop, requests, others, task>> /\ Surprise

\* So does one for a preview.
Preview ==
    /\ requests < Requests /\ requests' = requests + 1
    /\ stop' = TRUE
    /\ UNCHANGED <<library, tables, want, run, said, calls, others, task, surprises>>

----------------------------------------------------------------------------
(* The Arr.                                                                *)

Aside == UNCHANGED <<tables, users, check, fresh, task>>

HasFile == arr.at # None /\ disk[arr.at] = "ours"

Deletes ==
    /\ HasFile /\ event = None
    /\ disk' = [disk EXCEPT ![arr.at] = None]
    /\ arr' = [arr EXCEPT !.at = None]
    /\ event' = [id |-> arr.id, to |-> None]
    /\ Note("deleted", TRUE)
    /\ Aside /\ Surprise

Renames ==
    /\ HasFile /\ event = None /\ arr.at[1] < Names
    /\ LET to == <<arr.at[1] + 1, arr.at[2]>>
       IN /\ disk[to] = None
          /\ disk' = [disk EXCEPT ![arr.at] = None, ![to] = "ours"]
          /\ arr' = [arr EXCEPT !.at = to]
          /\ event' = [id |-> arr.id, to |-> to]
    /\ Aside /\ UNCHANGED past /\ Surprise

\* A scan drops the record of a missing file; that delivery is ignored.
Drops ==
    /\ arr.at # None /\ ~HasFile
    /\ arr' = [arr EXCEPT !.at = None]
    /\ Aside /\ UNCHANGED <<disk, event, past, surprises>>

\* It takes up a file without one.
Finds ==
    /\ arr.at = None
    /\ \E p \in Places : disk[p] = "ours" /\ arr' = [at |-> p, id |-> arr.id + 1]
    /\ Aside /\ UNCHANGED <<disk, event, past, surprises>>

\* Somebody else's file, no media, takes a name.
Occupies(p) ==
    /\ disk[p] = None
    /\ disk' = [disk EXCEPT ![p] = "foreign"]
    /\ Aside /\ UNCHANGED <<arr, event, past>> /\ Surprise

\* The delivery is applied to the owner of that file id.
Deliver ==
    /\ event # None /\ event' = None
    /\ LET its == owner # None /\ owner.id = event.id
       IN /\ owner' = IF ~its THEN owner
                      ELSE IF event.to = None THEN None ELSE [owner EXCEPT !.at = event.to]
          /\ item' = (item /\ ~(its /\ event.to = None))
          /\ Note("renamed", its /\ event.to # None /\ owner.pending)
    /\ UNCHANGED <<disk, arr, journal, users, check, fresh, task, surprises>>

----------------------------------------------------------------------------
(* The reconciliation.                                                     *)

\* Mutant of ToRescan: nothing holds the reconciliation up.
ToRescan_None == FALSE

\* It waits while an owner is one to rescan,
ToRescan == owner # None /\ owner.pending
Looks ==
    /\ check = Off /\ ~ToRescan
    /\ check' = [check EXCEPT !.at = "owners"]
    /\ UNCHANGED <<library, tables, users, past, fresh, task>> /\ Surprise

\* reads the owners, then the Arr's library,
Reads ==
    /\ \/ check.at = "owners" /\ check' = [check EXCEPT !.at = "library", !.owner = owner]
       \/ check.at = "library" /\ check' = [check EXCEPT !.at = "judge", !.arr = arr]
    /\ UNCHANGED <<library, tables, users, past, fresh, task, surprises>>

\* and gives an owner the id its path has now, or deletes the item of one the Arr lists
\* neither by its id nor by its path, unless the row changed.
Judges ==
    /\ check.at = "judge" /\ check' = Off
    /\ LET o == check.owner
           a == check.arr
           same == o # None /\ owner # None /\ owner.at = o.at /\ owner.id = o.id
           gone == same /\ ~Lists(a, o.at, o.id)
       IN /\ item' = (item /\ ~gone)
          /\ owner' = IF gone THEN None
                      ELSE IF same /\ a.at = o.at THEN [owner EXCEPT !.id = a.id] ELSE owner
    /\ UNCHANGED <<library, journal, users, past, fresh, task, surprises>>

----------------------------------------------------------------------------
\* The process stops anywhere and starts again: `load` shows the run it finds, and is idle when
\* it cannot look.
Crash ==
    /\ Ends /\ stop' = FALSE /\ calls' = {} /\ check' = Off /\ fresh' = FALSE
    /\ \/ /\ state' = CASE run = "due" -> "running" [] run = "cancelled" -> "cancelled"
                        [] run = None -> "idle"
          /\ crossed' = FALSE
       \/ state' = "idle" /\ crossed' = (run # None)
    /\ UNCHANGED <<library, tables, want, run, requests, past>> /\ Surprise

Works ==
    \/ Wake \/ ReadRun \/ \E hour \in BOOLEAN : Begin(hour)
    \/ Stopped \/ Walk \/ List \/ ListForAnother
    \/ \E r \in rows : Resume(r) \/ WriteBack(r)
    \/ \E p \in todo : Keep(p) \/ Look(p)
    \/ Intend \/ WriteTarget \/ Forget \/ Written \/ Owners \/ Moved
    \/ Remove \/ Removed \/ Undo \/ Return
    \/ Remap \/ Rescan \/ Settle \/ Rescanned \/ Finish \/ Done
Serves == \E c \in calls : Store(c) \/ Tell(c)

ConvertNext ==
    \/ Works \/ BeginFails \/ Waits \/ WriteFails \/ RemoveFails \/ SettleFails
    \/ Confirm \/ Check \/ CancelRun \/ Preview \/ Serves \/ \E c \in calls : Leaves(c)
    \/ Deletes \/ Renames \/ Drops \/ Finds \/ Deliver
    \/ \E p \in Places : Occupies(p)
    \/ Looks \/ Reads \/ Judges
    \/ Crash

ConvertSpec == ConvertInit /\ [][ConvertNext]_convertVars

----------------------------------------------------------------------------
(* Properties.                                                             *)

Rows == [from : Places, to : Places, state : INTENT .. CONVERTED, missed : BOOLEAN,
         owned : {"no", "asked", "moved", "rescanned", "settled"}, id : Nat \cup {None}]
Records == [at : Places \cup {None}, id : Nat]
Owned == [at : Places, id : Nat, pending : BOOLEAN] \cup {None}

LibraryTypes ==
    /\ disk \in [Places -> {"ours", "foreign", None}] /\ arr \in Records
    /\ event \in [id : Nat, to : Places \cup {None}] \cup {None}

TableTypes == journal \subseteq Rows /\ owner \in Owned /\ item \in BOOLEAN

UserTypes ==
    /\ want \in Sides /\ run \in {"due", "cancelled", None}
    /\ state \in {"idle", "running", "waiting", "cancelled"} /\ crossed \in BOOLEAN
    /\ stop \in BOOLEAN
    /\ calls \subseteq [kind : {"start", "cancel"}, at : {"store", "tell"}]
    /\ requests \in 0 .. Requests

TaskTypes ==
    /\ pc \in {"rest", "read", "begin", "resume", "files", "list", "intend", "write", "forget",
               "written", "owners", "moved", "remove", "removed", "undo", "return", "rescan",
               "settle", "back", "finish", "done"}
    /\ job \in [run : BOOLEAN, side : Sides \cup {None}, files : Records \cup {None}]
    /\ rows \subseteq Rows /\ todo \subseteq Places /\ cur \in Rows \cup {None}
    /\ resumed \in BOOLEAN /\ seen \in Nat \cup {None}

OtherTypes ==
    /\ check \in [at : {"off", "owners", "library", "judge"}, owner : Owned,
                  arr : Records \cup {None}]
    /\ fresh \in BOOLEAN /\ past \subseteq Rarities

ConvertTypeOK ==
    /\ LibraryTypes /\ TableTypes /\ UserTypes /\ TaskTypes /\ OtherTypes
    /\ surprises \in 0 .. Surprises

HasPointer == \E p \in Places : disk[p] = "ours"

(* Whatever fails, changes or stops it, the job never takes the last       *)
(* pointer to an item from the library (library.rs:1423-1442, 1460-1485).  *)
(* It does in two cases, both of a row that an earlier pass left with its  *)
(* source removed or unremovable: somebody else's file has taken the name  *)
(* of the source since, so that the row is undone and its target goes; or  *)
(* its target has been moved on or is not ours anymore, which nothing      *)
(* looks at before the source goes.                                        *)
LastKept ==
    [][HasPointer /\ ~HasPointer' =>
         \/ "deleted" \in past'
         \/ resumed /\ pc = "undo" /\ Source = "foreign"
         \/ resumed /\ pc = "remove" /\ Target # "ours"]_convertVars

(* The Arr loses sight of a file between its removal and the rescan that   *)
(* finds the new one; neither its deliveries nor the reconciliation delete *)
(* the item for that (reconcile.rs:210-218, webhook.rs:321-328), unless    *)
(* the reconciliation looked for owners to rescan just before there was    *)
(* one, a pointer was moved whose owner was elsewhere or still waited, or  *)
(* an owner was moved back whose file may be gone, and waits no longer.    *)
ItemKept ==
    [][item /\ ~item' =>
         past' \cap {"deleted", "slipped", "stray", "again", "undone"} # {}]_convertVars

(* An owner that waits for a rescan, which holds up the reconciliation of  *)
(* its whole Arr, has a row that asks for one (library.rs:1443-1452),      *)
(* through crashes, undone and failed moves and failed rescans: unless a   *)
(* rename was delivered meanwhile, whose path the row does not know, or    *)
(* the move back took over the row.                                        *)
RescansRemembered ==
    ToRescan /\ past \cap {"renamed", "again"} = {} => \E r \in journal : r.owned = "rescanned"

InForm == \A p \in Places : disk[p] = "ours" => p[2] = want

\* The job says how its run stands: one to make, which maintenance waits for while the
\* job is running, one that was cancelled, or none.
SaysTheRun ==
    state \in CASE run = "due" -> {"running", "waiting"}
                [] run = "cancelled" -> {"cancelled"}
                [] run = None -> {"idle"}

\* One that says it is idle has made the runs asked for.
IdleWhenMade ==
    state = "idle" /\ run = None /\ surprises = 0 =>
        \/ "lost" \in past
        \/ InForm /\ Unfinished = {} /\ (journal = {} \/ "again" \in past)

(* Between two passes, what the job says is true of the run that is stored *)
(* (library.rs:42, 650-662, 843-938), through stops, failures and crashes, *)
(* unless requests crossed when it was last said.  Those are all the ways  *)
(* to get it wrong: a request's word comes after the run was made and      *)
(* forgotten, after that of a later request, or of a run that could not be *)
(* stored or whose client left before it was told (843-873); and a pass    *)
(* that read the run before a request says it runs (900), waits (922) or   *)
(* is idle (913) over what was stored since, or is idle over a run that it *)
(* could not forget or, when it starts (505), not read.  And one that says *)
(* it is idle is done, but for a run stored as a pass ended and forgotten  *)
(* with the one it made.                                                   *)
StatusTrue == pc = "rest" /\ calls = {} => (SaysTheRun \/ crossed) /\ IdleWhenMade
=============================================================================
