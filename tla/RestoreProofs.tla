---------------------------- MODULE RestoreProofs ----------------------------
(***************************************************************************)
(* Proofs about Restore, for any number of restores, undos and mishaps.    *)
(* The invariant says, of everything a host crash may leave of the folder  *)
(* and of the intent, that the one explains the other: which set holds     *)
(* which database, whole or on its way, and that nothing the app wrote is  *)
(* anywhere else.                                                          *)
(***************************************************************************)
EXTENDS Restore, TLAPS

Dirs == [Files -> {None} \cup Ids]

Main(d, s) == d[<<s, "main">>]
Log(d, s) == d[<<s, "wal">>]

\* A set is database x, with its log if that has commits.
Whole(d, s, x) ==
    /\ Main(d, s) = x /\ Log(d, s) \in {None, x}
    /\ x \in needs \ cut => Log(d, s) = x

Bare(d, s) == Main(d, s) = None /\ Log(d, s) = None

\* Database x is on its way from one set to another.
Moving(d, s, t, x) ==
    /\ \/ Main(d, s) = x /\ Main(d, t) = None
       \/ Main(d, s) = None /\ Main(d, t) = x
    /\ \/ Log(d, s) \in {None, x} /\ Log(d, t) = None
       \/ Log(d, s) = None /\ Log(d, t) \in {None, x}
    /\ x \in needs \ cut => x \in {Log(d, s), Log(d, t)}

\* Nothing but these was written to and not let go.
Only(dbs) == written \ dropped \subseteq dbs

\* The folder as it is without a request.
Settled(d) ==
    /\ Main(d, "live") # None /\ Whole(d, "live", Main(d, "live"))
    /\ Main(d, "undo") # None => Whole(d, "undo", Main(d, "undo"))
    /\ Bare(d, "undone")
    /\ Only({Main(d, "live"), Main(d, "undo")})

\* The folder in each phase of a restore, and of an undo.
RestoreExplains(d, phase, was, goal) ==
    /\ Bare(d, "undone")
    /\ phase \in {"requested", "aside-cleared", "live-aside", "swapped", "rolling-back"} =>
         goal \notin written
    /\ phase = "requested" =>
         /\ Whole(d, "live", was) /\ Whole(d, "staged", goal)
         /\ Main(d, "undo") \in {None} \cup dropped \/ Whole(d, "undo", Main(d, "undo"))
         /\ Only({was, Main(d, "undo")})
    /\ phase = "aside-cleared" =>
         Moving(d, "live", "undo", was) /\ Whole(d, "staged", goal) /\ Only({was})
    /\ phase = "live-aside" =>
         Whole(d, "undo", was) /\ Moving(d, "staged", "live", goal) /\ Only({was})
    /\ phase = "swapped" => Whole(d, "undo", was) /\ Whole(d, "live", goal) /\ Only({was})
    /\ phase = "opened" =>
         Settled(d) /\ Main(d, "live") = goal /\ (Main(d, "undo") = was \/ was \in dropped)
    /\ phase = "rolling-back" =>
         /\ Whole(d, "undo", was) /\ Only({was})
         /\ Main(d, "live") \in {None, goal} /\ Log(d, "live") \in {None, goal}
    /\ phase = "incoming-back" => Moving(d, "undo", "live", was) /\ Only({was})
    /\ phase = "rolled-back" => Settled(d) /\ Main(d, "live") = was

UndoExplains(d, phase, was, goal) ==
    /\ Only({was, goal})
    /\ phase = "requested" =>
         Whole(d, "live", was) /\ Whole(d, "undo", goal) /\ Bare(d, "undone")
    /\ phase = "aside-cleared" => Moving(d, "live", "undone", was) /\ Whole(d, "undo", goal)
    /\ phase = "live-aside" => Whole(d, "undone", was) /\ Moving(d, "undo", "live", goal)
    /\ phase = "swapped" =>
         Whole(d, "undone", was) /\ Whole(d, "live", goal) /\ Bare(d, "undo")
    /\ phase = "opened" =>
         /\ Whole(d, "live", goal) /\ Bare(d, "undo")
         /\ was \in dropped \/ Whole(d, "undone", was)
    /\ phase = "rolling-back" => Whole(d, "undone", was) /\ Moving(d, "live", "undo", goal)
    /\ phase = "incoming-back" => Whole(d, "undo", goal) /\ Moving(d, "undone", "live", was)
    /\ phase = "rolled-back" => Settled(d) /\ Main(d, "live") = was

Explains(i, d) ==
    /\ i.action = "none" => Settled(d)
    /\ i.action = "restore" => RestoreExplains(d, i.phase, i.was, i.goal)
    /\ i.action = "undo" => UndoExplains(d, i.phase, i.was, i.goal)

Explained == \A d \in images : \A i \in intents : Explains(i, d)

\* Databases are numbered, and the main file of each is in one place.
Numbered ==
    /\ written \subseteq 1 .. made /\ needs \subseteq 1 .. made
    /\ \A d \in images : \A f \in Files : d[f] \in 0 .. made

Apart ==
    \A d \in images :
        /\ Log(d, "staged") = None
        /\ \A s, t \in Sets : Main(d, s) # None /\ Main(d, t) = Main(d, s) => s = t

\* No crash changes which database is live while it is open, or which one the undo copy is
\* while a part of it is there to be deleted.
ClearingUndo == app = "phases" /\ intent.action = "restore" /\ intent.phase = "requested"

Steady ==
    /\ app \notin {"down", "phases"} \/ intent = NoIntent =>
         \A d \in images : Main(d, "live") = Live
    /\ (intent = NoIntent \/ ClearingUndo) /\ ~Bare(dir, "undo") =>
         \A d \in images : Main(d, "undo") = Main(dir, "undo")

\* Where the process can be, and what is synced there.
Control ==
    /\ app \in {"phases", "closing", "finishing"} => intent # NoIntent
    /\ app \notin {"down", "up"} /\ intent # NoIntent => intents = {intent}
    /\ app \notin {"phases", "finishing"} => step = "move"
    /\ app # "up" \/ intent # NoIntent => task = "none"
    /\ intent = NoIntent => \A i \in intents : i.phase \in {"none", "opened", "rolled-back"}
    /\ app = "up" =>
         \A i \in intents : i.phase \in {"none", "requested", "opened", "rolled-back"}
    /\ app = "opening" => intent.phase \in {"none", "swapped", "opened", "rolled-back"}
    /\ app = "closing" => intent.phase = "swapped"
    /\ app = "finishing" =>
         intent.phase \in IF step = "write" THEN {"swapped"} ELSE {"opened", "rolled-back"}
    /\ app = "phases" /\ step # "move" => Source # "none"

Clean ==
    /\ app = "phases" /\ (step = "write" \/ Source = "none") => images = {dir}
    /\ app \in {"opening", "closing"} /\ intent # NoIntent => images = {dir}
    /\ app = "finishing" /\ (step # "move" \/ ~Undone) => images = {dir}
    /\ task = "staged" => images = {dir} /\ intents = {NoIntent}

\* What the next step relies on.
Ready ==
    /\ app = "phases" /\ step # "move" =>
         Explains([intent EXCEPT !.phase = After(@)], dir)
    /\ app = "finishing" /\ step = "sync" => Settled(dir)
    /\ task \in {"placed", "staged"} =>
         Main(dir, "staged") = made /\ made \notin written \cup needs

Inv == TypeOK /\ Numbered /\ Apart /\ Explained /\ Steady /\ Control /\ Clean /\ Ready

----------------------------------------------------------------------------
LEMMA FilesAre ==
    /\ \A s \in Sets : \A p \in Parts : <<s, p>> \in Files
    /\ \A f \in Files : \E s \in Sets : \E p \in Parts : f = <<s, p>>
    /\ Gone \notin Files
    /\ Parts = {"wal", "main"}
BY DEF Files, Sets, Parts, Gone

LEMMA IdsAre == None \notin Ids /\ Ids \subseteq Nat /\ 1 \in Ids
BY RestoreAssumption DEF None, Ids

\* What a file operation makes of a folder.
LEMMA ChangedIs ==
    ASSUME NEW d \in Dirs, NEW db \in {None} \cup Ids, NEW from, NEW to
    PROVE  /\ Changed(d, db, from, to) \in Dirs
           /\ \A f \in Files : Changed(d, db, from, to)[f] =
                IF f = to THEN db ELSE IF f = from THEN None ELSE d[f]
<1>1. \A f \in Files : d[f] \in {None} \cup Ids
  BY DEF Dirs
<1> QED
  BY <1>1 DEF Changed, Dirs

LEMMA LogIs ==
    ASSUME NEW d \in Dirs, NEW db \in {None} \cup Ids
    PROVE  /\ [d EXCEPT ![<<"live", "wal">>] = db] \in Dirs
           /\ \A f \in Files : [d EXCEPT ![<<"live", "wal">>] = db][f] =
                IF f = <<"live", "wal">> THEN db ELSE d[f]
BY FilesAre DEF Dirs

LEMMA PhasesAre ==
    /\ {"requested", "aside-cleared", "live-aside", "swapped", "opened", "rolling-back",
         "incoming-back", "rolled-back"} = Phases
    /\ NoIntent.phase = "none" /\ NoIntent.action = "none"
BY DEF Phases, NoIntent

LEMMA IntentIs ==
    ASSUME NEW i \in Intents
    PROVE  /\ i = NoIntent <=> i.action = "none"
           /\ i = NoIntent <=> i.phase = "none"
           /\ i # NoIntent =>
                /\ i.action \in {"restore", "undo"} /\ i.phase \in Phases
                /\ i.was \in Ids /\ i.goal \in Ids
                /\ \A p \in Phases : LET j == [i EXCEPT !.phase = p] IN
                     /\ j \in Intents /\ j # NoIntent /\ j.phase = p
                     /\ j.action = i.action /\ j.was = i.was /\ j.goal = i.goal
BY DEF Intents, NoIntent, Phases


LEMMA Typed ==
    ASSUME TypeOK
    PROVE  /\ dir \in images /\ images \subseteq Dirs
           /\ \A d \in Dirs : \A f \in Files : d[f] \in {None} \cup Ids
           /\ \A d \in Dirs : \A s \in Sets :
                Main(d, s) \in {None} \cup Ids /\ Log(d, s) \in {None} \cup Ids
           /\ Live \in {None} \cup Ids
           /\ intent \in intents /\ intents \subseteq Intents /\ made \in Ids
           /\ \A s \in Sets : First(s) \in Parts /\ <<s, First(s)>> \in Files
<1>1. /\ dir \in images /\ images \subseteq Dirs
      /\ intent \in intents /\ intents \subseteq Intents /\ made \in Ids
  BY DEF TypeOK, Dirs
<1>2. \A d \in Dirs : \A f \in Files : d[f] \in {None} \cup Ids
  BY DEF Dirs
<1> QED
  BY <1>1, <1>2, FilesAre DEF Main, Log, Live, First, Sets

LEMMA PutIs ==
    ASSUME TypeOK, NEW db \in {None} \cup Ids, NEW from, NEW to, Put(db, from, to)
    PROVE  /\ dir' \in images' /\ images' \subseteq Dirs
           /\ dir' = Changed(dir, db, from, to)
           /\ \A d \in images' : d \in images \/ \E e \in images : d = Changed(e, db, from, to)
<1>1. dir \in images /\ images \subseteq Dirs
  BY Typed
<1>2. \A d \in images : Changed(d, db, from, to) \in Dirs
  BY <1>1, ChangedIs
<1>3. /\ dir' = Changed(dir, db, from, to)
      /\ images' = images \cup {Changed(d, db, from, to) : d \in images}
  BY DEF Put
<1> QED
  BY <1>1, <1>2, <1>3

LEMMA SetLogIs ==
    ASSUME TypeOK, NEW db \in {None} \cup Ids, SetLog(db)
    PROVE  /\ dir' \in images' /\ images' \subseteq Dirs
           /\ dir' = [dir EXCEPT ![<<"live", "wal">>] = db]
           /\ \A d \in images' : \E e \in images : d = [e EXCEPT ![<<"live", "wal">>] = db]
BY Typed, LogIs DEF SetLog

LEMMA FilesTyped ==
    ASSUME TypeOK, NEW s \in Sets, NEW t
    PROVE  Delete(s) \/ Move(s, t) \/ Rename(<<"staged", "main">>, Gone) =>
             dir' \in images' /\ images' \subseteq Dirs
<1>1. \A f \in Files : dir[f] \in {None} \cup Ids
  BY Typed
<1>2. <<"staged", "main">> \in Files
  BY FilesAre DEF Sets
<1> QED
  BY <1>1, <1>2, PutIs, Typed DEF Delete, Move, Rename

\* The phase after one that has files to move.
LEMMA NextIntent ==
    ASSUME intent \in Intents, Source # "none"
    PROVE  /\ intent # NoIntent /\ intent.phase \in Phases
           /\ After(intent.phase) \in Phases
           /\ [intent EXCEPT !.phase = After(@)] \in Intents
<1>1. intent.phase \in {"requested", "aside-cleared", "live-aside", "rolling-back",
                        "incoming-back"}
  BY DEF Source
<1>2. intent # NoIntent
  BY <1>1 DEF NoIntent
<1>3. After(intent.phase) \in Phases
  BY <1>1 DEF After, Phases
<1> QED
  BY <1>2, <1>3, IntentIs

\* Type correctness, in three parts.
LEMMA Sourced == Source # "none" => Source \in Sets
BY DEF Source, Aside, Incoming, Sets

LEMMA FilesStep ==
    ASSUME Inv, Next
    PROVE  (dir \in images /\ images \subseteq Dirs)'
<1> USE Typed, SetLogIs, FilesTyped, IdsAre DEF Inv, files
<1>1. CASE StartPending \/ Moved \/ Synced \/ NextPhase \/ PhasesDone \/ BeginRollBack \/
    MarkOpened \/ UndoneDeleted \/ RemoveIntent \/ RequestUndo \/ Kill \/ HostCrash \/ MoveFails
    \/ FinishFails
  BY <1>1 DEF StartPending, Moved, Synced, NextPhase, PhasesDone, BeginRollBack, MarkOpened,
      UndoneDeleted, RemoveIntent, RequestUndo, Kill, HostCrash, MoveFails, FinishFails, SyncDir,
      Written, NotWritten, Mishap, Asked
<1>2. CASE StartPlain
  BY <1>2, FilesTyped DEF Sets, StartPlain
<1>3. CASE MoveFile
  BY <1>3, Sourced DEF MoveFile
<1>4. CASE Open
  BY <1>4 DEF Open
<1>5. CASE OpenFails
  BY <1>5 DEF OpenFails, Mishap
<1>6. CASE DeleteUndone
  BY <1>6 DEF Sets, DeleteUndone
<1>7. CASE Commit
  BY <1>7 DEF Commit
<1>8. CASE Stage
  <2>1. made' \in Ids /\ Put(made', Gone, <<"staged", "main">>)
    BY <1>8, RestoreAssumption DEF Stage, Inv, TypeOK, Ids
  <2> QED
    BY <2>1, PutIs DEF Inv
<1>9. CASE StageSync
  BY <1>9 DEF Sets, StageSync, SyncDir, Mishap
<1>10. CASE Request
  BY <1>10 DEF Sets, Request, Written, NotWritten, SyncDir, Mishap, Asked
<1>11. CASE DeleteUndo
  BY <1>11 DEF Sets, DeleteUndo, Mishap
<1>12. CASE Close
  BY <1>12 DEF Close
<1> QED
  BY <1>1, <1>2, <1>3, <1>4, <1>5, <1>6, <1>7, <1>8, <1>9, <1>10, <1>11, <1>12 DEF Next, Boot,
      Running, Failures

\* Without a request the live set is there.
LEMMA LiveIs ==
    ASSUME Inv, intent = NoIntent
    PROVE  Live \in Ids /\ Settled(dir)
<1>1. Explains(NoIntent, dir)
  BY Typed DEF Inv, Explained
<1>2. Settled(dir)
  BY <1>1 DEF Explains, NoIntent
<1> QED
  BY <1>2, Typed, IdsAre DEF Inv, Settled, Live, Main

LEMMA AskedIs ==
    ASSUME NEW action \in {"restore", "undo"}, NEW db \in Ids, Live \in Ids
    PROVE  Asked(action, db) \in Intents
BY DEF Asked, Intents, Phases

LEMMA IntentStep ==
    ASSUME Inv, Next
    PROVE  (intent \in intents /\ intents \subseteq Intents)'
<1> USE Typed, IntentIs DEF Inv, request
<1>1. CASE StartPlain \/ StartPending \/ MoveFile \/ Moved \/ Synced \/ PhasesDone \/ Open \/
    OpenFails \/ DeleteUndone \/ UndoneDeleted \/ Commit \/ Stage \/ StageSync \/ DeleteUndo \/
    Close \/ Kill \/ HostCrash \/ MoveFails \/ FinishFails
  BY <1>1 DEF StartPlain, StartPending, MoveFile, Moved, Synced, PhasesDone, Open, OpenFails,
      DeleteUndone, UndoneDeleted, Commit, Stage, StageSync, DeleteUndo, Close, Kill, HostCrash,
      MoveFails, FinishFails, Rename, Put, SyncDir, Delete, Move, SetLog, Mishap
<1>2. CASE NextPhase
  BY <1>2, NextIntent DEF Control, NextPhase, Written, NotWritten, SyncDir, Mishap
<1>3. CASE BeginRollBack
  BY <1>3, PhasesAre DEF Control, BeginRollBack, Written, NotWritten, SyncDir, Mishap
<1>4. CASE MarkOpened
  BY <1>4, PhasesAre DEF Control, MarkOpened, Written, NotWritten, SyncDir, Mishap
<1>5. CASE RemoveIntent
  BY <1>5 DEF Intents, RemoveIntent, Written, NotWritten, SyncDir, Mishap
<1>6. CASE Request
  <2>1. Asked("restore", made) \in Intents
    BY <1>6, LiveIs, AskedIs DEF Request, Control
  <2>2. \/ intent' \in {intent, Asked("restore", made)}
           /\ (intents' = {intent'} \/ intents' = intents \cup {intent'})
        \/ UNCHANGED request
    BY <1>6 DEF Request, Written, NotWritten, SyncDir
  <2> QED
    BY <2>1, <2>2
<1>7. CASE RequestUndo
  <2>1. dir[<<"undo", "main">>] \in Ids
    BY <1>7, FilesAre DEF RequestUndo, Main, Sets
  <2> QED
    BY <1>7, <2>1, LiveIs, AskedIs DEF RequestUndo, SyncDir, NotWritten, Mishap
<1> QED
  BY <1>1, <1>2, <1>3, <1>4, <1>5, <1>6, <1>7 DEF Next, Boot, Running, Failures

Placement ==
    /\ app \in {"down", "phases", "opening", "closing", "finishing", "up"}
    /\ step \in {"move", "sync", "write"}
    /\ task \in {"none", "placed", "staged", "deleting"}
    /\ made \in Ids /\ undos \in 0 .. Undos /\ mishaps \in 0 .. Mishaps

LEMMA PlacementStep ==
    ASSUME Inv, Next
    PROVE  Placement'
<1> USE RestoreAssumption DEF Inv, TypeOK, Placement, process, bounds, Mishap, Written,
    NotWritten, Ids
<1>1. CASE StartPlain \/ StartPending \/ MoveFile \/ Moved \/ Synced \/ NextPhase \/ PhasesDone \/
    OpenFails \/ BeginRollBack \/ MarkOpened \/ DeleteUndone \/ UndoneDeleted \/ RemoveIntent \/
    Commit \/ StageSync \/ Request \/ DeleteUndo \/ Close \/ Kill \/ HostCrash \/ MoveFails \/
    FinishFails
  BY <1>1 DEF StartPlain, StartPending, MoveFile, Moved, Synced, NextPhase, PhasesDone, OpenFails,
      BeginRollBack, MarkOpened, DeleteUndone, UndoneDeleted, RemoveIntent, Commit, StageSync,
      Request, DeleteUndo, Close, Kill, HostCrash, MoveFails, FinishFails, Rename, Put, SyncDir,
      Delete, Move, Written, NotWritten, Mishap, SetLog, Asked
<1>2. CASE Open
  BY <1>2 DEF Open, SetLog
<1>3. CASE Stage
  BY <1>3 DEF Stage, Put
<1>4. CASE RequestUndo
  BY <1>4 DEF RequestUndo, SyncDir, NotWritten, Mishap, Asked
<1> QED
  BY <1>1, <1>2, <1>3, <1>4 DEF Next, Boot, Running, Failures

Histories ==
    /\ bad \subseteq Ids /\ needs \subseteq Ids
    /\ written \subseteq Ids /\ dropped \subseteq Ids /\ cut \subseteq {None} \cup Ids

LEMMA TypeIs ==
    TypeOK <=> /\ dir \in images /\ images \subseteq Dirs
               /\ intent \in intents /\ intents \subseteq Intents
               /\ Placement /\ Histories
BY DEF TypeOK, Dirs, Placement, Histories

\* What is open is a whole database.
LEMMA OpenIs ==
    ASSUME Inv, app \in {"opening", "finishing", "up"}
    PROVE  Live \in Ids /\ Whole(dir, "live", Live)
<1>1. Explains(intent, dir) /\ intent \in Intents
  BY Typed DEF Inv, Explained
<1>2. intent.phase \in {"none", "requested", "swapped", "opened", "rolled-back"}
  BY Typed DEF Inv, Control
<1>3. CASE intent = NoIntent
  BY <1>3, LiveIs DEF Settled, Live, Main
<1>4. CASE intent.action = "restore"
  BY <1>1, <1>2, <1>4, IntentIs, IdsAre DEF Explains, RestoreExplains, Settled, Whole, Live, Main
<1>5. CASE intent.action = "undo"
  BY <1>1, <1>2, <1>5, IntentIs, IdsAre DEF Explains, UndoExplains, Settled, Whole, Live, Main
<1> QED
  BY <1>1, <1>3, <1>4, <1>5, IntentIs

LEMMA HistoriesStep ==
    ASSUME Inv, Next
    PROVE  Histories'
<1>0. Histories /\ Placement
  BY TypeIs DEF Inv
<1>1. CASE StartPlain \/ StartPending \/ Moved \/ Synced \/ NextPhase \/ PhasesDone \/ OpenFails
    \/ BeginRollBack \/ MarkOpened \/ UndoneDeleted \/ RemoveIntent \/ StageSync \/ Request \/
    RequestUndo \/ Close \/ Kill \/ HostCrash \/ MoveFails \/ FinishFails
  BY <1>0, <1>1 DEF Histories, databases, ghosts, StartPlain, StartPending, Moved, Synced,
      NextPhase, PhasesDone, OpenFails, BeginRollBack, MarkOpened, UndoneDeleted, RemoveIntent,
      StageSync, Request, RequestUndo, Close, Kill, HostCrash, MoveFails, FinishFails, Rename,
      Put, SyncDir, Written, NotWritten, Mishap, SetLog, Delete, Asked
<1>2. CASE Open
  BY <1>2, <1>0, OpenIs DEF Open, Histories, ghosts, Inv
<1>3. CASE Commit
  BY <1>3, <1>0, OpenIs DEF Commit, Histories
<1>4. CASE Stage
  BY <1>4, <1>0, RestoreAssumption DEF Stage, Histories, ghosts, Placement, Ids
<1>5. CASE DeleteUndo
  <2>1. \A s \in Sets : Occupied(s) => dir[<<s, First(s)>>] \in Ids
    BY Typed, IdsAre DEF Inv, Occupied, First, Parts
  <2>2. \A s \in Sets : Log(dir, s) \in {None} \cup Ids
    BY Typed DEF Inv
  <2> QED
    BY <1>5, <1>0, <2>1, <2>2, Sourced DEF DeleteUndo, Histories, ghosts, Sets, Log, databases
<1>6. CASE MoveFile
  <2>1. \A s \in Sets : Occupied(s) => dir[<<s, First(s)>>] \in Ids
    BY Typed, IdsAre DEF Inv, Occupied, First, Parts
  <2>2. \A s \in Sets : Log(dir, s) \in {None} \cup Ids
    BY Typed DEF Inv
  <2> QED
    BY <1>6, <1>0, <2>1, <2>2, Sourced DEF MoveFile, Histories, ghosts, Sets, Log, databases
<1>7. CASE DeleteUndone
  <2>1. \A s \in Sets : Occupied(s) => dir[<<s, First(s)>>] \in Ids
    BY Typed, IdsAre DEF Inv, Occupied, First, Parts
  <2>2. \A s \in Sets : Log(dir, s) \in {None} \cup Ids
    BY Typed DEF Inv
  <2> QED
    BY <1>7, <1>0, <2>1, <2>2, Sourced DEF DeleteUndone, Histories, ghosts, Sets, Log, databases
<1> QED
  BY <1>1, <1>2, <1>3, <1>4, <1>5, <1>6, <1>7 DEF Next, Boot, Running, Failures

LEMMA TypeStep ==
    ASSUME Inv, Next
    PROVE  TypeOK'
<1>1. TypeOK' <=> /\ (dir \in images /\ images \subseteq Dirs)'
                  /\ (intent \in intents /\ intents \subseteq Intents)'
                  /\ Placement' /\ Histories'
  BY TypeIs, PTL
<1> QED
  BY <1>1, FilesStep, IntentStep, PlacementStep, HistoriesStep

LEMMA Idle ==
    ASSUME intent \in Intents, Source = "none"
    PROVE  intent.phase \in {"none", "swapped", "opened", "rolled-back"}
BY IdsAre DEF Source, Aside, Incoming, Intents, Phases, NoIntent

LEMMA SourceSame ==
    ASSUME UNCHANGED intent
    PROVE  Source' = Source
BY DEF Source, Aside, Incoming

LEMMA NextPhases ==
    Source # "none" =>
      /\ intent.phase \in {"requested", "aside-cleared", "live-aside", "rolling-back",
                           "incoming-back"}
      /\ After(intent.phase) \in {"aside-cleared", "live-aside", "swapped", "incoming-back",
                                  "rolled-back"}
      /\ intent.phase = "live-aside" <=> After(intent.phase) = "swapped"
      /\ intent.phase = "incoming-back" <=> After(intent.phase) = "rolled-back"
BY DEF Source, After

LEMMA ControlStep ==
    ASSUME Inv, Next
    PROVE  Control'
<1> USE Typed, IntentIs, SourceSame DEF Inv, Control, request, process, Mishap, SyncDir, Written,
    NotWritten, Swapped
<1>1. CASE MoveFile \/ Moved \/ Synced \/ DeleteUndone \/ Commit \/ Close \/ Kill
  BY <1>1 DEF MoveFile, Moved, Synced, DeleteUndone, Commit, Close, Kill, Delete, Move, Rename,
      Put, SyncDir, SetLog, Mishap
<1>2. CASE StartPlain
  BY <1>2 DEF StartPlain, Rename, Put
<1>3. CASE StartPending
  BY <1>3, IdsAre DEF StartPending
<1>4. CASE PhasesDone
  BY <1>4, Idle DEF PhasesDone
<1>5. CASE Open
  BY <1>5 DEF Open, SetLog
<1>6. CASE OpenFails
  BY <1>6 DEF OpenFails, SetLog, Mishap
<1>7. CASE NextPhase
  BY <1>7, NextPhases, NextIntent, IdsAre DEF NextPhase, Written, NotWritten, SyncDir, Mishap
<1>8. CASE BeginRollBack
  BY <1>8, PhasesAre DEF BeginRollBack, Written, NotWritten, SyncDir, Mishap
<1>9. CASE MarkOpened
  <2> DEFINE next == [intent EXCEPT !.phase = "opened"]
  <2>1. /\ next # NoIntent /\ next.phase = "opened" /\ intent # NoIntent
        /\ app = "finishing" /\ step' = "move" /\ task = "none" /\ task' = task
    BY <1>9, PhasesAre DEF MarkOpened
  <2>2. CASE Written(next) /\ UNCHANGED app
    BY <2>1, <2>2
  <2>3. CASE NotWritten(next) /\ app' = "down"
    BY <2>1, <2>3
  <2> QED
    BY <1>9, <2>2, <2>3 DEF MarkOpened
<1>10. CASE UndoneDeleted
  BY <1>10 DEF UndoneDeleted, SyncDir
<1>11. CASE RemoveIntent
  BY <1>11 DEF NoIntent, RemoveIntent, Written, NotWritten, SyncDir, Mishap
<1>12. CASE Stage
  BY <1>12 DEF Stage, Put
<1>13. CASE StageSync
  BY <1>13 DEF StageSync, SyncDir, Mishap, Delete, Rename, Put
<1>14. CASE Request
  BY <1>14 DEF Request, Written, NotWritten, SyncDir, Mishap, Delete, Rename, Put, Asked
<1>15. CASE RequestUndo
  BY <1>15 DEF RequestUndo, SyncDir, NotWritten, Mishap, Asked
<1>16. CASE DeleteUndo
  BY <1>16 DEF DeleteUndo, Delete, Rename, Put, Mishap
<1>17. CASE HostCrash
  BY <1>17 DEF HostCrash, Mishap
<1>18. CASE MoveFails
  BY <1>18 DEF MoveFails, Mishap
<1>19. CASE FinishFails
  BY <1>19 DEF FinishFails, Mishap
<1> QED
  BY <1>1, <1>2, <1>3, <1>4, <1>5, <1>6, <1>7, <1>8, <1>9, <1>10, <1>11, <1>12, <1>13, <1>14,
      <1>15, <1>16, <1>17, <1>18, <1>19 DEF Next, Boot, Running, Failures

LEMMA SetLogOne ==
    ASSUME NEW db, SetLog(db), images = {dir}
    PROVE  images' = {dir'}
BY DEF SetLog

LEMMA PutPointwise ==
    ASSUME TypeOK, NEW db \in {None} \cup Ids, NEW from, NEW to, Put(db, from, to)
    PROVE  /\ dir' \in images' /\ images' \subseteq Dirs
           /\ \A g \in Files :
                dir'[g] = IF g = to THEN db ELSE IF g = from THEN None ELSE dir[g]
           /\ \A d \in images' : d \in images
                \/ \E e \in images : \A g \in Files :
                     d[g] = IF g = to THEN db ELSE IF g = from THEN None ELSE e[g]
<1>1. \A e \in Dirs : \A g \in Files : Changed(e, db, from, to)[g] =
        IF g = to THEN db ELSE IF g = from THEN None ELSE e[g]
  BY ChangedIs
<1>2. \A d \in images' : d \in images \/ \E e \in images : e \in Dirs /\ d = Changed(e, db, from,
    to)
  <2>1. \A d \in images' : d \in images \/ \E e \in images : d = Changed(e, db, from, to)
    BY PutIs
  <2>2. images \subseteq Dirs
    BY Typed
  <2> QED
    BY <2>1, <2>2
<1>3. /\ dir' \in images' /\ images' \subseteq Dirs
      /\ dir \in Dirs /\ dir' = Changed(dir, db, from, to)
  BY PutIs, Typed
<1>4. \A d \in images' : d \in images
        \/ \E e \in images : \A g \in Files :
             d[g] = IF g = to THEN db ELSE IF g = from THEN None ELSE e[g]
  <2> SUFFICES ASSUME NEW d \in images', d \notin images
               PROVE  \E e \in images : \A g \in Files :
                        d[g] = IF g = to THEN db ELSE IF g = from THEN None ELSE e[g]
    OBVIOUS
  <2>1. PICK e \in images : e \in Dirs /\ d = Changed(e, db, from, to)
    BY <1>2
  <2> QED
    BY <1>1, <2>1
<1> QED
  BY <1>1, <1>3, <1>4

\* Deleting a file of a set leaves the other sets, and an image has it or has it not.
LEMMA DeleteIs ==
    ASSUME TypeOK, NEW s \in Sets, Delete(s)
    PROVE  LET f == <<s, First(s)>> IN
           /\ dir' \in images' /\ images' \subseteq Dirs
           /\ \A g \in Files : dir'[g] = IF g = f THEN None ELSE dir[g]
           /\ \A d \in images' : d \in images
                \/ \E e \in images : \A g \in Files : d[g] = IF g = f THEN None ELSE e[g]
<1>1. <<s, First(s)>> \in Files /\ dir[<<s, First(s)>>] \in {None} \cup Ids
  BY Typed
<1> QED
  BY <1>1, PutPointwise, FilesAre DEF Delete, Rename

LEMMA MoveIs ==
    ASSUME TypeOK, NEW s \in Sets, NEW t \in Sets, s # t, Move(s, t)
    PROVE  LET f == <<s, First(s)>>
               g == <<t, First(s)>>
           IN
           /\ dir' \in images' /\ images' \subseteq Dirs
           /\ \A h \in Files : dir'[h] = IF h = g THEN dir[f] ELSE IF h = f THEN None ELSE dir[h]
           /\ \A d \in images' : d \in images
                \/ \E e \in images : \A h \in Files :
                     d[h] = IF h = g THEN dir[f] ELSE IF h = f THEN None ELSE e[h]
<1>1. <<s, First(s)>> \in Files /\ dir[<<s, First(s)>>] \in {None} \cup Ids
  BY Typed
<1> QED
  BY <1>1, PutPointwise, FilesAre DEF Move, Rename

LEMMA UnstageIs ==
    ASSUME TypeOK, Rename(<<"staged", "main">>, Gone)
    PROVE  /\ dir' \in images' /\ images' \subseteq Dirs
           /\ \A g \in Files : dir'[g] = IF g = <<"staged", "main">> THEN None ELSE dir[g]
           /\ \A d \in images' : d \in images
                \/ \E e \in images : \A g \in Files :
                     d[g] = IF g = <<"staged", "main">> THEN None ELSE e[g]
<1>1. <<"staged", "main">> \in Files
  BY FilesAre DEF Sets
<1>2. dir[<<"staged", "main">>] \in {None} \cup Ids
  BY <1>1, Typed
<1> QED
  BY <1>1, <1>2, PutPointwise, FilesAre DEF Rename

LEMMA StageIs ==
    ASSUME TypeOK, Stage
    PROVE  /\ made' = made + 1 /\ made' \in Ids
           /\ dir' \in images' /\ images' \subseteq Dirs
           /\ \A g \in Files : dir'[g] = IF g = <<"staged", "main">> THEN made' ELSE dir[g]
           /\ \A d \in images' : d \in images
                \/ \E e \in images : \A g \in Files :
                     d[g] = IF g = <<"staged", "main">> THEN made' ELSE e[g]
<1>1. made' = made + 1 /\ made' \in Ids /\ Put(made', Gone, <<"staged", "main">>)
  BY RestoreAssumption DEF Stage, TypeOK, Ids
<1> QED
  BY <1>1, PutPointwise, FilesAre

LEMMA LogOnly ==
    ASSUME TypeOK, NEW db \in {None} \cup Ids, SetLog(db)
    PROVE  /\ dir' \in images' /\ images' \subseteq Dirs
           /\ \A g \in Files : dir'[g] = IF g = <<"live", "wal">> THEN db ELSE dir[g]
           /\ \A d \in images' : \E e \in images :
                \A g \in Files : d[g] = IF g = <<"live", "wal">> THEN db ELSE e[g]
<1>1. \A e \in images : \A g \in Files :
        [e EXCEPT ![<<"live", "wal">>] = db][g] = IF g = <<"live", "wal">> THEN db ELSE e[g]
  BY Typed, LogIs
<1>2. \A d \in images' : \E e \in images : d = [e EXCEPT ![<<"live", "wal">>] = db]
  BY SetLogIs
<1>3. \A d \in images' : \E e \in images :
        \A g \in Files : d[g] = IF g = <<"live", "wal">> THEN db ELSE e[g]
  <2> SUFFICES ASSUME NEW d \in images'
               PROVE  \E e \in images :
                        \A g \in Files : d[g] = IF g = <<"live", "wal">> THEN db ELSE e[g]
    OBVIOUS
  <2>1. PICK e \in images : d = [e EXCEPT ![<<"live", "wal">>] = db]
    BY <1>2
  <2> QED
    BY <1>1, <2>1
<1> QED
  BY <1>1, <1>3, SetLogIs, Typed

LEMMA CleanStep ==
    ASSUME Inv, Next
    PROVE  Clean'
<1> USE SourceSame DEF Inv, Clean, request, process, Control, Undone
<1>1. CASE StartPlain \/ BeginRollBack \/ Stage \/ Close \/ Kill \/ HostCrash \/ MoveFails \/
    FinishFails
  BY <1>1 DEF files, StartPlain, BeginRollBack, Stage, Close, Kill, HostCrash, MoveFails,
      FinishFails, Rename, Put, Written, NotWritten, SyncDir, Mishap, SetLog
<1>2. CASE MoveFile
  BY <1>2 DEF MoveFile
<1>3. CASE Moved
  BY <1>3 DEF Moved
<1>4. CASE Synced
  BY <1>4 DEF Synced, SyncDir
<1>5. CASE DeleteUndone
  BY <1>5 DEF DeleteUndone
<1>6. CASE DeleteUndo
  BY <1>6 DEF DeleteUndo
<1>7. CASE RemoveIntent
  BY <1>7 DEF RemoveIntent, Written, NotWritten, SyncDir, Mishap
<1>8. CASE RequestUndo
  BY <1>8 DEF RequestUndo, SyncDir, NotWritten, Mishap, Asked
<1>9. CASE UndoneDeleted
  BY <1>9 DEF UndoneDeleted, SyncDir, files
<1>10. CASE PhasesDone
  BY <1>10 DEF PhasesDone, files
<1>11. CASE NextPhase
  BY <1>11 DEF files, NextPhase, Written, NotWritten, SyncDir, Mishap
<1>12. CASE Commit
  BY <1>12, SetLogOne DEF Commit
<1>13. CASE Open
  BY <1>13, SetLogOne DEF Open, files, Swapped
<1>14. CASE OpenFails
  BY <1>14, SetLogOne DEF OpenFails, files, Swapped
<1>15. CASE StageSync
  BY <1>15 DEF StageSync, SyncDir
<1>16. CASE MarkOpened
  BY <1>16 DEF MarkOpened, Written, NotWritten, SyncDir, files
<1>17. CASE Request
  BY <1>17 DEF Request
<1>18. CASE StartPending
  BY <1>18 DEF StartPending, SyncDir
<1> QED
  BY <1>1, <1>2, <1>3, <1>4, <1>5, <1>6, <1>7, <1>8, <1>9, <1>10, <1>11, <1>12, <1>13, <1>14,
      <1>15, <1>16, <1>17, <1>18 DEF Next, Boot, Running, Failures

\* What a step makes of the files, if it is not a file operation.
LEMMA Shrinks ==
    ASSUME TypeOK, Next
    PROVE  \/ images' \subseteq images /\ dir' \in images
           \/ SetLog(Live) \/ SetLog(None)
           \/ \E s \in Sets : Delete(s)
           \/ MoveFile /\ ~Deletes /\ Move(Source, Target)
           \/ Rename(<<"staged", "main">>, Gone)
           \/ Stage
<1>1. dir \in images
  BY Typed
<1>2. CASE StartPending \/ Moved \/ Synced \/ NextPhase \/ PhasesDone \/ BeginRollBack
          \/ MarkOpened \/ UndoneDeleted \/ RemoveIntent \/ RequestUndo \/ Kill \/ HostCrash
          \/ MoveFails \/ FinishFails
  BY <1>1, <1>2 DEF files, StartPending, Moved, Synced, NextPhase, PhasesDone, BeginRollBack,
      MarkOpened, UndoneDeleted, RemoveIntent, RequestUndo, Kill, HostCrash, MoveFails,
      FinishFails, SyncDir, Written, NotWritten
<1>3. CASE StartPlain \/ Open \/ OpenFails \/ Commit \/ Close
  BY <1>1, <1>3 DEF files, StartPlain, Open, OpenFails, Commit, Close
<1>4. CASE StageSync \/ Request \/ DeleteUndo \/ DeleteUndone
  BY <1>1, <1>4 DEF files, StageSync, Request, DeleteUndo, DeleteUndone, Sets, SyncDir, Written,
      NotWritten
<1>5. CASE Stage
  BY <1>5
<1>6. CASE MoveFile
  <2>1. CASE Deletes
    BY <1>6, <2>1, Sourced DEF MoveFile
  <2>2. CASE ~Deletes
    BY <1>6, <2>2 DEF MoveFile
  <2> QED
    BY <2>1, <2>2
<1> QED
  BY <1>2, <1>3, <1>4, <1>5, <1>6 DEF Next, Boot, Running, Failures

LEMMA MovesApart ==
    ASSUME Source # "none", ~Deletes
    PROVE  /\ Source \in Sets /\ Target \in Sets /\ Source # Target /\ Target # "staged"
           /\ Source = "staged" => Target = "live"
BY DEF Source, Target, Deletes, Aside, Incoming, Sets

\* A file is moved between the two places of one database.
LEMMA MovesOne ==
    ASSUME Inv, MoveFile, ~Deletes
    PROVE  \E x \in Ids : \A d \in images : Moving(d, Source, Target, x)
<1>1. /\ app = "phases" /\ Source # "none" /\ ~Deletes
      /\ intent.phase \in {"requested", "aside-cleared", "live-aside", "rolling-back",
                            "incoming-back"}
  BY NextPhases DEF MoveFile
<1>2. intent \in intents /\ intent.was \in Ids /\ intent.goal \in Ids
      /\ intent.action \in {"restore", "undo"}
  BY <1>1, Typed, IntentIs DEF Inv, Control
<1>3. \A d \in images : Explains(intent, d)
  BY <1>2 DEF Inv, Explained
<1>4. CASE intent.action = "restore"
  <2>1. \A d \in images : RestoreExplains(d, intent.phase, intent.was, intent.goal)
    BY <1>3, <1>4 DEF Explains
  <2>2. CASE intent.phase = "aside-cleared"
    BY <1>2, <1>4, <2>1, <2>2 DEF RestoreExplains, Source, Target, Aside
  <2>3. CASE intent.phase = "live-aside"
    BY <1>2, <1>4, <2>1, <2>3 DEF RestoreExplains, Source, Target, Incoming
  <2>4. CASE intent.phase = "incoming-back"
    BY <1>2, <1>4, <2>1, <2>4 DEF RestoreExplains, Source, Target, Aside
  <2> QED
    BY <1>1, <1>4, <2>2, <2>3, <2>4 DEF Deletes
<1>5. CASE intent.action = "undo"
  <2>1. \A d \in images : UndoExplains(d, intent.phase, intent.was, intent.goal)
    BY <1>3, <1>5 DEF Explains
  <2>2. CASE intent.phase = "aside-cleared"
    BY <1>2, <1>5, <2>1, <2>2 DEF UndoExplains, Source, Target, Aside
  <2>3. CASE intent.phase = "live-aside"
    BY <1>2, <1>5, <2>1, <2>3 DEF UndoExplains, Source, Target, Incoming
  <2>4. CASE intent.phase = "rolling-back"
    BY <1>2, <1>5, <2>1, <2>4 DEF UndoExplains, Source, Target, Incoming
  <2>5. CASE intent.phase = "incoming-back"
    BY <1>2, <1>5, <2>1, <2>5 DEF UndoExplains, Source, Target, Aside
  <2> QED
    BY <1>1, <1>5, <2>2, <2>3, <2>4, <2>5 DEF Deletes
<1> QED
  BY <1>2, <1>4, <1>5

LEMMA NumberedStep ==
    ASSUME Inv, Next
    PROVE  Numbered'
<1>1. TypeOK /\ Numbered /\ made \in Nat /\ Live \in 0 .. made
  BY IdsAre, Typed, FilesAre DEF Inv, TypeOK, Numbered, Live, Sets
<1>2. made' \in Nat /\ made <= made' /\ (Stage => made' = made + 1)
  <2>1. CASE Stage
    BY <1>1, <2>1 DEF Stage
  <2>2. CASE ~Stage
    BY <1>1, <2>2 DEF Next, Boot, Running, Failures, bounds, Mishap, StartPlain, StartPending,
        MoveFile, Moved, Synced, NextPhase, PhasesDone, Open, OpenFails, BeginRollBack,
        MarkOpened, DeleteUndone, UndoneDeleted, RemoveIntent, Commit, StageSync, Request,
        RequestUndo, DeleteUndo, Close, Kill, HostCrash, MoveFails, FinishFails, Written,
        NotWritten
  <2> QED
    BY <2>1, <2>2
<1>3. written' \subseteq 1 .. made' /\ needs' \subseteq 1 .. made'
  <2>1. CASE Commit \/ Open
    <3>1. Live \in 1 .. made
      BY <1>1, <2>1, OpenIs, IdsAre DEF Commit, Open, None
    <3>2. written' \subseteq written \cup {Live} /\ needs' \subseteq needs \cup {Live}
      BY <2>1 DEF Commit, Open, ghosts
    <3>3. written \cup {Live} \subseteq 1 .. made' /\ needs \cup {Live} \subseteq 1 .. made'
      BY <1>1, <1>2, <3>1 DEF Numbered
    <3> QED
      BY <3>2, <3>3
  <2>2. CASE ~(Commit \/ Open)
    <3>1. written' = written /\ needs' \subseteq needs
      BY <2>2 DEF Next, Boot, Running, Failures, databases, ghosts, StartPlain, StartPending,
          MoveFile, Moved, Synced, NextPhase, PhasesDone, OpenFails, BeginRollBack,
          MarkOpened, DeleteUndone, UndoneDeleted, RemoveIntent, Stage, StageSync, Request,
          RequestUndo, DeleteUndo, Close, Kill, HostCrash, MoveFails, FinishFails
    <3> QED
      BY <1>1, <1>2, <3>1 DEF Numbered
  <2> QED
    BY <2>1, <2>2
<1>4. \A d \in images' : \A f \in Files : d[f] \in 0 .. made'
  <2>1. \A d \in images : \A f \in Files : d[f] \in 0 .. made'
    BY <1>1, <1>2 DEF Numbered
  <2>2. dir \in images /\ None \in 0 .. made' /\ Live \in 0 .. made'
    BY <1>1, <1>2, Typed DEF None
  <2>3. CASE images' \subseteq images
    BY <2>1, <2>3
  <2>4. ASSUME NEW db \in {Live, None}, SetLog(db)
        PROVE  \A d \in images' : \A f \in Files : d[f] \in 0 .. made'
    <3>1. db \in {None} \cup Ids
      BY <1>1, Typed
    <3> QED
      BY <1>1, <2>1, <2>2, <2>4, <3>1, LogOnly
  <2>5. ASSUME NEW s \in Sets, Delete(s)
        PROVE  \A d \in images' : \A f \in Files : d[f] \in 0 .. made'
    BY <1>1, <2>1, <2>2, <2>5, DeleteIs
  <2>6. CASE MoveFile /\ ~Deletes /\ Move(Source, Target)
    <3>1. Source \in Sets /\ Target \in Sets /\ Source # Target
      BY <2>6, MovesApart DEF MoveFile
    <3>2. dir[<<Source, First(Source)>>] \in 0 .. made'
      BY <1>1, <2>1, <2>2, <3>1, Typed
    <3> QED
      BY <1>1, <2>1, <2>2, <2>6, <3>1, <3>2, MoveIs
  <2>7. CASE Rename(<<"staged", "main">>, Gone)
    BY <1>1, <2>1, <2>2, <2>7, UnstageIs
  <2>8. CASE Stage
    BY <1>1, <1>2, <2>1, <2>8, StageIs
  <2> QED
    BY <1>1, <2>3, <2>4, <2>5, <2>6, <2>7, <2>8, Shrinks
<1> QED
  BY <1>3, <1>4 DEF Numbered


\* Which database a set is changes only for a set that a step deletes, moves or stages.
LEMMA ApartStep ==
    ASSUME Inv, Next
    PROVE  Apart'
<1>1. /\ TypeOK /\ Apart /\ dir \in images /\ Log(dir, "staged") = None
      /\ \A s \in Sets : <<s, "main">> \in Files /\ <<s, "wal">> \in Files
      /\ "staged" \in Sets /\ "live" \in Sets /\ Gone \notin Files
  BY Typed, FilesAre DEF Inv, Apart, Sets, Parts
<1> DEFINE A(d) == /\ Log(d, "staged") = None
                   /\ \A s, t \in Sets : Main(d, s) # None /\ Main(d, t) = Main(d, s) => s = t
<1>2. \A d \in images : A(d)
  BY <1>1 DEF Apart
<1>3. SUFFICES \A d \in images' : A(d)
  BY DEF Apart, Main, Log
<1>4. CASE images' \subseteq images
  BY <1>2, <1>4
<1>5. ASSUME NEW db \in {Live, None}, SetLog(db), NEW d \in images'
      PROVE  A(d)
  <2>1. db \in {None} \cup Ids
    BY <1>1, Typed
  <2>2. PICK e \in images : \A g \in Files : d[g] = IF g = <<"live", "wal">> THEN db ELSE e[g]
    BY <1>1, <1>5, <2>1, LogOnly
  <2>3. \A s \in Sets : Main(d, s) = Main(e, s)
    BY <1>1, <2>2 DEF Main
  <2>4. Log(d, "staged") = Log(e, "staged")
    BY <1>1, <2>2 DEF Log
  <2> QED
    BY <1>2, <2>3, <2>4
<1>6. ASSUME NEW f \in Files, NEW d, NEW e \in images,
             \A g \in Files : d[g] = IF g = f THEN None ELSE e[g]
      PROVE  A(d)
  <2>1. \A s \in Sets : Main(d, s) \in {None, Main(e, s)}
    BY <1>1, <1>6 DEF Main
  <2>2. Log(d, "staged") \in {None, Log(e, "staged")}
    BY <1>1, <1>6 DEF Log
  <2> QED
    BY <1>2, <2>1, <2>2
<1>7. ASSUME NEW s \in Sets, Delete(s), NEW d \in images'
      PROVE  A(d)
  <2>1. <<s, First(s)>> \in Files
    BY <1>1, Typed
  <2>2. CASE d \in images
    BY <1>2, <2>2
  <2>3. CASE d \notin images
    <3>1. PICK e \in images : \A g \in Files : d[g] = IF g = <<s, First(s)>> THEN None ELSE e[g]
      BY <1>1, <1>7, <2>3, DeleteIs
    <3> QED
      BY <1>6, <2>1, <3>1
  <2> QED
    BY <2>2, <2>3
<1>8. ASSUME Rename(<<"staged", "main">>, Gone), NEW d \in images', d \notin images
      PROVE  A(d)
  <2>1. PICK e \in images :
          \A g \in Files : d[g] = IF g = <<"staged", "main">> THEN None ELSE e[g]
    BY <1>1, <1>8, UnstageIs
  <2>2. <<"staged", "main">> \in Files
    BY <1>1
  <2> QED
    BY <1>6, <2>1, <2>2
<1>9. ASSUME Stage, NEW d \in images', d \notin images
      PROVE  A(d)
  <2>1. PICK e \in images :
          \A g \in Files : d[g] = IF g = <<"staged", "main">> THEN made' ELSE e[g]
    BY <1>1, <1>9, StageIs
  <2>2. \A s \in Sets : Main(d, s) = IF s = "staged" THEN made' ELSE Main(e, s)
    BY <1>1, <2>1 DEF Main
  <2>3. Log(d, "staged") = Log(e, "staged")
    BY <1>1, <2>1 DEF Log
  <2>4. \A s \in Sets : Main(e, s) # made'
    <3>1. made' = made + 1 /\ made \in Nat
      BY <1>1, <1>9, StageIs, IdsAre DEF TypeOK
    <3>2. \A s \in Sets : Main(e, s) \in 0 .. made
      BY <1>1 DEF Inv, Numbered, Main
    <3> QED
      BY <3>1, <3>2
  <2> QED
    BY <1>2, <2>2, <2>3, <2>4
<1>10. ASSUME MoveFile, ~Deletes, Move(Source, Target), NEW d \in images', d \notin images
       PROVE  A(d)
  <2> DEFINE p == First(Source)
  <2>1. /\ Source \in Sets /\ Target \in Sets /\ Source # Target /\ Target # "staged"
        /\ Source = "staged" => Target = "live"
    BY <1>10, MovesApart DEF MoveFile
  <2>2. PICK x \in Ids : \A e \in images : Moving(e, Source, Target, x)
    BY <1>10, MovesOne
  <2>3. PICK e \in images : \A g \in Files :
          d[g] = IF g = <<Target, p>> THEN dir[<<Source, p>>]
                 ELSE IF g = <<Source, p>> THEN None ELSE e[g]
    BY <1>1, <1>10, <2>1, MoveIs
  <2>4. Moving(e, Source, Target, x) /\ Moving(dir, Source, Target, x)
    BY <1>1, <2>2
  <2>5. CASE p = "wal"
    <3>1. \A s \in Sets : Main(d, s) = Main(e, s)
      BY <1>1, <2>3, <2>5 DEF Main
    <3>2. Log(d, "staged") \in {None, Log(e, "staged")}
      BY <1>1, <2>1, <2>3, <2>5 DEF Log
    <3> QED
      BY <1>2, <3>1, <3>2
  <2>6. CASE p = "main"
    <3>1. Main(dir, Source) = x
      BY <1>1, <1>10, <2>1, <2>4, <2>6, IdsAre
         DEF MoveFile, Occupied, First, Moving, Main, Log, Parts
    <3>2. \A s \in Sets : Main(d, s) = IF s = Target THEN x ELSE IF s = Source THEN None
                                         ELSE Main(e, s)
      BY <1>1, <2>1, <2>3, <2>6, <3>1 DEF Main
    <3>3. Log(d, "staged") = Log(e, "staged")
      BY <1>1, <2>3, <2>6 DEF Log
    <3>4. \A s \in Sets \ {Source, Target} : Main(e, s) # x
      BY <1>2, <2>1, <2>4, IdsAre DEF Moving
    <3> QED
      BY <1>2, <3>2, <3>3, <3>4
  <2> QED
    BY <2>1, <2>5, <2>6, Typed, <1>1 DEF Parts
<1> QED
  BY <1>1, <1>2, <1>4, <1>5, <1>7, <1>8, <1>9, <1>10, Shrinks


\* Every image has the live set, and the undo set, that one had before.
SameSets ==
    /\ \A s \in {"live", "undo"} : Main(dir', s) = Main(dir, s)
    /\ Log(dir', "undo") = Log(dir, "undo")
    /\ \A d \in images' : \E e \in images : \A s \in {"live", "undo"} : Main(d, s) = Main(e, s)

LEMMA SetsSame ==
    ASSUME TypeOK
    PROVE  /\ UNCHANGED files => SameSets
           /\ \A db \in {Live, None} : SetLog(db) => SameSets
           /\ Delete("undone") => SameSets
           /\ Rename(<<"staged", "main">>, Gone) => SameSets
           /\ Stage => SameSets
<1>1. /\ dir \in images
      /\ \A s \in {"live", "undo"} : <<s, "main">> \in Files
      /\ <<"undo", "wal">> \in Files
      /\ <<"live", "wal">> \in Files /\ <<"staged", "main">> \in Files
      /\ "undone" \in Sets
  BY Typed, FilesAre DEF Sets
<1>2. UNCHANGED files => SameSets
  BY <1>1 DEF SameSets, files
<1>3. ASSUME NEW db \in {Live, None}, SetLog(db)
      PROVE  SameSets
  <2>1. db \in {None} \cup Ids
    BY Typed
  <2> QED
    BY <1>1, <1>3, <2>1, LogOnly DEF SameSets, Main, Log
<1>4. CASE Delete("undone")
  BY <1>1, <1>4, DeleteIs DEF SameSets, Main, Log
<1>5. CASE Rename(<<"staged", "main">>, Gone)
  BY <1>1, <1>5, UnstageIs DEF SameSets, Main, Log
<1>6. CASE Stage
  BY <1>1, <1>6, StageIs DEF SameSets, Main, Log
<1> QED
  BY <1>2, <1>3, <1>4, <1>5, <1>6

\* What is staged has no log.
LEMMA DeleteStaged ==
    ASSUME TypeOK, Apart, Delete("staged")
    PROVE  Rename(<<"staged", "main">>, Gone)
BY Typed DEF Apart, Log, Delete, First

LEMMA SteadyStep ==
    ASSUME Inv, Next
    PROVE  Steady'
<1>1. TypeOK /\ Apart /\ Steady /\ Control /\ Clean /\ dir \in images /\ intent \in Intents
  BY Typed DEF Inv
<1>2. CASE images' = {dir'}
  BY <1>2 DEF Steady, Live, Main, Bare, Log
<1>3. ASSUME SameSets, app' \notin {"down", "phases"} => app \notin {"down", "phases"} \/ intent =
    NoIntent,
             intent' = NoIntent \/ ClearingUndo' => intent = NoIntent \/ ClearingUndo,
             intent' = NoIntent => intent = NoIntent
      PROVE  Steady'
  <2>1. ASSUME app' \notin {"down", "phases"} \/ intent' = NoIntent, NEW d \in images'
        PROVE  Main(d, "live") = Live'
    BY <1>1, <1>3, <2>1 DEF Steady, SameSets, Live, Main
  <2>2. ASSUME intent' = NoIntent \/ ClearingUndo', ~Bare(dir', "undo"), NEW d \in images'
        PROVE  Main(d, "undo") = Main(dir', "undo")
    BY <1>1, <1>3, <2>2 DEF Steady, SameSets, Bare
  <2> QED
    BY <2>1, <2>2 DEF Steady, Main, Bare, Log
<1>4. CASE StartPending \/ Synced \/ HostCrash
  BY <1>2, <1>4 DEF StartPending, Synced, HostCrash, SyncDir
<1>5. CASE Moved \/ Open \/ OpenFails \/ Commit \/ Close \/ Kill \/ MoveFails \/ FinishFails
  <2>1. SameSets
    BY <1>1, <1>5, SetsSame DEF Moved, Open, OpenFails, Commit, Close, Kill, MoveFails,
        FinishFails, files
  <2>2. /\ app' \notin {"down", "phases"} => app \notin {"down", "phases"}
        /\ intent' = intent
        /\ ClearingUndo' => ClearingUndo
    BY <1>5 DEF ClearingUndo, Moved, Open, OpenFails, Commit, Close, Kill, MoveFails, FinishFails,
        request, process
  <2> QED
    BY <1>3, <2>1, <2>2
<1>6. CASE StartPlain \/ DeleteUndone \/ Stage
  <2>1. SameSets
    BY <1>1, <1>6, SetsSame DEF StartPlain, DeleteUndone
  <2>2. /\ intent' = intent
        /\ app' \notin {"down", "phases"} => app \notin {"down", "phases"} \/ intent = NoIntent
        /\ ~ClearingUndo'
    BY <1>6 DEF ClearingUndo, StartPlain, DeleteUndone, Stage, request, process
  <2> QED
    BY <1>3, <2>1, <2>2
<1>7. CASE PhasesDone
  <2>1. images' = {dir'}
    BY <1>1, <1>7 DEF PhasesDone, Clean, files
  <2> QED
    BY <1>2, <2>1
<1>8. CASE NextPhase \/ BeginRollBack
  <2>1. intent' # NoIntent /\ app' \in {"down", "phases"} /\ ~ClearingUndo'
    <3>1. intent # NoIntent /\ (NextPhase => Source # "none")
      BY <1>1, <1>8 DEF NextPhase, BeginRollBack, Control
    <3>2. CASE BeginRollBack
      BY <1>1, <3>1, <3>2, IntentIs, PhasesAre
         DEF ClearingUndo, BeginRollBack, Written, NotWritten, SyncDir
    <3>3. CASE NextPhase
      <4> DEFINE next == [intent EXCEPT !.phase = After(@)]
      <4>1. next # NoIntent /\ next.phase # "requested"
        <5>1. After(intent.phase) \in Phases /\ After(intent.phase) # "requested"
          BY <1>1, <3>1, <3>3, NextIntent, NextPhases
        <5> QED
          BY <1>1, <3>1, <5>1, IntentIs
      <4>2. \/ intent' = next /\ app' = "phases"
            \/ intent' \in {intent, next} /\ app' = "down"
        BY <3>3 DEF NextPhase, Written, NotWritten, SyncDir
      <4> QED
        BY <3>1, <4>1, <4>2 DEF ClearingUndo
    <3> QED
      BY <1>8, <3>2, <3>3
  <2> QED
    BY <2>1 DEF Steady
<1>9. CASE MarkOpened \/ UndoneDeleted
  <2>1. images' = {dir'} \/ UNCHANGED files
    BY <1>9 DEF MarkOpened, UndoneDeleted, Written, NotWritten, SyncDir, files
  <2>2. app = "finishing" /\ intent # NoIntent
    BY <1>1, <1>9 DEF MarkOpened, UndoneDeleted, Control
  <2>3. intent' # NoIntent /\ ~ClearingUndo'
    BY <1>1, <1>9, <2>2, IntentIs, PhasesAre DEF ClearingUndo, process, MarkOpened, UndoneDeleted,
        Written, NotWritten, SyncDir, request
  <2> QED
    BY <1>1, <1>2, <1>3, <2>1, <2>2, <2>3, SetsSame
<1>10. CASE RemoveIntent
  <2>1. images' = {dir'}
    BY <1>1, <1>10 DEF RemoveIntent, Clean, Written, NotWritten, SyncDir, files
  <2> QED
    BY <1>2, <2>1
<1>11. CASE StageSync \/ Request \/ RequestUndo
  <2>1. images' = {dir'} \/ UNCHANGED files \/ Delete("staged")
    BY <1>11 DEF StageSync, Request, RequestUndo, Written, NotWritten, SyncDir
  <2>2. app = "up" /\ intent = NoIntent
    BY <1>1, <1>11 DEF StageSync, Request, RequestUndo, Control
  <2>3. images' = {dir'} \/ SameSets
    BY <1>1, <2>1, SetsSame, DeleteStaged
  <2> QED
    BY <1>2, <1>3, <2>2, <2>3
<1>12. ASSUME Delete("undo"), UNCHANGED <<intent, app>>,
              app # "phases" => \A d \in images : Main(d, "live") = Live,
              intent = NoIntent \/ ClearingUndo
       PROVE  Steady'
  <2>1. /\ \A s \in {"live", "undo"} : <<s, "main">> \in Files /\ <<s, "wal">> \in Files
        /\ "undo" \in Sets /\ First("undo") \in {"wal", "main"}
        /\ <<"undo", First("undo")>> \in Files
    BY <1>1, Typed, FilesAre DEF Sets
  <2>2. /\ Main(dir', "live") = Main(dir, "live")
        /\ \A d \in images' : \E e \in images : Main(d, "live") = Main(e, "live")
    BY <1>1, <1>12, <2>1, DeleteIs DEF Main
  <2>3. (app' \notin {"down", "phases"} \/ intent' = NoIntent) =>
          \A d \in images' : Main(d, "live") = Live'
    BY <1>1, <1>12, <2>2 DEF Steady, Live, Main
  <2>4. CASE First("undo") = "wal"
    <3>1. /\ Main(dir', "undo") = Main(dir, "undo") /\ ~Bare(dir, "undo")
          /\ \A d \in images' : \E e \in images : Main(d, "undo") = Main(e, "undo")
      BY <1>1, <1>12, <2>1, <2>4, DeleteIs DEF Main, Log, Bare, First
    <3> QED
      BY <1>1, <1>12, <2>3, <3>1 DEF Steady, Main, Log, Bare
  <2>5. CASE First("undo") = "main"
    <3>1. Bare(dir', "undo")
      BY <1>1, <1>12, <2>1, <2>5, DeleteIs DEF Main, Log, Bare, First
    <3> QED
      BY <2>3, <3>1 DEF Steady, Main, Log, Bare
  <2> QED
    BY <2>1, <2>4, <2>5
<1>13. CASE MoveFile
  <2>1. app = "phases" /\ UNCHANGED <<intent, app>> /\ intent # NoIntent
    BY <1>1, <1>13 DEF MoveFile, Control, request, process
  <2>2. CASE ClearingUndo
    <3>1. Delete("undo")
      BY <1>13, <2>2 DEF MoveFile, ClearingUndo, Source, Deletes, Aside
    <3> QED
      BY <1>12, <2>1, <2>2, <3>1
  <2>3. CASE ~ClearingUndo
    BY <2>1, <2>3 DEF Steady, ClearingUndo
  <2> QED
    BY <2>2, <2>3
<1>14. CASE DeleteUndo
  <2>1. app = "up" /\ app' = "up" /\ intent = NoIntent /\ intent' = NoIntent
    BY <1>14 DEF DeleteUndo, request
  <2>2. CASE Delete("undo")
    BY <1>1, <1>12, <2>1, <2>2 DEF Steady
  <2>3. CASE UNCHANGED files
    BY <1>1, <1>3, <2>1, <2>3, SetsSame
  <2> QED
    BY <1>14, <2>2, <2>3 DEF DeleteUndo
<1> QED
  BY <1>4, <1>5, <1>6, <1>7, <1>8, <1>9, <1>10, <1>11, <1>13, <1>14
     DEF Next, Boot, Running, Failures


----------------------------------------------------------------------------
(* What explains a folder still does, whatever is let go.                  *)

LEMMA PartsStill ==
    ASSUME needs' \ cut' \subseteq needs \ cut, written' = written, dropped \subseteq dropped',
           NEW d
    PROVE  /\ \A s \in Sets : \A x : Whole(d, s, x) => Whole(d, s, x)'
           /\ \A s, t \in Sets : \A x : Moving(d, s, t, x) => Moving(d, s, t, x)'
           /\ \A dbs : Only(dbs) => Only(dbs)'
           /\ \A s \in Sets : Bare(d, s) <=> Bare(d, s)'
           /\ Settled(d) => Settled(d)'
<1>1. \A s \in Sets : \A x : Whole(d, s, x) => Whole(d, s, x)'
  BY DEF Whole, Main, Log
<1>2. \A s, t \in Sets : \A x : Moving(d, s, t, x) => Moving(d, s, t, x)'
  BY DEF Moving, Main, Log
<1>3. \A dbs : Only(dbs) => Only(dbs)'
  BY DEF Only
<1>4. \A s \in Sets : Bare(d, s) <=> Bare(d, s)'
  BY DEF Bare, Main, Log
<1>5. Settled(d) => Settled(d)'
  BY <1>1, <1>3, <1>4 DEF Settled, Main, Sets
<1> QED
  BY <1>1, <1>2, <1>3, <1>4, <1>5

LEMMA ExplainsStill ==
    ASSUME needs' \ cut' \subseteq needs \ cut, written' = written, dropped \subseteq dropped',
           NEW d, NEW i, Explains(i, d)
    PROVE  Explains(i, d)'
<1>1. \A s \in {"live", "staged", "undo", "undone"} : s \in Sets
  BY DEF Sets
<1>2. CASE i.action = "restore"
  BY <1>1, <1>2, PartsStill DEF Explains, RestoreExplains, Main, Log
<1>3. CASE i.action = "undo"
  BY <1>1, <1>3, PartsStill DEF Explains, UndoExplains, Main, Log
<1>4. CASE i.action \notin {"restore", "undo"}
  BY <1>4, PartsStill DEF Explains
<1> QED
  BY <1>2, <1>3, <1>4


LEMMA StagedFree ==
    ASSUME NEW i, i.phase \in {"none", "opened", "rolled-back"}, NEW d, NEW e,
           \A s \in {"live", "undo", "undone"} : Main(d, s) = Main(e, s) /\ Log(d, s) = Log(e, s),
           Explains(i, e)
    PROVE  Explains(i, d)
<1>1. Settled(e) => Settled(d)
  BY DEF Settled, Whole, Bare
<1>2. \A x : \A s \in {"live", "undo", "undone"} : Whole(e, s, x) => Whole(d, s, x)
  BY DEF Whole
<1>3. \A s \in {"live", "undo", "undone"} : Bare(e, s) => Bare(d, s)
  BY DEF Bare
<1>4. CASE i.action = "restore"
  BY <1>1, <1>2, <1>3, <1>4 DEF Explains, RestoreExplains
<1>5. CASE i.action = "undo"
  BY <1>1, <1>2, <1>3, <1>5 DEF Explains, UndoExplains
<1> QED
  BY <1>1, <1>4, <1>5 DEF Explains

\* The database of a swap that opened stays, and one of a swap that did not goes back.
LEMMA SwappedExplains ==
    ASSUME NEW i \in Intents, i.phase = "swapped", NEW d, Explains(i, d)
    PROVE  /\ Explains([i EXCEPT !.phase = "opened"], d)
           /\ Explains([i EXCEPT !.phase = "rolling-back"], d)
<1> DEFINE opened == [i EXCEPT !.phase = "opened"]
           back == [i EXCEPT !.phase = "rolling-back"]
<1>1. /\ i.action \in {"restore", "undo"} /\ i.was \in Ids /\ i.goal \in Ids
      /\ opened.phase = "opened" /\ opened.action = i.action
      /\ opened.was = i.was /\ opened.goal = i.goal
      /\ back.phase = "rolling-back" /\ back.action = i.action
      /\ back.was = i.was /\ back.goal = i.goal
  BY IntentIs, PhasesAre
<1> HIDE DEF opened, back
<1>2. CASE i.action = "restore"
  <2>1. RestoreExplains(d, "swapped", i.was, i.goal)
    BY <1>2 DEF Explains
  <2>2. RestoreExplains(d, "opened", i.was, i.goal)
    BY <1>1, <2>1, IdsAre DEF RestoreExplains, Settled, Whole, Only
  <2>3. RestoreExplains(d, "rolling-back", i.was, i.goal)
    BY <1>1, <2>1, IdsAre DEF RestoreExplains, Whole
  <2> QED
    BY <1>1, <1>2, <2>2, <2>3 DEF Explains
<1>3. CASE i.action = "undo"
  <2>1. UndoExplains(d, "swapped", i.was, i.goal)
    BY <1>3 DEF Explains
  <2>2. UndoExplains(d, "opened", i.was, i.goal)
    BY <2>1 DEF UndoExplains
  <2>3. UndoExplains(d, "rolling-back", i.was, i.goal)
    BY <2>1 DEF UndoExplains, Whole, Moving, Bare
  <2> QED
    BY <1>1, <1>3, <2>2, <2>3 DEF Explains
<1> QED
  BY <1>1, <1>2, <1>3 DEF opened, back

\* When a phase has nothing left to move, the folder is as the next one finds it.
LEMMA NextExplains ==
    ASSUME Inv, app = "phases", Source # "none", ~Occupied(Source)
    PROVE  Explains([intent EXCEPT !.phase = After(@)], dir)
<1> DEFINE next == [intent EXCEPT !.phase = After(@)]
<1>1. /\ intent \in Intents /\ intent # NoIntent /\ Explains(intent, dir)
      /\ intent.action \in {"restore", "undo"} /\ intent.was \in Ids /\ intent.goal \in Ids
  BY Typed, IntentIs DEF Inv, Control, Explained
<1>2. /\ next.phase = After(intent.phase) /\ next.action = intent.action
      /\ next.was = intent.was /\ next.goal = intent.goal
  BY <1>1, NextIntent, IntentIs
<1>3. Main(dir, Source) = None /\ Log(dir, Source) = None
  BY DEF Occupied, Main, Log, Parts
<1>4. Log(dir, "staged") = None
  BY Typed DEF Inv, Apart
<1>5. /\ intent.phase \in {"requested", "aside-cleared", "live-aside", "rolling-back",
                          "incoming-back"}
  BY NextPhases
<1>8. written \subseteq Ids
  BY TypeIs DEF Inv, Histories
<1> HIDE DEF next
<1>6. CASE intent.action = "restore"
  <2>1. RestoreExplains(dir, intent.phase, intent.was, intent.goal)
    BY <1>1, <1>6 DEF Explains
  <2>2. RestoreExplains(dir, After(intent.phase), intent.was, intent.goal)
    <3>1. CASE intent.phase = "requested"
      BY <1>1, <1>3, <1>6, <1>8, <2>1, <3>1, IdsAre
         DEF RestoreExplains, After, Source, Aside, Whole, Moving, Only
    <3>2. CASE intent.phase = "aside-cleared"
      BY <1>1, <1>3, <1>4, <1>6, <2>1, <3>2, IdsAre
         DEF RestoreExplains, After, Source, Aside, Whole, Moving
    <3>3. CASE intent.phase = "live-aside"
      BY <1>1, <1>3, <1>6, <2>1, <3>3, IdsAre
         DEF RestoreExplains, After, Source, Incoming, Whole, Moving
    <3>4. CASE intent.phase = "rolling-back"
      BY <1>1, <1>3, <1>6, <2>1, <3>4, IdsAre DEF RestoreExplains, After, Source, Whole, Moving
    <3>5. CASE intent.phase = "incoming-back"
      BY <1>1, <1>3, <1>6, <2>1, <3>5, IdsAre
         DEF RestoreExplains, After, Source, Aside, Whole, Moving, Settled, Only
    <3> QED
      BY <1>5, <3>1, <3>2, <3>3, <3>4, <3>5
  <2> QED
    BY <1>2, <1>6, <2>2 DEF Explains, next
<1>7. CASE intent.action = "undo"
  <2>1. UndoExplains(dir, intent.phase, intent.was, intent.goal)
    BY <1>1, <1>7 DEF Explains
  <2>2. UndoExplains(dir, After(intent.phase), intent.was, intent.goal)
    <3>1. CASE intent.phase = "requested"
      BY <1>1, <1>3, <1>7, <2>1, <3>1, IdsAre
         DEF UndoExplains, After, Source, Aside, Whole, Moving
    <3>2. CASE intent.phase = "aside-cleared"
      BY <1>1, <1>3, <1>7, <2>1, <3>2, IdsAre DEF UndoExplains, After, Source, Whole, Moving
    <3>3. CASE intent.phase = "live-aside"
      BY <1>1, <1>3, <1>7, <2>1, <3>3, IdsAre
         DEF UndoExplains, After, Source, Incoming, Whole, Moving, Bare
    <3>4. CASE intent.phase = "rolling-back"
      BY <1>1, <1>3, <1>7, <2>1, <3>4, IdsAre DEF UndoExplains, After, Source, Whole, Moving
    <3>5. CASE intent.phase = "incoming-back"
      BY <1>1, <1>3, <1>7, <2>1, <3>5, IdsAre
         DEF UndoExplains, After, Source, Aside, Whole, Moving, Settled, Only, Bare
    <3> QED
      BY <1>5, <3>1, <3>2, <3>3, <3>4, <3>5
  <2> QED
    BY <1>2, <1>7, <2>2 DEF Explains, next
<1> QED
  BY <1>1, <1>6, <1>7 DEF next


\* The log of the live set grows by commits, is folded in, or appears beside it.
LEMMA LogStays ==
    ASSUME NEW i \in Intents,
           i.phase \in {"none", "requested", "swapped", "opened", "rolled-back"},
           NEW d, NEW e, NEW x \in Ids, NEW v \in {None, x},
           Explains(i, e), Main(e, "live") = x,
           \A s, t \in Sets : Main(e, s) # None /\ Main(e, t) = Main(e, s) => s = t,
           \A s \in Sets : Main(d, s) = Main(e, s),
           \A s \in Sets : Log(d, s) = IF s = "live" THEN v ELSE Log(e, s),
           needs' \ {x} \subseteq needs, x \in needs' \ cut' => v = x,
           cut' = cut, dropped' = dropped,
           written' = written \/ (written' = written \cup {x} /\ i.phase # "swapped")
    PROVE  Explains(i, d)'
<1>1. /\ {"live", "staged", "undo", "undone"} = Sets
      /\ i.action \in {"restore", "undo"} => i.was \in Ids /\ i.goal \in Ids
  BY IntentIs DEF Sets
<1>2. Whole(d, "live", x)'
  BY <1>1 DEF Whole, Main, Log
<1>3. \A s \in {"staged", "undo", "undone"} : \A y : y # None /\ Whole(e, s, y) => Whole(d, s, y)'
  BY <1>1, IdsAre DEF Whole, Main, Log
<1>4. \A dbs : Only(dbs) /\ (x \in dbs \/ i.phase = "swapped") => Only(dbs)'
  BY DEF Only
<1>5. Bare(e, "undone") => Bare(d, "undone")'
  BY <1>1 DEF Bare, Main, Log
<1>6. Bare(e, "undo") => Bare(d, "undo")'
  BY <1>1 DEF Bare, Main, Log
<1>7. /\ Main(d, "live") = x /\ Main(d, "undo") = Main(e, "undo")
  BY <1>1
<1>8. Settled(e) => Settled(d)'
  BY <1>2, <1>3, <1>4, <1>5, <1>7, IdsAre DEF Settled, Main
<1>9. \A y : Whole(e, "live", y) => y = x
  BY DEF Whole
<1>10. CASE i.action = "restore"
  <2>1. RestoreExplains(e, i.phase, i.was, i.goal)
    BY <1>10 DEF Explains
  <2> SUFFICES RestoreExplains(d, i.phase, i.was, i.goal)'
    BY <1>10 DEF Explains
  <2>2. Whole(e, "staged", i.goal) => x # i.goal
    BY <1>1, <1>10, IdsAre DEF Whole
  <2>3. CASE i.phase = "requested"
    BY <1>1, <1>2, <1>3, <1>4, <1>5, <1>6, <1>7, <1>8, <1>9, <1>10, <2>1, <2>2, <2>3, IdsAre
       DEF RestoreExplains, Main
  <2>4. CASE i.phase = "swapped"
    BY <1>1, <1>2, <1>3, <1>4, <1>5, <1>6, <1>7, <1>8, <1>9, <1>10, <2>1, <2>2, <2>4, IdsAre
       DEF RestoreExplains, Main
  <2>5. CASE i.phase = "opened"
    BY <1>1, <1>2, <1>3, <1>4, <1>5, <1>6, <1>7, <1>8, <1>9, <1>10, <2>1, <2>2, <2>5, IdsAre
       DEF RestoreExplains, Main
  <2>6. CASE i.phase = "rolled-back"
    BY <1>1, <1>2, <1>3, <1>4, <1>5, <1>6, <1>7, <1>8, <1>9, <1>10, <2>1, <2>2, <2>6, IdsAre
       DEF RestoreExplains, Main
  <2>7. CASE i.phase = "none"
    BY <1>1, <1>5, <1>10, <2>1, <2>7, IntentIs
  <2> QED
    BY <2>3, <2>4, <2>5, <2>6, <2>7
<1>11. CASE i.action = "undo"
  <2>1. UndoExplains(e, i.phase, i.was, i.goal)
    BY <1>11 DEF Explains
  <2> SUFFICES UndoExplains(d, i.phase, i.was, i.goal)'
    BY <1>11 DEF Explains
  <2>2. CASE i.phase = "requested"
    BY <1>1, <1>2, <1>3, <1>4, <1>5, <1>6, <1>7, <1>8, <1>9, <1>11, <2>1, <2>2, IdsAre
       DEF UndoExplains, Main
  <2>3. CASE i.phase = "swapped"
    BY <1>1, <1>2, <1>3, <1>4, <1>5, <1>6, <1>7, <1>8, <1>9, <1>11, <2>1, <2>3, IdsAre
       DEF UndoExplains, Main
  <2>4. CASE i.phase = "opened"
    BY <1>1, <1>2, <1>3, <1>4, <1>5, <1>6, <1>7, <1>8, <1>9, <1>11, <2>1, <2>4, IdsAre
       DEF UndoExplains, Main
  <2>5. CASE i.phase = "rolled-back"
    BY <1>1, <1>2, <1>3, <1>4, <1>5, <1>6, <1>7, <1>8, <1>9, <1>11, <2>1, <2>5, IdsAre
       DEF UndoExplains, Main
  <2>6. CASE i.phase = "none"
    BY <1>11, <2>6, IntentIs
  <2> QED
    BY <2>2, <2>3, <2>4, <2>5, <2>6
<1>12. CASE i.action \notin {"restore", "undo"}
  BY <1>8, <1>12 DEF Explains
<1> QED
  BY <1>10, <1>11, <1>12

\* Of the undo copy a user deletes: its log, which is cut off, or its main file.
LEMMA UndoGoes ==
    ASSUME NEW i, i.phase \in {"none", "opened", "rolled-back"},
           NEW d, NEW e, NEW p \in Parts, NEW x, Explains(i, e),
           \A s \in {"live", "undone"} : Main(d, s) = Main(e, s) /\ Log(d, s) = Log(e, s),
           Main(d, "undo") = IF p = "main" THEN None ELSE Main(e, "undo"),
           Log(d, "undo") = IF p = "wal" THEN None ELSE Log(e, "undo"),
           p = "main" => Main(e, "undo") = x,
           p = "wal" => Main(e, "undo") \in {None, x} /\ x \in cut',
           needs' = needs, cut \subseteq cut', written' = written, dropped' = dropped \cup {x}
    PROVE  Explains(i, d)'
<1>1. {"live", "staged", "undo", "undone"} = Sets /\ Parts = {"wal", "main"}
  BY DEF Sets, Parts
<1>2. Settled(e) => Settled(d)'
  <2> SUFFICES ASSUME Settled(e)
               PROVE  Settled(d)'
    OBVIOUS
  <2>1. Main(d, "live") # None /\ Whole(d, "live", Main(d, "live"))' /\ Bare(d, "undone")'
    BY <1>1 DEF Settled, Whole, Bare, Main, Log
  <2>2. Main(d, "undo") # None => Whole(d, "undo", Main(d, "undo"))'
    BY <1>1 DEF Settled, Whole, Main, Log
  <2>3. Only({Main(d, "live"), Main(d, "undo")})'
    BY <1>1 DEF Settled, Only, Main
  <2> QED
    BY <2>1, <2>2, <2>3 DEF Settled, Main
<1>3. CASE i.action = "restore"
  BY <1>1, <1>2, <1>3 DEF Explains, RestoreExplains, Bare, Main, Log
<1>4. CASE i.action = "undo"
  <2>1. UndoExplains(e, i.phase, i.was, i.goal)
    BY <1>4 DEF Explains
  <2>2. \A y : \A s \in {"live", "undone"} : Whole(e, s, y) => Whole(d, s, y)'
    BY DEF Whole, Main, Log
  <2>3. Bare(e, "undo") => Bare(d, "undo")'
    BY <1>1 DEF Bare, Main, Log
  <2>4. Only({i.was, i.goal})'
    BY <2>1 DEF UndoExplains, Only
  <2> QED
    BY <1>2, <1>4, <2>1, <2>2, <2>3, <2>4 DEF Explains, UndoExplains, Main
<1>5. CASE i.action \notin {"restore", "undo"}
  BY <1>2, <1>5 DEF Explains
<1> QED
  BY <1>3, <1>4, <1>5


\* The next file of a phase of boot: one of what is let go, or of what is moved.
LEMMA FileMoves ==
    ASSUME Inv, MoveFile, NEW d \in images', NEW i, i = intent
    PROVE  Explains(i, d)'
<1>1. /\ TypeOK /\ Apart /\ app = "phases" /\ Source \in Sets /\ Occupied(Source)
      /\ intent \in Intents /\ intent.action \in {"restore", "undo"}
      /\ intent.was \in Ids /\ intent.goal \in Ids /\ dir \in images
      /\ intent.phase \in {"requested", "aside-cleared", "live-aside", "rolling-back",
                           "incoming-back"}
  BY Typed, IntentIs, Sourced, NextPhases DEF Inv, Control, MoveFile
<1>2. \A e \in images : Explains(intent, e)
  BY Typed DEF Inv, Explained
<1>3. /\ needs' = needs /\ cut' = cut /\ written' = written /\ dropped \subseteq dropped'
      /\ intent' = intent
      /\ intent.phase = "requested" => dir[<<Source, First(Source)>>] \in dropped'
  BY DEF MoveFile, databases, request
<1>4. Explains(i, d) => Explains(i, d)'
  BY <1>3, ExplainsStill
<1>5. CASE d \in images
  BY <1>2, <1>4, <1>5
<1>6. ASSUME d \notin images, Deletes
      PROVE  Explains(i, d)'
  <2> DEFINE p == First(Source)
  <2>1. Delete(Source) /\ p \in {"wal", "main"}
    BY <1>1, <1>6, Typed DEF MoveFile, Parts
  <2>2. PICK e \in images : \A g \in Files : d[g] = IF g = <<Source, p>> THEN None ELSE e[g]
    BY <1>1, <1>6, <2>1, DeleteIs
  <2>3. \A s \in Sets : /\ Main(d, s) = IF s = Source /\ p = "main" THEN None ELSE Main(e, s)
                        /\ Log(d, s) = IF s = Source /\ p = "wal" THEN None ELSE Log(e, s)
    BY <2>1, <2>2, FilesAre DEF Main, Log
  <2>4. {"live", "staged", "undo", "undone"} = Sets
    BY DEF Sets
  <2>5. Explains(intent, e) /\ Explains(intent, dir)
    BY <1>1, <1>2
  <2>6. CASE intent.action = "restore" /\ intent.phase = "requested"
    <3>1. Source = "undo"
      BY <2>6 DEF Source, Aside
    <3>2. Main(e, "undo") = Main(dir, "undo")
      BY <1>1, <2>6, <3>1 DEF Inv, Steady, ClearingUndo, Bare, Occupied, Main, Log, Parts
    <3>3. /\ RestoreExplains(e, "requested", intent.was, intent.goal)
          /\ RestoreExplains(dir, "requested", intent.was, intent.goal)
      BY <2>5, <2>6 DEF Explains
    <3>4. Main(dir, "undo") \in {None} \cup dropped'
      BY <1>1, <1>3, <2>6, <3>1, <3>3
         DEF RestoreExplains, Whole, Main, Log, First, Occupied, Parts
    <3>5. /\ Whole(d, "live", intent.was)' /\ Whole(d, "staged", intent.goal)'
          /\ Bare(d, "undone")'
      BY <1>3, <2>3, <2>4, <3>1, <3>3 DEF RestoreExplains, Whole, Bare, Main, Log
    <3>6. Only({intent.was, Main(d, "undo")})'
      BY <1>1, <1>3, <2>3, <2>4, <3>1, <3>2, <3>3, <3>4, TypeIs, IdsAre
         DEF RestoreExplains, Only, Main, Histories
    <3>7. Main(d, "undo") \in {None} \cup dropped'
      BY <2>3, <2>4, <3>1, <3>2, <3>4
    <3>8. RestoreExplains(d, "requested", intent.was, intent.goal)'
      BY <1>3, <3>3, <3>5, <3>6, <3>7 DEF RestoreExplains, Main
    <3> QED
      BY <1>3, <2>6, <3>8 DEF Explains
  <2>7. CASE intent.action = "undo" /\ intent.phase = "requested"
    BY <1>1, <2>5, <2>7 DEF Explains, UndoExplains, Source, Aside, Bare, Occupied, Main, Log, Parts
  <2>8. CASE intent.action = "restore" /\ intent.phase = "rolling-back"
    <3>1. Source = "live"
      BY <2>8 DEF Source
    <3>2. RestoreExplains(e, "rolling-back", intent.was, intent.goal)
      BY <2>5, <2>8 DEF Explains
    <3>3. RestoreExplains(d, "rolling-back", intent.was, intent.goal)
      BY <2>3, <2>4, <3>1, <3>2 DEF RestoreExplains, Whole, Bare
    <3>4. Explains(i, d)
      BY <2>8, <3>3 DEF Explains
    <3> QED
      BY <1>3, <1>4, <3>4
  <2> QED
    BY <1>1, <1>6, <2>6, <2>7, <2>8 DEF Deletes
<1>7. ASSUME d \notin images, ~Deletes
      PROVE  Explains(i, d)
  <2> DEFINE p == First(Source)
  <2>1. /\ Source \in Sets /\ Target \in Sets /\ Source # Target /\ Target # "staged"
        /\ Move(Source, Target) /\ p \in {"wal", "main"}
    BY <1>1, <1>7, MovesApart, Typed DEF MoveFile, Parts
  <2>2. PICK x \in Ids : \A e \in images : Moving(e, Source, Target, x)
    BY <1>7, MovesOne
  <2>3. PICK e \in images : \A g \in Files :
          d[g] = IF g = <<Target, p>> THEN dir[<<Source, p>>]
                 ELSE IF g = <<Source, p>> THEN None ELSE e[g]
    BY <1>1, <1>7, <2>1, MoveIs
  <2>4. Moving(e, Source, Target, x) /\ Moving(dir, Source, Target, x)
    BY <1>1, <2>2
  <2>5. dir[<<Source, p>>] = x
    BY <1>1, <2>1, <2>4, IdsAre DEF Occupied, First, Moving, Main, Log, Parts
  <2>6. /\ \A s \in Sets \ {Source, Target} : Main(d, s) = Main(e, s) /\ Log(d, s) = Log(e, s)
        /\ Main(d, Source) = IF p = "main" THEN None ELSE Main(e, Source)
        /\ Main(d, Target) = IF p = "main" THEN x ELSE Main(e, Target)
        /\ Log(d, Source) = IF p = "wal" THEN None ELSE Log(e, Source)
        /\ Log(d, Target) = IF p = "wal" THEN x ELSE Log(e, Target)
    BY <2>1, <2>3, <2>5, FilesAre DEF Main, Log
  <2>7. Moving(d, Source, Target, x)
    BY <2>1, <2>4, <2>6, IdsAre DEF Moving
  <2>8. \A y \in Ids : Moving(e, Source, Target, y) => y = x
    BY <2>4, IdsAre DEF Moving
  <2>9. \A s \in Sets \ {Source, Target} : /\ \A y : Whole(e, s, y) => Whole(d, s, y)
                                           /\ Bare(e, s) => Bare(d, s)
    BY <2>6 DEF Whole, Bare
  <2>10. Explains(intent, e) /\ {"live", "staged", "undo", "undone"} = Sets
    BY <1>2 DEF Sets
  <2>11. CASE intent.action = "restore"
    <3>1. RestoreExplains(e, intent.phase, intent.was, intent.goal)
      BY <2>10, <2>11 DEF Explains
    <3>2. RestoreExplains(d, intent.phase, intent.was, intent.goal)
      BY <1>1, <1>7, <2>7, <2>8, <2>9, <2>10, <2>11, <3>1
         DEF RestoreExplains, Source, Target, Deletes, Aside, Incoming
    <3> QED
      BY <2>11, <3>2 DEF Explains
  <2>12. CASE intent.action = "undo"
    <3>1. UndoExplains(e, intent.phase, intent.was, intent.goal)
      BY <2>10, <2>12 DEF Explains
    <3>2. UndoExplains(d, intent.phase, intent.was, intent.goal)
      BY <1>1, <1>7, <2>7, <2>8, <2>9, <2>10, <2>12, <3>1
         DEF UndoExplains, Source, Target, Deletes, Aside, Incoming
    <3> QED
      BY <2>12, <3>2 DEF Explains
  <2> QED
    BY <1>1, <2>11, <2>12
<1> QED
  BY <1>3, <1>4, <1>5, <1>6, <1>7


----------------------------------------------------------------------------
LEMMA ExplainedTyped ==
    ASSUME Inv
    PROVE  \A d \in images : \A i \in intents : Explains(i, d) /\ i \in Intents /\ d \in Dirs
BY Typed DEF Inv, Explained

\* Nothing new in the folder, and at most an intent that every image explains.
LEMMA IntentAdded ==
    ASSUME Inv, NEW next, images' \subseteq images, intents' \subseteq intents \cup {next},
           \A d \in images' : Explains(next, d),
           needs' \ cut' \subseteq needs \ cut, written' = written, dropped \subseteq dropped'
    PROVE  Explained'
<1> SUFFICES ASSUME NEW d \in images', NEW i \in intents'
             PROVE  Explains(i, d)'
  BY DEF Explained
<1>1. Explains(i, d)
  BY DEF Inv, Explained
<1> QED
  BY <1>1, ExplainsStill

LEMMA NothingAdded ==
    ASSUME Inv, images' \subseteq images, intents' \subseteq intents,
           needs' \ cut' \subseteq needs \ cut, written' = written, dropped \subseteq dropped'
    PROVE  Explained'
<1> SUFFICES ASSUME NEW d \in images', NEW i \in intents'
             PROVE  Explains(i, d)'
  BY DEF Explained
<1>1. Explains(i, d)
  BY DEF Inv, Explained
<1> QED
  BY <1>1, ExplainsStill

\* What is staged, and comes or goes without a request.
LEMMA StagedOnly ==
    ASSUME Inv, intent = NoIntent, intents' \subseteq intents,
           \A d \in images' : d \in images
             \/ \E e \in images : \A s \in {"live", "undo", "undone"} :
                  Main(d, s) = Main(e, s) /\ Log(d, s) = Log(e, s),
           needs' \ cut' \subseteq needs \ cut, written' = written, dropped \subseteq dropped'
    PROVE  Explained'
<1> SUFFICES ASSUME NEW d \in images', NEW i \in intents'
             PROVE  Explains(i, d)'
  BY DEF Explained
<1>1. i \in intents /\ i.phase \in {"none", "opened", "rolled-back"}
  BY DEF Inv, Control
<1>2. Explains(i, d)
  <2>1. CASE d \in images
    BY <1>1, <2>1, ExplainedTyped
  <2>2. CASE d \notin images
    <3>1. PICK e \in images : \A s \in {"live", "undo", "undone"} :
                  Main(d, s) = Main(e, s) /\ Log(d, s) = Log(e, s)
      BY <2>2
    <3> QED
      BY <1>1, <3>1, ExplainedTyped, StagedFree
  <2> QED
    BY <2>1, <2>2
<1> QED
  BY <1>2, ExplainsStill

\* The log of the live database is written, or folded in.
LEMMA LogSets ==
    ASSUME Inv, app \in {"opening", "finishing", "up"}, NEW v \in {None, Live}, SetLog(v),
           intents' = intents, cut' = cut, dropped' = dropped,
           \A i \in intents : i.phase \in {"none", "requested", "swapped", "opened", "rolled-back"},
           needs' \ {Live} \subseteq needs, Live \in needs' \ cut' => v = Live,
           \/ written' = written
           \/ /\ written' = written \cup {Live}
              /\ \A i \in intents : i.phase # "swapped"
    PROVE  Explained'
<1> SUFFICES ASSUME NEW d \in images', NEW i \in intents'
             PROVE  Explains(i, d)'
  BY DEF Explained
<1>1. Live \in Ids /\ TypeOK /\ v \in {None} \cup Ids
  BY OpenIs, IdsAre DEF Inv
<1>2. PICK e \in images : \A g \in Files : d[g] = IF g = <<"live", "wal">> THEN v ELSE e[g]
  BY <1>1, LogOnly
<1>3. /\ i \in Intents /\ Explains(i, e)
      /\ i.phase \in {"none", "requested", "swapped", "opened", "rolled-back"}
      /\ written' = written \/ (written' = written \cup {Live} /\ i.phase # "swapped")
  BY ExplainedTyped
<1>4. Main(e, "live") = Live
  BY DEF Inv, Steady
<1>5. \A s, t \in Sets : Main(e, s) # None /\ Main(e, t) = Main(e, s) => s = t
  BY DEF Inv, Apart
<1>6. /\ \A s \in Sets : Main(d, s) = Main(e, s)
      /\ \A s \in Sets : Log(d, s) = IF s = "live" THEN v ELSE Log(e, s)
  BY <1>2, FilesAre DEF Main, Log
<1> DEFINE x == Live
<1>7. x \in Ids /\ v \in {None, x} /\ Main(e, "live") = x /\ needs' \ {x} \subseteq needs
      /\ (x \in needs' \ cut' => v = x)
      /\ (written' = written \/ (written' = written \cup {x} /\ i.phase # "swapped"))
  BY <1>1, <1>3, <1>4
<1> HIDE DEF x
<1> QED
  BY <1>3, <1>5, <1>6, <1>7, LogStays


LEMMA NextPhaseExplained ==
    ASSUME Inv, NextPhase
    PROVE  Explained'
<1> DEFINE next == [intent EXCEPT !.phase = After(@)]
<1>1. images = {dir} /\ Explains(next, dir)
  BY DEF Inv, NextPhase, Clean, Ready
<1>2. /\ UNCHANGED <<databases, ghosts>>
      /\ images' \subseteq images \cup {dir} /\ intents' \subseteq intents \cup {next}
  <2>1. Written(next) \/ NotWritten(next)
    BY DEF NextPhase
  <2>2. intents' \subseteq intents \cup {next} /\ images' \subseteq images \cup {dir}
    BY <2>1, Typed DEF Inv, Written, NotWritten, SyncDir, files
  <2> QED
    BY <2>2 DEF NextPhase
<1> HIDE DEF next
<1> QED
  BY <1>1, <1>2, IntentAdded DEF databases, ghosts

LEMMA BeginRollBackExplained ==
    ASSUME Inv, BeginRollBack
    PROVE  Explained'
<1> DEFINE next == [intent EXCEPT !.phase = "rolling-back"]
<1>1. images = {dir} /\ Explains(next, dir)
  BY Typed, ExplainedTyped, SwappedExplains DEF Inv, BeginRollBack, Clean, Control
<1>2. /\ UNCHANGED <<databases, ghosts>>
      /\ images' \subseteq images \cup {dir} /\ intents' \subseteq intents \cup {next}
  <2>1. Written(next) \/ NotWritten(next)
    BY DEF BeginRollBack
  <2>2. intents' \subseteq intents \cup {next} /\ images' \subseteq images \cup {dir}
    BY <2>1, Typed DEF Inv, Written, NotWritten, SyncDir, files
  <2> QED
    BY <2>2 DEF BeginRollBack
<1> HIDE DEF next
<1> QED
  BY <1>1, <1>2, IntentAdded DEF databases, ghosts

LEMMA MarkOpenedExplained ==
    ASSUME Inv, MarkOpened
    PROVE  Explained'
<1> DEFINE next == [intent EXCEPT !.phase = "opened"]
<1>1. images = {dir} /\ Explains(next, dir)
  BY Typed, ExplainedTyped, SwappedExplains DEF Inv, MarkOpened, Clean, Control
<1>2. /\ UNCHANGED <<databases, ghosts>>
      /\ images' \subseteq images \cup {dir} /\ intents' \subseteq intents \cup {next}
  <2>1. Written(next) \/ NotWritten(next)
    BY DEF MarkOpened
  <2>2. intents' \subseteq intents \cup {next} /\ images' \subseteq images \cup {dir}
    BY <2>1, Typed DEF Inv, Written, NotWritten, SyncDir, files
  <2> QED
    BY <2>2 DEF MarkOpened
<1> HIDE DEF next
<1> QED
  BY <1>1, <1>2, IntentAdded DEF databases, ghosts

LEMMA RemoveIntentExplained ==
    ASSUME Inv, RemoveIntent
    PROVE  Explained'
<1>1. images = {dir} /\ Settled(dir)
  BY DEF Inv, RemoveIntent, Clean, Ready
<1>2. Explains(NoIntent, dir)
  BY <1>1 DEF Explains, NoIntent
<1>3. /\ UNCHANGED <<databases, ghosts>>
      /\ images' \subseteq images \cup {dir} /\ intents' \subseteq intents \cup {NoIntent}
  <2>1. Written(NoIntent) \/ NotWritten(NoIntent)
    BY DEF RemoveIntent
  <2>2. intents' \subseteq intents \cup {NoIntent} /\ images' \subseteq images \cup {dir}
    BY <2>1, Typed DEF Inv, Written, NotWritten, SyncDir, files
  <2> QED
    BY <2>2 DEF RemoveIntent
<1> QED
  BY <1>1, <1>2, <1>3, IntentAdded DEF databases, ghosts

LEMMA StagedGone ==
    ASSUME Inv, Rename(<<"staged", "main">>, Gone)
    PROVE  \A d \in images' : d \in images
             \/ \E e \in images : \A s \in {"live", "undo", "undone"} :
                  Main(d, s) = Main(e, s) /\ Log(d, s) = Log(e, s)
<1>1. \A d \in images' : d \in images
        \/ \E e \in images : \A g \in Files :
             d[g] = IF g = <<"staged", "main">> THEN None ELSE e[g]
  BY UnstageIs DEF Inv
<1> QED
  BY <1>1, FilesAre DEF Main, Log, Sets

LEMMA RequestExplained ==
    ASSUME Inv, Request
    PROVE  Explained'
<1> DEFINE next == Asked("restore", made)
<1>1. /\ images = {dir} /\ intents = {NoIntent} /\ intent = NoIntent
      /\ UNCHANGED <<databases, ghosts>>
  BY DEF Inv, Request, Clean, Control
<1>2. CASE Written(next) \/ NotWritten(next)
  <2>1. images' \subseteq images /\ intents' \subseteq intents \cup {next}
    BY <1>1, <1>2, Typed DEF Inv, Written, NotWritten, SyncDir, files
  <2>2. /\ next.action = "restore" /\ next.phase = "requested"
        /\ next.was = Live /\ next.goal = made
    BY DEF Asked
  <2>3. Settled(dir) /\ Live = Main(dir, "live")
    BY <1>1, LiveIs DEF Main, Live
  <2>4. /\ Main(dir, "staged") = made /\ made \notin written \cup needs
        /\ Log(dir, "staged") = None
    BY Typed DEF Inv, Ready, Request, Apart
  <2>5. RestoreExplains(dir, "requested", Live, made)
    BY <2>3, <2>4 DEF RestoreExplains, Settled, Whole
  <2>6. Explains(next, dir)
    BY <2>2, <2>5 DEF Explains
  <2> HIDE DEF next
  <2> QED
    BY <1>1, <2>1, <2>6, IntentAdded DEF databases, ghosts
<1>3. CASE Delete("staged") /\ UNCHANGED request
  BY <1>1, <1>3, DeleteStaged, StagedGone, StagedOnly DEF Inv, databases, ghosts, request
<1> QED
  BY <1>2, <1>3 DEF Request

LEMMA RequestUndoExplained ==
    ASSUME Inv, RequestUndo
    PROVE  Explained'
<1> DEFINE next == Asked("undo", dir[<<"undo", "main">>])
<1>1. /\ intent = NoIntent /\ UNCHANGED <<databases, ghosts>>
      /\ Main(dir, "undo") # None /\ app = "up"
  BY DEF RequestUndo, Main
<1>2. images' \subseteq images /\ intents' \subseteq intents \cup {next}
  BY Typed DEF RequestUndo, Inv, NotWritten, SyncDir, files
<1>3. /\ next.action = "undo" /\ next.phase = "requested"
      /\ next.was = Live /\ next.goal = Main(dir, "undo")
  BY DEF Asked, Main
<1> HIDE DEF next
<1>4. ASSUME NEW d \in images
      PROVE  Explains(next, d)
  <2>1. Explains(NoIntent, d)
    BY <1>1, Typed, ExplainedTyped DEF Inv
  <2>2. Settled(d)
    BY <2>1 DEF Explains, NoIntent
  <2>3. Main(d, "live") = Live /\ Main(d, "undo") = Main(dir, "undo")
    BY <1>1 DEF Inv, Steady, Bare
  <2>4. UndoExplains(d, "requested", Live, Main(dir, "undo"))
    BY <1>1, <2>2, <2>3 DEF UndoExplains, Settled
  <2> QED
    BY <1>3, <2>4 DEF Explains
<1> QED
  BY <1>1, <1>2, <1>4, IntentAdded DEF databases, ghosts

LEMMA DeleteUndoExplained ==
    ASSUME Inv, DeleteUndo
    PROVE  Explained'
<1>1. /\ intent = NoIntent /\ app = "up" /\ Occupied("undo") /\ UNCHANGED request
      /\ needs' = needs /\ written' = written
  BY DEF DeleteUndo, databases
<1>2. CASE Delete("undo") /\ dropped' = dropped \cup {dir[<<"undo", First("undo")>>]}
           /\ cut' = cut \cup {dir[<<"undo", "wal">>]}
  <2> SUFFICES ASSUME NEW d \in images', NEW i \in intents'
               PROVE  Explains(i, d)'
    BY DEF Explained
  <2> DEFINE p == First("undo")
             x == dir[<<"undo", First("undo")>>]
  <2>1. i \in intents /\ i.phase \in {"none", "opened", "rolled-back"}
    BY <1>1 DEF Inv, Control, request
  <2>2. CASE d \in images
    BY <1>1, <1>2, <2>1, <2>2, ExplainedTyped, ExplainsStill
  <2>3. CASE d \notin images
    <3>1. TypeOK /\ "undo" \in Sets
      BY DEF Inv, Sets
    <3>2. PICK e \in images : \A g \in Files : d[g] = IF g = <<"undo", p>> THEN None ELSE e[g]
      BY <1>2, <2>3, <3>1, DeleteIs
    <3>3. p \in Parts /\ p \in {"wal", "main"} /\ dir \in images
      BY <3>1, Typed DEF Parts
    <3>4. Explains(i, e) /\ Explains(NoIntent, dir)
      BY <1>1, <2>1, <3>3, ExplainedTyped, Typed DEF Inv
    <3>5. Settled(dir)
      BY <3>4 DEF Explains, NoIntent
    <3>6. Main(e, "undo") = Main(dir, "undo")
      BY <1>1 DEF Inv, Steady, Bare, Occupied, Parts, Main, Log
    <3>7. p = "main" => Main(e, "undo") = x
      BY <3>6 DEF Main
    <3>8. p = "wal" => Main(e, "undo") \in {None, x} /\ x \in cut'
      BY <1>2, <3>5, <3>6 DEF Settled, Whole, Main, Log, First
    <3>9. /\ \A s \in {"live", "undone"} : Main(d, s) = Main(e, s) /\ Log(d, s) = Log(e, s)
          /\ Main(d, "undo") = IF p = "main" THEN None ELSE Main(e, "undo")
          /\ Log(d, "undo") = IF p = "wal" THEN None ELSE Log(e, "undo")
      BY <3>2, <3>3, FilesAre DEF Main, Log, Sets
    <3>10. dropped' = dropped \cup {x} /\ cut \subseteq cut'
      BY <1>2
    <3> HIDE DEF p, x
    <3> QED
      BY <1>1, <2>1, <3>3, <3>4, <3>7, <3>8, <3>9, <3>10, UndoGoes
  <2> QED
    BY <2>2, <2>3
<1>3. CASE UNCHANGED <<files, dropped, cut>>
  BY <1>1, <1>3, NothingAdded DEF files, request
<1> QED
  BY <1>2, <1>3 DEF DeleteUndo

LEMMA DeleteUndoneExplained ==
    ASSUME Inv, DeleteUndone
    PROVE  Explained'
<1>1. /\ intent # NoIntent /\ intent.action = "undo" /\ intent.phase = "opened"
      /\ intents' = {intent} /\ Occupied("undone") /\ Delete("undone")
      /\ needs' = needs /\ written' = written /\ cut' = cut
      /\ dropped' = dropped \cup {dir[<<"undone", First("undone")>>]}
  <2>1. intents' = intents /\ intents = {intent} /\ intent # NoIntent
    BY DEF DeleteUndone, Undone, Inv, Control, request
  <2> QED
    BY <2>1 DEF DeleteUndone, Undone, databases
<1> SUFFICES ASSUME NEW d \in images', NEW i, i = intent
             PROVE  Explains(i, d)'
  BY <1>1 DEF Explained
<1>2. CASE d \in images
  BY <1>1, <1>2, ExplainedTyped, ExplainsStill, Typed DEF Inv
<1>3. CASE d \notin images
  <2>1. TypeOK /\ {"live", "staged", "undo", "undone"} = Sets /\ Parts = {"wal", "main"}
    BY DEF Inv, Sets, Parts
  <2>2. PICK e \in images :
          \A g \in Files : d[g] = IF g = <<"undone", First("undone")>> THEN None ELSE e[g]
    BY <1>1, <1>3, <2>1, DeleteIs
  <2>3. \A s \in {"live", "undo"} : Main(d, s) = Main(e, s) /\ Log(d, s) = Log(e, s)
    BY <2>1, <2>2, FilesAre DEF Main, Log
  <2>4. UndoExplains(e, "opened", i.was, i.goal) /\ UndoExplains(dir, "opened", i.was, i.goal)
    <3>1. Explains(i, e) /\ Explains(i, dir)
      BY <2>1, Typed, ExplainedTyped
    <3> QED
      BY <1>1, <3>1 DEF Explains
  <2>5. i.was \in dropped'
    BY <1>1, <2>1, <2>4 DEF UndoExplains, Whole, Main, Log, First, Occupied
  <2>6. UndoExplains(d, "opened", i.was, i.goal)'
    BY <1>1, <2>3, <2>4, <2>5 DEF UndoExplains, Whole, Bare, Only, Main, Log
  <2> QED
    BY <1>1, <2>6 DEF Explains
<1> QED
  BY <1>2, <1>3


LEMMA ExplainedStep ==
    ASSUME Inv, Next
    PROVE  Explained'
<1>0. TypeOK /\ dir \in images /\ intent \in intents
  BY Typed DEF Inv
<1>1. CASE StartPending \/ Moved \/ Synced \/ PhasesDone \/ UndoneDeleted \/ Kill \/ HostCrash
           \/ MoveFails \/ FinishFails
  <2>1. images' \subseteq images /\ intents' \subseteq intents /\ UNCHANGED <<databases, ghosts>>
    BY <1>0, <1>1 DEF StartPending, Moved, Synced, PhasesDone, UndoneDeleted, Kill, HostCrash,
       MoveFails, FinishFails, SyncDir, Mishap, files, request
  <2> QED
    BY <2>1, NothingAdded DEF databases, ghosts
<1>2. CASE StartPlain
  <2>1. /\ intent = NoIntent /\ intents' = intents /\ UNCHANGED <<databases, ghosts>>
        /\ Rename(<<"staged", "main">>, Gone) \/ UNCHANGED files
    BY <1>2 DEF StartPlain, request
  <2> QED
    BY <2>1, StagedGone, StagedOnly, NothingAdded DEF files, databases, ghosts
<1>3. CASE Stage
  <2>1. /\ intent = NoIntent /\ intents' = intents /\ cut' = cut /\ dropped' = dropped
        /\ written' = written /\ needs' = needs
    BY <1>3 DEF Stage, request, ghosts
  <2>2. \A d \in images' : d \in images
          \/ \E e \in images : \A s \in {"live", "undo", "undone"} :
               Main(d, s) = Main(e, s) /\ Log(d, s) = Log(e, s)
    <3>1. \A d \in images' : d \in images
            \/ \E e \in images : \A g \in Files :
                 d[g] = IF g = <<"staged", "main">> THEN made' ELSE e[g]
      BY <1>0, <1>3, StageIs
    <3> QED
      BY <3>1, FilesAre DEF Main, Log, Sets
  <2> QED
    BY <2>1, <2>2, StagedOnly
<1>4. CASE StageSync
  <2>1. intent = NoIntent /\ UNCHANGED <<databases, ghosts>>
    BY <1>4 DEF StageSync, Inv, Control
  <2>2. \/ images' \subseteq images /\ intents' \subseteq intents
        \/ Rename(<<"staged", "main">>, Gone) /\ intents' = intents
    BY <1>0, <1>4, DeleteStaged DEF StageSync, SyncDir, request, Inv
  <2> QED
    BY <2>1, <2>2, StagedGone, StagedOnly, NothingAdded DEF databases, ghosts
<1>5. CASE MoveFile
  <2>1. intents' = {intent}
    BY <1>5 DEF MoveFile, Inv, Control, request
  <2> SUFFICES ASSUME NEW d \in images', NEW i, i = intent
               PROVE  Explains(i, d)'
    BY <2>1 DEF Explained
  <2> QED
    BY <1>5, FileMoves
<1>6. CASE Commit
  <2>1. /\ app \in {"opening", "finishing", "up"} /\ SetLog(Live) /\ intents' = intents
        /\ cut' = cut /\ dropped' = dropped
        /\ needs' = needs \cup {Live} /\ written' = written \cup {Live}
    BY <1>6 DEF Commit, request
  <2>2. \A i \in intents : i.phase \in {"none", "requested", "opened", "rolled-back"}
    BY <1>6 DEF Commit, Inv, Control
  <2> QED
    BY <2>1, <2>2, LogSets
<1>7. CASE Open
  <2>1. /\ app \in {"opening", "finishing", "up"} /\ intents' = intents
        /\ cut' = cut /\ dropped' = dropped /\ written' = written
        /\ \/ UNCHANGED <<files, needs>>
           \/ SetLog(Live) /\ needs' = needs \cup {Live}
    BY <1>7 DEF Open, request, ghosts
  <2>2. \A i \in intents : i.phase \in {"none", "swapped", "opened", "rolled-back"}
    BY <1>7 DEF Open, Inv, Control
  <2> QED
    BY <2>1, <2>2, LogSets, NothingAdded DEF files
<1>8. CASE OpenFails
  <2>1. /\ app \in {"opening", "finishing", "up"} /\ intents' = intents
        /\ cut' = cut /\ dropped' = dropped /\ written' = written /\ needs' = needs
        /\ UNCHANGED files \/ SetLog(Live)
    BY <1>8 DEF OpenFails, request, ghosts, databases
  <2>2. \A i \in intents : i.phase \in {"none", "swapped", "opened", "rolled-back"}
    BY <1>8 DEF OpenFails, Inv, Control
  <2> QED
    BY <2>1, <2>2, LogSets, NothingAdded DEF files
<1>9. CASE Close
  <2>1. /\ app \in {"opening", "finishing", "up"} /\ intents' = intents
        /\ cut' = cut /\ dropped' = dropped /\ written' = written
        /\ SetLog(None) /\ needs' = needs \ {Live}
    BY <1>9 DEF Close, request, ghosts
  <2>2. \A i \in intents : i.phase \in {"none", "requested", "opened", "rolled-back"}
    BY <1>9 DEF Close, Inv, Control
  <2> QED
    BY <2>1, <2>2, LogSets
<1> QED
  BY <1>1, <1>2, <1>3, <1>4, <1>5, <1>6, <1>7, <1>8, <1>9, NextPhaseExplained,
     BeginRollBackExplained, MarkOpenedExplained, RemoveIntentExplained, RequestExplained,
     RequestUndoExplained, DeleteUndoExplained, DeleteUndoneExplained
     DEF Next, Boot, Running, Failures

\* When the clean-up is done, the folder is as it is without a request.
LEMMA CleanedUp ==
    ASSUME Inv, app = "finishing", step = "move", ~(Undone /\ Occupied("undone"))
    PROVE  Settled(dir)
<1>1. /\ intent \in Intents /\ intent # NoIntent /\ Explains(intent, dir)
      /\ intent.phase \in {"opened", "rolled-back"}
  BY Typed, ExplainedTyped DEF Inv, Control
<1>2. CASE intent.action = "restore"
  BY <1>1, <1>2 DEF Explains, RestoreExplains
<1>3. CASE intent.action = "undo" /\ intent.phase = "rolled-back"
  BY <1>3, <1>1 DEF Explains, UndoExplains
<1>4. CASE intent.action = "undo" /\ intent.phase = "opened"
  <2>1. UndoExplains(dir, "opened", intent.was, intent.goal)
    BY <1>1, <1>4 DEF Explains
  <2>2. Bare(dir, "undone") /\ intent.was \in Ids /\ intent.goal \in Ids
    BY <1>1, <1>4, IntentIs DEF Undone, Occupied, Bare, Main, Log, Parts
  <2>3. intent.was \in dropped
    BY <2>1, <2>2, IdsAre DEF UndoExplains, Whole, Bare
  <2> QED
    BY <2>1, <2>2, <2>3, IdsAre DEF UndoExplains, Settled, Whole, Bare, Only
<1> QED
  BY <1>1, <1>2, <1>3, <1>4, IntentIs

NextReady == app = "phases" /\ step # "move" => Explains([intent EXCEPT !.phase = After(@)], dir)
CleanUpReady == app = "finishing" /\ step = "sync" => Settled(dir)
StagedReady ==
    task \in {"placed", "staged"} => Main(dir, "staged") = made /\ made \notin written \cup needs

LEMMA NextReadyStep ==
    ASSUME Inv, Next
    PROVE  NextReady'
<1>1. CASE Moved \/ Synced
  <2>1. intent' = intent /\ dir' = dir /\ UNCHANGED <<databases, ghosts>>
    BY <1>1 DEF Moved, Synced, SyncDir, files, request
  <2>2. Explains([intent EXCEPT !.phase = After(@)], dir)
    BY <1>1, NextExplains DEF Moved, Synced, Inv, Ready, Control
  <2>3. PICK d : d = dir
    OBVIOUS
  <2>4. PICK i : i = [intent EXCEPT !.phase = After(@)]
    OBVIOUS
  <2>5. Explains(i, d)'
    BY <2>1, <2>2, <2>3, <2>4, ExplainsStill DEF databases, ghosts
  <2>6. d = dir' /\ i = [intent EXCEPT !.phase = After(@)]'
    BY <2>1, <2>3, <2>4
  <2>7. Explains([intent EXCEPT !.phase = After(@)], dir)'
    BY <2>5, <2>6 DEF Explains
  <2> QED
    BY <2>7 DEF NextReady
<1>2. CASE ~(Moved \/ Synced)
  <2>1. ~(app' = "phases" /\ step' # "move")
    BY <1>2 DEF Next, Boot, Running, Failures, StartPlain, StartPending, MoveFile, NextPhase,
       PhasesDone, Open, OpenFails, BeginRollBack, MarkOpened, DeleteUndone, UndoneDeleted,
       RemoveIntent, Commit, Stage, StageSync, Request, RequestUndo, DeleteUndo, Close, Kill,
       HostCrash, MoveFails, FinishFails, process, Inv, Control
  <2> QED
    BY <2>1 DEF NextReady
<1> QED
  BY <1>1, <1>2

LEMMA CleanUpReadyStep ==
    ASSUME Inv, Next
    PROVE  CleanUpReady'
<1>1. CASE UndoneDeleted
  <2>1. dir' = dir /\ UNCHANGED <<databases, ghosts>>
    BY <1>1 DEF UndoneDeleted, SyncDir, files
  <2>2. Settled(dir)
    BY <1>1, CleanedUp DEF UndoneDeleted
  <2>3. Settled(dir)'
    BY <2>1, <2>2 DEF Settled, Whole, Bare, Only, Main, Log, databases, ghosts
  <2> QED
    BY <2>3 DEF CleanUpReady
<1>2. CASE ~UndoneDeleted
  <2>1. ~(app' = "finishing" /\ step' = "sync")
    BY <1>2 DEF Next, Boot, Running, Failures, StartPlain, StartPending, MoveFile, Moved, Synced,
       NextPhase, PhasesDone, Open, OpenFails, BeginRollBack, MarkOpened, DeleteUndone,
       RemoveIntent, Commit, Stage, StageSync, Request, RequestUndo, DeleteUndo, Close, Kill,
       HostCrash, MoveFails, FinishFails, process, Inv, Control
  <2> QED
    BY <2>1 DEF CleanUpReady
<1> QED
  BY <1>1, <1>2

LEMMA StagedReadyStep ==
    ASSUME Inv, Next
    PROVE  StagedReady'
<1>1. CASE Stage
  <2>1. /\ TypeOK /\ <<"staged", "main">> \in Files /\ made \in Nat
        /\ written' = written /\ needs' = needs
        /\ written \subseteq 1 .. made /\ needs \subseteq 1 .. made
    BY <1>1, FilesAre, Typed, IdsAre DEF Stage, ghosts, Inv, Numbered, Sets
  <2>2. Main(dir, "staged")' = made' /\ made' = made + 1
    BY <1>1, <2>1, StageIs DEF Main
  <2> QED
    BY <2>1, <2>2 DEF StagedReady
<1>2. CASE StageSync
  <2>1. CASE task' = "none"
    BY <2>1 DEF StagedReady
  <2>2. CASE task' # "none"
    BY <1>2, <2>2 DEF StageSync, SyncDir, Inv, Ready, StagedReady, Main, databases, ghosts, bounds
  <2> QED
    BY <2>1, <2>2
<1>3. CASE Commit
  <2>1. CASE task \in {"placed", "staged"}
    <3>1. Main(dir, "staged") = made /\ made \notin written \cup needs /\ made \in Ids
      BY <2>1, Typed DEF Inv, Ready
    <3>2. /\ TypeOK /\ Live \in Ids /\ dir \in images
          /\ <<"staged", "main">> \in Files /\ {"live", "staged", "undo", "undone"} = Sets
      BY <1>3, OpenIs, Typed, FilesAre DEF Inv, Commit, Sets
    <3>3. Main(dir, "live") = Live
      BY DEF Main, Live
    <3>4. Live # made
      BY <3>1, <3>2, <3>3, IdsAre DEF Inv, Apart
    <3>5. Main(dir, "staged")' = Main(dir, "staged")
      BY <1>3, <3>2, LogOnly DEF Commit, Main
    <3>6. made' = made /\ written' = written \cup {Live} /\ needs' = needs \cup {Live}
      BY <1>3 DEF Commit, bounds
    <3> QED
      BY <3>1, <3>4, <3>5, <3>6 DEF StagedReady
  <2>2. CASE task \notin {"placed", "staged"}
    BY <1>3, <2>2 DEF Commit, process, StagedReady
  <2> QED
    BY <2>1, <2>2
<1>4. CASE ~(Stage \/ StageSync \/ Commit)
  <2>1. task' \notin {"placed", "staged"}
    BY <1>4 DEF Next, Boot, Running, Failures, StartPlain, StartPending, MoveFile, Moved, Synced,
       NextPhase, PhasesDone, Open, OpenFails, BeginRollBack, MarkOpened, DeleteUndone,
       UndoneDeleted, RemoveIntent, Request, RequestUndo, DeleteUndo, Close, Kill,
       HostCrash, MoveFails, FinishFails, process, Inv, Control
  <2> QED
    BY <2>1 DEF StagedReady
<1> QED
  BY <1>1, <1>2, <1>3, <1>4

LEMMA ReadyStep ==
    ASSUME Inv, Next
    PROVE  Ready'
BY NextReadyStep, CleanUpReadyStep, StagedReadyStep DEF Ready, NextReady, CleanUpReady, StagedReady


----------------------------------------------------------------------------
LEMMA Starts == Init => Inv
<1> SUFFICES ASSUME Init
             PROVE  Inv
  OBVIOUS
<1>1. /\ \A s \in Sets : /\ Main(dir, s) = IF s = "live" THEN 1 ELSE None
                         /\ Log(dir, s) = None
      /\ dir \in Dirs /\ 1 \in Ids
      /\ \A f \in Files : dir[f] \in {None, 1}
  BY FilesAre, IdsAre, LogIs DEF Init, Empty, Main, Log, Dirs, None
<1>2. images = {dir} /\ intent = NoIntent /\ intents = {NoIntent} /\ NoIntent \in Intents
  BY DEF Init, Intents
<1>3. TypeOK
  BY <1>1, <1>2, RestoreAssumption DEF Init, TypeOK, Ids, Dirs, None
<1>4. Numbered
  BY <1>1, <1>2 DEF Init, Numbered, None
<1>5. Apart
  BY <1>1, <1>2 DEF Apart, Sets, None
<1>6. Settled(dir)
  BY <1>1 DEF Init, Settled, Whole, Bare, Only, Sets, None
<1>7. Explained
  BY <1>2, <1>6 DEF Explained, Explains, NoIntent
<1>8. Steady /\ Control /\ Clean /\ Ready
  BY <1>2 DEF Init, Steady, Control, Clean, Ready, NoIntent, Main, Live
<1> QED
  BY <1>3, <1>4, <1>5, <1>7, <1>8 DEF Inv

LEMMA Stutters == Inv /\ UNCHANGED vars => Inv'
<1> SUFFICES ASSUME Inv, UNCHANGED vars
             PROVE  Inv'
  OBVIOUS
<1>1. /\ dir' = dir /\ images' = images /\ intent' = intent /\ intents' = intents
      /\ app' = app /\ step' = step /\ task' = task
      /\ made' = made /\ undos' = undos /\ mishaps' = mishaps
      /\ bad' = bad /\ needs' = needs /\ written' = written
      /\ dropped' = dropped /\ cut' = cut
  BY DEF vars, files, request, process, bounds, databases, ghosts
<1>2. TypeOK' /\ Numbered' /\ Apart' /\ Control' /\ Clean'
  BY <1>1, SourceSame
     DEF Inv, TypeOK, Numbered, Apart, Main, Log, Control, Clean, Undone
<1>3. Explained'
  BY <1>1, NothingAdded
<1>4. Steady'
  BY <1>1 DEF Inv, Steady, ClearingUndo, Main, Log, Live, Bare
<1>5. NextReady'
  <2>1. PICK d : d = dir
    OBVIOUS
  <2>2. PICK i : i = [intent EXCEPT !.phase = After(@)]
    OBVIOUS
  <2>3. app = "phases" /\ step # "move" => Explains(i, d)'
    BY <1>1, <2>1, <2>2, ExplainsStill DEF Inv, Ready
  <2>4. d = dir' /\ i = [intent EXCEPT !.phase = After(@)]'
    BY <1>1, <2>1, <2>2
  <2>5. app' = "phases" /\ step' # "move" => Explains([intent EXCEPT !.phase = After(@)], dir)'
    BY <1>1, <2>3, <2>4 DEF Explains
  <2> QED
    BY <2>5 DEF NextReady
<1>6. CleanUpReady' /\ StagedReady'
  BY <1>1 DEF Inv, Ready, CleanUpReady, StagedReady, Settled, Whole, Bare, Only, Main, Log
<1> QED
  BY <1>2, <1>3, <1>4, <1>5, <1>6 DEF Inv, Ready, NextReady, CleanUpReady, StagedReady

LEMMA Invariant == Spec => []Inv
<1>1. Inv /\ [Next]_vars => Inv'
  BY Stutters, TypeStep, NumberedStep, ApartStep, ExplainedStep, SteadyStep, ControlStep,
     CleanStep, ReadyStep DEF Inv
<1> QED
  BY Starts, <1>1, PTL DEF Spec

\* A restore and its undo keep every variable in its set: the files of each set hold numbered
\* databases, and the intent and the process are in one of their states (boot.rs:157-441).
THEOREM TypeCorrect == Spec => []TypeOK
<1>1. Inv => TypeOK
  BY DEF Inv
<1> QED
  BY Invariant, <1>1, PTL

\* What boot opens, or the app runs on, is a whole database: its main file is there, no log of
\* another is beside it, and its own log is if that has commits (boot.rs:165-199), for any
\* number of restores, undos, crashes and failed calls.
THEOREM AlwaysOpensWhole == Spec => []OpensWhole
<1>1. Inv => OpensWhole
  BY OpenIs, IdsAre DEF OpensWhole, Whole, Main, Log, Live
<1> QED
  BY Invariant, <1>1, PTL

\* What a deletion cut short, the user let go.
LetGo == cut \subseteq {None} \cup dropped

LEMMA CutIsLetGo == Spec => []LetGo
<1>1. Init => LetGo
  BY DEF Init, LetGo
<1>2. LetGo /\ [Next]_vars => LetGo'
  <2> SUFFICES ASSUME LetGo, [Next]_vars
               PROVE  LetGo'
    OBVIOUS
  <2>1. CASE UNCHANGED vars
    BY <2>1 DEF LetGo, vars, ghosts
  <2>2. CASE DeleteUndo
    BY <2>2 DEF DeleteUndo, LetGo, First
  <2>3. CASE Next /\ ~DeleteUndo
    <3>1. cut' = cut /\ dropped \subseteq dropped'
      BY <2>3 DEF Next, Boot, Running, Failures, StartPlain, StartPending, MoveFile, Moved, Synced,
         NextPhase, PhasesDone, Open, OpenFails, BeginRollBack, MarkOpened, DeleteUndone,
         UndoneDeleted, RemoveIntent, Commit, Stage, StageSync, Request, RequestUndo, Close, Kill,
         HostCrash, MoveFails, FinishFails, ghosts
    <3> QED
      BY <3>1 DEF LetGo
  <2> QED
    BY <2>1, <2>2, <2>3
<1> QED
  BY <1>1, <1>2, PTL DEF Spec

\* Where what the app wrote is.
Somewhere(x) ==
    /\ \E s \in Sets : Main(dir, s) = x
    /\ x \in needs \ cut => \E s \in Sets : Log(dir, s) = x

LEMMA SomewhereIs ==
    ASSUME NEW x, NEW s \in Sets, NEW t \in Sets, Whole(dir, s, x) \/ Moving(dir, s, t, x)
    PROVE  Somewhere(x)
BY DEF Somewhere, Whole, Moving

LEMMA WritesAre ==
    ASSUME Inv, NEW x \in written \ dropped
    PROVE  Somewhere(x)
<1>1. /\ intent \in Intents /\ Explains(intent, dir) /\ x \in Ids
      /\ {"live", "staged", "undo", "undone"} = Sets
  BY Typed, ExplainedTyped, TypeIs DEF Inv, Histories, Sets
<1>2. ASSUME Settled(dir)
      PROVE  Somewhere(x)
  <2>1. x \in {Main(dir, "live"), Main(dir, "undo")}
    BY <1>2 DEF Settled, Only
  <2>2. Whole(dir, "live", x) \/ Whole(dir, "undo", x)
    BY <1>1, <1>2, <2>1, IdsAre DEF Settled
  <2> QED
    BY <1>1, <2>2, SomewhereIs
<1>3. CASE intent = NoIntent
  BY <1>1, <1>2, <1>3 DEF Explains, NoIntent
<1>4. CASE intent.action = "restore"
  <2>1. RestoreExplains(dir, intent.phase, intent.was, intent.goal)
    BY <1>1, <1>4 DEF Explains
  <2>2. intent.phase \in Phases
    BY <1>1, <1>4, IntentIs
  <2>3. CASE intent.phase \in {"opened", "rolled-back"}
    BY <1>2, <2>1, <2>3 DEF RestoreExplains
  <2>4. CASE intent.phase = "requested"
    <3>1. x = intent.was \/ x = Main(dir, "undo")
      BY <2>1, <2>4 DEF RestoreExplains, Only
    <3>2. Whole(dir, "live", x) \/ Whole(dir, "undo", x)
      BY <1>1, <2>1, <2>4, <3>1, IdsAre DEF RestoreExplains
    <3> QED
      BY <1>1, <3>2, SomewhereIs
  <2>5. CASE intent.phase \in {"aside-cleared", "live-aside", "swapped", "rolling-back",
                               "incoming-back"}
    <3>1. /\ x = intent.was
          /\ \/ Moving(dir, "live", "undo", x) \/ Whole(dir, "undo", x)
             \/ Moving(dir, "undo", "live", x)
      BY <2>1, <2>5 DEF RestoreExplains, Only
    <3> QED
      BY <1>1, <3>1, SomewhereIs
  <2> QED
    BY <2>2, <2>3, <2>4, <2>5 DEF Phases
<1>5. CASE intent.action = "undo"
  <2>1. UndoExplains(dir, intent.phase, intent.was, intent.goal)
    BY <1>1, <1>5 DEF Explains
  <2>2. intent.phase \in Phases
    BY <1>1, <1>5, IntentIs
  <2>3. CASE intent.phase = "rolled-back"
    BY <1>2, <2>1, <2>3 DEF UndoExplains
  <2>4. CASE intent.phase # "rolled-back"
    <3>1. x = intent.was \/ x = intent.goal
      BY <2>1 DEF UndoExplains, Only
    <3>2. \E s, t \in Sets : Whole(dir, s, x) \/ Moving(dir, s, t, x)
      BY <1>1, <2>1, <2>2, <2>4, <3>1 DEF UndoExplains, Phases
    <3> QED
      BY <3>2, SomewhereIs
  <2> QED
    BY <2>3, <2>4
<1> QED
  BY <1>1, <1>3, <1>4, <1>5, IntentIs

\* Whatever the app wrote to is in one of the sets, with its log if that has commits, until the
\* user lets it go: wherever a restore, an undo or a roll-back of one stops (boot.rs:1-3).
THEOREM WritesAlwaysSurvive == Spec => []WritesSurvive
<1>1. Inv /\ LetGo => WritesSurvive
  <2> SUFFICES ASSUME Inv, LetGo, NEW x \in written \ dropped
               PROVE  /\ \E s \in Sets : dir[<<s, "main">>] = x
                      /\ x \in needs => \E s \in Sets : dir[<<s, "wal">>] = x
    BY DEF WritesSurvive
  <2>1. Somewhere(x) /\ x \notin cut
    BY WritesAre, TypeIs, IdsAre DEF LetGo, Inv, Histories
  <2> QED
    BY <2>1 DEF Somewhere, Main, Log
<1> QED
  BY Invariant, CutIsLetGo, <1>1, PTL

\* After a request the app runs on what was asked for or, rolled back, on what there was before;
\* and what a restore replaced is in the undo copy, or was let go (boot.rs:214-441).
THEOREM RequestsAreKept == Spec => []RequestKept
<1>1. Inv => RequestKept
  <2> SUFFICES ASSUME Inv
               PROVE  RequestKept
    OBVIOUS
  <2>1. intent \in Intents /\ Explains(intent, dir)
    BY Typed, ExplainedTyped DEF Inv
  <2>2. CASE intent = NoIntent
    BY <2>2 DEF RequestKept, NoIntent
  <2>3. CASE intent.action = "restore"
    BY <2>1, <2>3 DEF Explains, RestoreExplains, RequestKept, Main, Live
  <2>4. CASE intent.action = "undo"
    BY <2>1, <2>4 DEF Explains, UndoExplains, Whole, RequestKept, Main, Live
  <2> QED
    BY <2>1, <2>2, <2>3, <2>4, IntentIs
<1> QED
  BY Invariant, <1>1, PTL


=============================================================================
