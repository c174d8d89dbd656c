-------------------------- MODULE ImportQueueProofs --------------------------
(***************************************************************************)
(* Proofs about ImportQueue for any jobs, workers, folders and limits, and *)
(* any number of crashes.  The invariant says how the rows, the workers    *)
(* and the folders fit together: what is claimed is still without a        *)
(* result, the lock is held by the worker that publishes, and a job that   *)
(* cools waits for its retry time or keeps its claim.                      *)
(***************************************************************************)
EXTENDS ImportQueue, TLAPS

\* The lock is the publishing worker's, and its folder one of Folders.
Locked ==
    \A w \in Workers :
        /\ at[w] \in {"publishing", "handed"} <=> serial = w
        /\ at[w] \in {"publishing", "handed"} => dir[w] \in 1 .. Folders

\* Only what was submitted is in any table, and in one of them.
Rows ==
    /\ queued \cup removed \cup cooling \subseteq accepted
    /\ checked \cap accepted = {}
    /\ \A j \in Jobs \ accepted : history[j] = None
    /\ NothingLost

\* A submission under way is the only one, and of new content.
Submitted ==
    /\ SameContentOnce
    /\ \A j, k \in checked : j = k
    /\ \A j \in checked, k \in queued : Content[j] # Content[k]

\* Stages in which a worker has nothing left to record.
Over == {"idle", "recorded", "backing off"}

\* What a worker has no result for has no result, and no retry time to come.
Underway ==
    \A w \in Workers :
        at[w] \notin Over => history[job[w]] = None /\ job[w] \notin waiting

\* The files of the job that is being published are there.
Files ==
    /\ FolderStaysFree
    /\ HandedOff
    /\ \A w \in Workers : at[w] = "handed" => <<job[w], dir[w]>> \in handed

\* A job that cools is not due, or keeps its claim.
Cool ==
    \A j \in cooling \cap queued :
        j \in waiting \/ \E w \in Workers : at[w] = "backing off" /\ job[w] = j

Inv ==
    TypeOK /\ Locked /\ OneWorkerPerJob /\ Rows /\ Submitted /\ Underway /\ Files /\ Cool

USE ImportQueueAssumption DEF worker

LEMMA InitInv == Init => Inv
<1> SUFFICES ASSUME Init PROVE Inv OBVIOUS
<1> USE DEF Init
<1>1. TypeOK
  <2>1. ahead \in [Jobs -> SUBSET queued] /\ stuck \in [Jobs -> 0 .. StuckLimit - 1]
    OBVIOUS
  <2>2. /\ at \in [Workers -> {"idle"} \cup Stages] /\ dir \in [Workers -> 0 .. Folders]
        /\ job \in [Workers -> Jobs \cup {None}]
    OBVIOUS
  <2>3. /\ history \in [Jobs -> {"Completed", "Failed", None}]
        /\ folder \in [1 .. Folders -> Jobs \cup {None}]
    OBVIOUS
  <2>4. \A w \in Workers : at[w] = "idle" /\ job[w] = None
    OBVIOUS
  <2>5. /\ queued \cup checked \cup active \cup accepted \cup removed \cup cooling = {}
        /\ held \cup waiting = {} /\ restarts \in 0 .. Restarts
    OBVIOUS
  <2> QED BY <2>1, <2>2, <2>3, <2>4, <2>5 DEF TypeOK
<1>2. Locked BY DEF Locked
<1>3. OneWorkerPerJob BY DEF OneWorkerPerJob, Busy
<1>4. Rows BY DEF Rows, NothingLost
<1>5. Submitted BY DEF Submitted, SameContentOnce
<1>6. Underway BY DEF Underway, Over
<1>7. Files BY DEF Files, FolderStaysFree, HandedOff
<1>8. Cool BY DEF Cool
<1> QED BY <1>1, <1>2, <1>3, <1>4, <1>5, <1>6, <1>7, <1>8 DEF Inv

(***************************************************************************)
(* What users, Arrs and clocks do moves no worker.                         *)
(***************************************************************************)
LEMMA WorkersStay ==
    ASSUME Inv, UNCHANGED <<worker, serial, active>>
    PROVE  Locked' /\ OneWorkerPerJob'
BY DEF Inv, Locked, OneWorkerPerJob, Busy

LEMMA CheckInv ==
    ASSUME Inv, NEW j \in Jobs, Check(j)
    PROVE  Inv'
<1> USE DEF Check, Inv, asked, tables, pause
<1>1. Locked' /\ OneWorkerPerJob' BY WorkersStay
<1>2. TypeOK' BY DEF TypeOK
<1>3. Rows' BY DEF Rows, NothingLost
<1>4. checked = {} BY DEF MaySubmit
<1>5. Submitted' BY <1>4 DEF Submitted, SameContentOnce
<1>6. Underway' /\ Cool' BY DEF Underway, Cool
<1>7. Files' BY DEF Files, FolderStaysFree, HandedOff
<1> QED BY <1>1, <1>2, <1>3, <1>5, <1>6, <1>7

LEMMA InsertInv ==
    ASSUME Inv, NEW j \in Jobs, Insert(j)
    PROVE  Inv'
<1> USE DEF Insert, Inv, pause
<1>1. Locked' /\ OneWorkerPerJob' BY WorkersStay
<1>2. TypeOK' BY DEF TypeOK
<1>3. Rows' BY DEF Rows, NothingLost
<1>4. Submitted' BY DEF Submitted, SameContentOnce
<1>5. Underway' BY DEF Underway
<1>6. Files' BY DEF Files, FolderStaysFree, HandedOff
<1>7. j \notin cooling BY DEF Rows
<1>8. Cool' BY <1>7 DEF Cool
<1> QED BY <1>1, <1>2, <1>3, <1>4, <1>5, <1>6, <1>8

\* A row that goes takes its columns with it.
LEMMA WithoutTyped ==
    ASSUME TypeOK, NEW j \in Jobs, Without(j)
    PROVE  /\ queued' \subseteq queued
           /\ held' \cup waiting' \subseteq queued'
           /\ ahead' \in [Jobs -> SUBSET queued']
           /\ stuck' \in [Jobs -> 0 .. StuckLimit - 1]
<1>1. \A k \in Jobs : ahead'[k] \subseteq queued'
  BY DEF TypeOK, Without
<1>2. 0 \in 0 .. StuckLimit - 1
  OBVIOUS
<1> QED BY <1>1, <1>2 DEF TypeOK, Without

LEMMA RefuseInv ==
    ASSUME Inv, NEW j \in Jobs, Refuse(j)
    PROVE  Inv'
<1> USE DEF Refuse, Inv, tables, pause
<1>1. Locked' /\ OneWorkerPerJob' BY WorkersStay
<1>2. TypeOK' BY DEF TypeOK
<1>3. Rows' BY DEF Rows, NothingLost
<1>4. Submitted' BY DEF Submitted, SameContentOnce
<1>5. Underway' /\ Cool' BY DEF Underway, Cool
<1>6. Files' BY DEF Files, FolderStaysFree, HandedOff
<1> QED BY <1>1, <1>2, <1>3, <1>4, <1>5, <1>6

LEMMA RemoveInv ==
    ASSUME Inv, NEW j \in Jobs, Remove(j)
    PROVE  Inv'
<1> USE DEF Remove, Inv, pause
<1>1. Locked' /\ OneWorkerPerJob' BY WorkersStay
<1>2. TypeOK' BY WithoutTyped DEF TypeOK
<1> USE DEF Without
<1>3. Rows' BY DEF Rows, NothingLost
<1>4. Submitted' BY DEF Submitted, SameContentOnce
<1>5. Underway' BY DEF Underway
<1>6. Files' BY DEF Files, FolderStaysFree, HandedOff
<1>7. Cool' BY DEF Cool
<1> QED BY <1>1, <1>2, <1>3, <1>4, <1>5, <1>6, <1>7

LEMMA HoldInv ==
    ASSUME Inv, NEW j \in Jobs, Hold(j)
    PROVE  Inv'
<1> USE DEF Hold, Inv, asked, pause
<1>1. Locked' /\ OneWorkerPerJob' BY WorkersStay
<1>2. TypeOK' BY DEF TypeOK
<1>3. Rows' BY DEF Rows, NothingLost
<1>4. Submitted' BY DEF Submitted, SameContentOnce
<1>5. Underway' /\ Cool' BY DEF Underway, Cool
<1>6. Files' BY DEF Files, FolderStaysFree, HandedOff
<1> QED BY <1>1, <1>2, <1>3, <1>4, <1>5, <1>6

LEMMA RetryDueInv ==
    ASSUME Inv, NEW j \in Jobs, RetryDue(j)
    PROVE  Inv'
<1> USE DEF RetryDue, Inv, asked, pause
<1>1. Locked' /\ OneWorkerPerJob' BY WorkersStay
<1>2. TypeOK' BY DEF TypeOK
<1>3. Rows' BY DEF Rows, NothingLost
<1>4. Submitted' BY DEF Submitted, SameContentOnce
<1>5. Underway' /\ Cool' BY DEF Underway, Cool
<1>6. Files' BY DEF Files, FolderStaysFree, HandedOff
<1> QED BY <1>1, <1>2, <1>3, <1>4, <1>5, <1>6

LEMMA CollectInv ==
    ASSUME Inv, NEW j \in Jobs, Collect(j)
    PROVE  Inv'
<1> USE DEF Collect, Inv, asked, pause, tables
<1>1. Locked' /\ OneWorkerPerJob' BY WorkersStay
<1>2. TypeOK' BY DEF TypeOK
<1>3. Rows' BY DEF Rows, NothingLost
<1>4. Submitted' BY DEF Submitted, SameContentOnce
<1>5. Underway' /\ Cool' BY DEF Underway, Cool
<1>6. FolderStaysFree' BY DEF Files, FolderStaysFree, worker
<1>7. HandedOff' BY DEF Files, HandedOff, worker
<1>8. ASSUME NEW w \in Workers, at[w] = "handed"
      PROVE  <<job[w], dir[w]>> \in handed'
  <2>1. job[w] # j BY <1>8 DEF Underway, Over
  <2> QED BY <1>8, <2>1 DEF Files
<1> QED BY <1>1, <1>2, <1>3, <1>4, <1>5, <1>6, <1>7, <1>8 DEF Files, worker

LEMMA DeleteFolderInv ==
    ASSUME Inv, NEW n \in 1 .. Folders, DeleteFolder(n)
    PROVE  Inv'
<1> USE DEF DeleteFolder, Inv, asked, pause
<1>1. Locked' /\ OneWorkerPerJob' BY WorkersStay
<1>2. TypeOK' BY DEF TypeOK
<1>3. Rows' BY DEF Rows, NothingLost
<1>4. Submitted' BY DEF Submitted, SameContentOnce
<1>5. Underway' /\ Cool' BY DEF Underway, Cool
<1>6. \A m \in 1 .. Folders : folder'[m] = folder[m] \/ folder'[m] = None BY DEF TypeOK
<1>7. FolderStaysFree' BY <1>6 DEF Files, FolderStaysFree, worker, Locked
<1>8. HandedOff' BY <1>6 DEF Files, HandedOff, worker
<1> QED BY <1>1, <1>2, <1>3, <1>4, <1>5, <1>7, <1>8 DEF Files, worker

\* The pause and the limit touch nothing else.
LEMMA SettingsInv ==
    ASSUME Inv, SetConcurrency \/ \E p \in Pauses : StorePause(p) \/ SetPaused(p)
    PROVE  Inv'
<1> USE DEF SetConcurrency, StorePause, SetPaused, Inv, asked, pause, tables
<1>1. Locked' /\ OneWorkerPerJob' BY WorkersStay
<1>2. TypeOK' BY DEF TypeOK
<1>3. Rows' BY DEF Rows, NothingLost
<1>4. Submitted' BY DEF Submitted, SameContentOnce
<1>5. Underway' /\ Cool' BY DEF Underway, Cool
<1>6. Files' BY DEF Files, FolderStaysFree, HandedOff
<1> QED BY <1>1, <1>2, <1>3, <1>4, <1>5, <1>6

LEMMA StutterInv ==
    ASSUME Inv, UNCHANGED vars
    PROVE  Inv'
<1> USE DEF Inv, vars, asked, pause, tables
<1>1. Locked' /\ OneWorkerPerJob' BY WorkersStay
<1>2. TypeOK' BY DEF TypeOK
<1>3. Rows' BY DEF Rows, NothingLost
<1>4. Submitted' BY DEF Submitted, SameContentOnce
<1>5. Underway' /\ Cool' BY DEF Underway, Cool
<1>6. Files' BY DEF Files, FolderStaysFree, HandedOff
<1> QED BY <1>1, <1>2, <1>3, <1>4, <1>5, <1>6

----------------------------------------------------------------------------
(***************************************************************************)
(* A worker's step moves that worker, and every part of the invariant      *)
(* follows from where it comes from and where it goes.                     *)
(***************************************************************************)
LEMMA Moves ==
    ASSUME TypeOK, NEW w \in Workers, NEW to, Goes(w, to)
    PROVE  /\ at'[w] = to
           /\ \A v \in Workers \ {w} : at'[v] = at[v]
           /\ UNCHANGED <<job, dir>>
BY DEF TypeOK, Goes

LEMMA ClaimsStay ==
    ASSUME TypeOK, OneWorkerPerJob, UNCHANGED <<job, active>>,
           \A v \in Workers : at'[v] = "idle" <=> at[v] = "idle"
    PROVE  OneWorkerPerJob'
BY DEF OneWorkerPerJob, Busy

LEMMA UnderwayStays ==
    ASSUME TypeOK, OneWorkerPerJob, Underway, NEW w \in Workers,
           at[w] # "idle",
           UNCHANGED job, \A v \in Workers \ {w} : at'[v] = at[v],
           at[w] \in Over => at'[w] \in Over,
           \A j \in Jobs \ {job[w]} : history'[j] = history[j],
           \A j \in Jobs \ {job[w]} : j \in waiting' => j \in waiting,
           at'[w] \in Over \/ UNCHANGED <<history, waiting>>
    PROVE  Underway'
<1> SUFFICES ASSUME NEW v \in Workers, at'[v] \notin Over
             PROVE  history'[job[v]] = None /\ job[v] \notin waiting'
  BY DEF Underway
<1>1. CASE v = w
  BY <1>1 DEF Underway
<1>2. CASE v # w
  <2>1. at[v] \notin Over /\ at[v] # "idle" /\ job[v] \in Jobs
    BY <1>2 DEF TypeOK, Over
  <2>2. job[v] # job[w]
    BY <1>2, <2>1 DEF OneWorkerPerJob, Busy
  <2> QED BY <2>1, <2>2 DEF Underway
<1> QED BY <1>1, <1>2

LEMMA CoolStays ==
    ASSUME TypeOK, OneWorkerPerJob, Cool, NEW w \in Workers,
           at[w] \notin {"idle", "backing off"},
           UNCHANGED job, \A v \in Workers \ {w} : at'[v] = at[v],
           queued' \subseteq queued,
           \A j \in queued' : j \in waiting => j \in waiting',
           \A j \in queued' : j \in cooling' =>
              \/ j \in cooling \/ j \in waiting'
              \/ j = job[w] /\ at'[w] = "backing off"
    PROVE  Cool'
<1> SUFFICES ASSUME NEW j \in cooling' \cap queued', j \notin waiting'
             PROVE  \E v \in Workers : at'[v] = "backing off" /\ job[v] = j
  BY DEF Cool
<1>1. CASE j \in cooling
  <2>1. PICK v \in Workers : at[v] = "backing off" /\ job[v] = j
    BY <1>1 DEF Cool
  <2> QED BY <2>1
<1>2. CASE j \notin cooling
  BY <1>2
<1> QED BY <1>1, <1>2

\* Of what is handed off, only what w was publishing can be in question.
LEMMA HandedOffStays ==
    ASSUME TypeOK, HandedOff, UNCHANGED <<folder, restarts, job, dir>>, handed' \subseteq handed,
           \A k \in Jobs : history[k] = "Completed" => history'[k] = "Completed",
           NEW w \in Workers, \A v \in Workers \ {w} : at'[v] = at[v],
           at[w] = "handed" => <<job[w], dir[w]>> \notin handed'
    PROVE  HandedOff'
<1>1. \A n \in 1 .. Folders : folder'[n] # None => history'[folder'[n]] = "Completed"
  <2> SUFFICES ASSUME NEW n \in 1 .. Folders, folder[n] # None
               PROVE  history'[folder[n]] = "Completed"
    OBVIOUS
  <2>1. folder[n] \in Jobs /\ history[folder[n]] = "Completed" BY DEF TypeOK, HandedOff
  <2> QED BY <2>1
<1>2. ASSUME restarts' = 0, NEW h \in handed', history'[h[1]] # "Completed"
      PROVE  \E v \in Workers : at'[v] = "handed" /\ h = <<job'[v], dir'[v]>>
  <2>1. h[1] \in Jobs /\ history[h[1]] # "Completed" BY <1>2 DEF TypeOK
  <2>2. PICK v \in Workers : at[v] = "handed" /\ h = <<job[v], dir[v]>>
    BY <1>2, <2>1 DEF HandedOff
  <2>3. v # w BY <1>2, <2>2
  <2> QED BY <2>2, <2>3
<1> QED BY <1>1, <1>2 DEF HandedOff

LEMMA FilesStay ==
    ASSUME TypeOK, Files, UNCHANGED <<folder, handed, history, restarts, job, dir>>, NEW w \in Workers,
           \A v \in Workers \ {w} : at'[v] = at[v],
           {at[w], at'[w]} \cap {"publishing", "handed"} = {}
    PROVE  Files'
<1>1. FolderStaysFree' BY DEF Files, FolderStaysFree
<1>2. HandedOff' BY HandedOffStays DEF Files
<1> QED BY <1>1, <1>2 DEF Files

LEMMA RowsStay ==
    ASSUME Rows, Submitted, UNCHANGED <<queued, history, asked>>, cooling' \subseteq cooling \cup queued
    PROVE  Rows' /\ Submitted'
BY DEF Rows, NothingLost, Submitted, SameContentOnce, asked

LEMMA LockedStays ==
    ASSUME TypeOK, Locked, UNCHANGED <<dir, serial>>, NEW w \in Workers,
           \A v \in Workers \ {w} : at'[v] = at[v],
           at'[w] \in {"publishing", "handed"} <=> at[w] \in {"publishing", "handed"}
    PROVE  Locked'
BY DEF Locked

LEMMA LockFreed ==
    ASSUME TypeOK, Locked, UNCHANGED dir, NEW w \in Workers,
           \A v \in Workers \ {w} : at'[v] = at[v],
           serial' = IF serial = w THEN None ELSE serial,
           at'[w] \notin {"publishing", "handed"}
    PROVE  Locked'
BY DEF Locked, TypeOK

LEMMA AttemptInv ==
    ASSUME Inv, NEW w \in Workers, Attempt(w)
    PROVE  Inv'
<1> USE DEF Attempt, tables, asked, pause, Inv
<1>1. \E to \in Outcomes : Goes(w, to) /\ at'[w] = to BY Moves
<1>2. /\ at[w] = "importing" /\ at'[w] \in Outcomes
      /\ \A v \in Workers \ {w} : at'[v] = at[v]
      /\ UNCHANGED <<job, dir>>
  BY <1>1, Moves
<1>3. TypeOK' BY <1>1, <1>2 DEF TypeOK, Stages, Outcomes, Goes
<1>4. Locked' BY <1>2, LockedStays DEF Outcomes
<1>5. OneWorkerPerJob' BY <1>2, ClaimsStay DEF Outcomes
<1>6. Rows' /\ Submitted' BY RowsStay DEF asked
<1>7. Underway' BY <1>2, UnderwayStays DEF Over
<1>8. Files' BY <1>2, FilesStay DEF Outcomes
<1>9. Cool' BY <1>2, CoolStays
<1> QED BY <1>1, <1>2, <1>3, <1>4, <1>5, <1>6, <1>7, <1>8, <1>9

LEMMA RecordRetryInv ==
    ASSUME Inv, NEW w \in Workers, RecordRetry(w)
    PROVE  Inv'
<1> USE DEF RecordRetry, RetryJob, pause, Inv
<1>1. /\ at[w] = "retry" /\ at'[w] = "recorded"
      /\ \A v \in Workers \ {w} : at'[v] = at[v]
      /\ UNCHANGED <<job, dir>> /\ job[w] \in Jobs
  BY Moves, ImportQueueAssumption DEF TypeOK
<1>2. TypeOK' BY <1>1 DEF TypeOK, Stages, Goes, asked
<1>3. Locked' BY <1>1, LockedStays
<1>4. OneWorkerPerJob' BY <1>1, ClaimsStay
<1>5. Rows' /\ Submitted' BY RowsStay
<1>6. Underway' BY <1>1, UnderwayStays DEF Over
<1>7. Files' BY <1>1, FilesStay
<1>8. /\ queued' \subseteq queued
      /\ \A j \in queued' : j \in waiting => j \in waiting'
      /\ \A j \in queued' : j \in cooling' => j \in cooling \/ j \in waiting'
  OBVIOUS
<1>9. Cool'
  <2>1. TypeOK /\ OneWorkerPerJob /\ Cool /\ UNCHANGED job BY <1>1
  <2>2. at[w] \notin {"idle", "backing off"} BY <1>1
  <2> HIDE DEF Inv, RecordRetry, RetryJob
  <2> QED BY <1>1, <1>8, <2>1, <2>2, CoolStays
<1> QED BY <1>1, <1>2, <1>3, <1>4, <1>5, <1>6, <1>7, <1>8, <1>9

LEMMA RecordStuckInv ==
    ASSUME Inv, NEW w \in Workers, RecordStuck(w)
    PROVE  Inv'
<1> USE DEF RecordStuck, pause, Inv
<1>1. /\ at[w] = "stuck" /\ at'[w] = "recorded"
      /\ \A v \in Workers \ {w} : at'[v] = at[v]
      /\ UNCHANGED <<job, dir>> /\ job[w] \in Jobs
  BY Moves, ImportQueueAssumption DEF TypeOK
<1>2. ahead' \in [Jobs -> SUBSET queued]
  <2>1. CASE job[w] \in queued
    <3>1. /\ ahead' = [k \in Jobs |-> IF k = job[w] THEN queued \ {job[w]} ELSE ahead[k] \ {job[w]}]
      BY <2>1 DEF RequeueStuck
    <3>2. \A k \in Jobs : ahead[k] \subseteq queued BY DEF TypeOK
    <3> QED BY <3>1, <3>2
  <2>2. CASE job[w] \notin queued BY <2>2 DEF TypeOK
  <2> QED BY <2>1, <2>2
<1>3. stuck' \in [Jobs -> 0 .. StuckLimit - 1] BY <1>1 DEF TypeOK, RequeueStuck, Fails
<1>4. /\ waiting' \subseteq waiting /\ job[w] \notin waiting
      /\ \A k \in queued : k \in waiting => k \in waiting'
  BY <1>1 DEF Underway, Over, RequeueStuck
<1>5. TypeOK'
  <2>1. at' \in [Workers -> {"idle"} \cup Stages] BY DEF TypeOK, Stages, Goes
  <2>2. \A v \in Workers : at'[v] = "idle" <=> job'[v] = None BY <1>1 DEF TypeOK
  <2> QED BY <1>1, <1>2, <1>3, <1>4, <2>1, <2>2 DEF TypeOK, asked
<1>6. Locked' BY <1>1, LockedStays
<1>7. OneWorkerPerJob' BY <1>1, ClaimsStay
<1>8. Rows' /\ Submitted' BY RowsStay
<1>9. Underway' BY <1>1, <1>4, UnderwayStays DEF Over
<1>10. Files' BY <1>1, FilesStay
<1>11. Cool' BY <1>1, <1>4, CoolStays
<1> QED BY <1>1, <1>2, <1>3, <1>4, <1>5, <1>6, <1>7, <1>8, <1>9, <1>10, <1>11

\* What finish_job does to the tables.
LEMMA FinishKeeps ==
    ASSUME TypeOK, Rows, Submitted, NEW j \in Jobs, NEW status \in {"Completed", "Failed"},
           Finish(j, status), UNCHANGED <<asked, cooling>>
    PROVE  /\ queued' \subseteq queued /\ held' \cup waiting' \subseteq queued'
           /\ waiting' \subseteq waiting
           /\ \A k \in queued' : k \in waiting => k \in waiting'
           /\ ahead' \in [Jobs -> SUBSET queued']
           /\ stuck' \in [Jobs -> 0 .. StuckLimit - 1]
           /\ history' \in [Jobs -> {"Completed", "Failed", None}]
           /\ \A k \in Jobs \ {j} : history'[k] = history[k]
           /\ j \in queued => history[j] = None /\ history'[j] = status
           /\ j \notin queued => history' = history
           /\ Rows' /\ Submitted'
<1>1. CASE j \in queued
  <2>1. Without(j) /\ history' = [history EXCEPT ![j] = status]
    BY <1>1 DEF Finish
  <2>2. history[j] = None
    BY <1>1 DEF Rows, NothingLost
  <2>3. /\ \A k \in Jobs \ {j} : history'[k] = history[k]
        /\ history'[j] = status /\ status # None
        /\ history' \in [Jobs -> {"Completed", "Failed", None}]
    BY <2>1 DEF TypeOK
  <2>4. Rows'
    BY <1>1, <2>1, <2>2, <2>3 DEF Rows, NothingLost, Without, asked
  <2>5. Submitted'
    BY <2>1 DEF Submitted, SameContentOnce, Without, asked
  <2>6. waiting' \subseteq waiting /\ \A k \in queued' : k \in waiting => k \in waiting'
    BY <2>1 DEF Without
  <2> QED BY <1>1, <2>1, <2>2, <2>3, <2>4, <2>5, <2>6, WithoutTyped
<1>2. CASE j \notin queued
  <2>1. UNCHANGED <<queued, ahead, held, waiting, stuck, history>>
    BY <1>2 DEF Finish
  <2> QED BY <1>2, <2>1, RowsStay DEF TypeOK
<1> QED BY <1>1, <1>2

LEMMA RecordFailedInv ==
    ASSUME Inv, NEW w \in Workers, RecordFailed(w)
    PROVE  Inv'
<1> USE DEF RecordFailed, pause, Inv
<1>1. at[w] \in {"failed", "panic", "stuck", "done"} BY DEF Fails
<1>2. /\ at'[w] = "recorded"
      /\ \A v \in Workers \ {w} : at'[v] = at[v]
      /\ UNCHANGED <<job, dir>> /\ job[w] \in Jobs
  BY <1>1, Moves, ImportQueueAssumption DEF TypeOK
<1>3. /\ queued' \subseteq queued /\ held' \cup waiting' \subseteq queued'
      /\ waiting' \subseteq waiting
      /\ \A k \in queued' : k \in waiting => k \in waiting'
      /\ ahead' \in [Jobs -> SUBSET queued']
      /\ stuck' \in [Jobs -> 0 .. StuckLimit - 1]
      /\ history' \in [Jobs -> {"Completed", "Failed", None}]
      /\ \A k \in Jobs \ {job[w]} : history'[k] = history[k]
      /\ Rows' /\ Submitted'
  BY <1>2, FinishKeeps
<1>4. \A k \in Jobs : history[k] = "Completed" => history'[k] = "Completed"
  BY <1>2, FinishKeeps DEF TypeOK
<1>5. TypeOK' BY <1>2, <1>3 DEF TypeOK, Stages, Goes, asked
<1>6. Locked' BY <1>1, <1>2, LockedStays
<1>7. OneWorkerPerJob' BY <1>1, <1>2, ClaimsStay
<1>8. Underway' BY <1>1, <1>2, <1>3, UnderwayStays DEF Over
<1>9. FolderStaysFree' BY <1>2 DEF Files, FolderStaysFree
<1>10. HandedOff' BY <1>1, <1>2, <1>4, HandedOffStays DEF Files
<1>11. Files' BY <1>2, <1>9, <1>10 DEF Files
<1>12. Cool' BY <1>1, <1>2, <1>3, CoolStays
<1> QED BY <1>1, <1>2, <1>3, <1>4, <1>5, <1>6, <1>7, <1>8, <1>9, <1>10, <1>11, <1>12

LEMMA PickFolderInv ==
    ASSUME Inv, NEW w \in Workers, PickFolder(w)
    PROVE  Inv'
<1> USE DEF PickFolder, tables, asked, pause, Inv
<1>1. PICK n \in 1 .. Folders : /\ Free(n) /\ dir' = [dir EXCEPT ![w] = n]
  BY DEF FreeFolders
<1>2. /\ at[w] = "done" /\ at'[w] = "publishing" /\ dir'[w] = n
      /\ \A v \in Workers \ {w} : at'[v] = at[v] /\ dir'[v] = dir[v]
      /\ UNCHANGED job /\ job[w] \in Jobs
  BY <1>1, ImportQueueAssumption DEF TypeOK
<1>3. \A v \in Workers \ {w} : at[v] \notin {"publishing", "handed"}
  BY ImportQueueAssumption DEF Locked
<1>4. TypeOK'
  <2>1. dir' \in [Workers -> 0 .. Folders] BY <1>1, <1>2 DEF TypeOK
  <2>2. at' \in [Workers -> {"idle"} \cup Stages] BY DEF TypeOK, Stages
  <2>3. serial' \in Workers \cup {None} BY DEF SerialOf
  <2>4. \A v \in Workers : at'[v] = "idle" <=> job'[v] = None BY <1>2 DEF TypeOK
  <2> QED BY <2>1, <2>2, <2>3, <2>4 DEF TypeOK
<1>5. Locked' BY <1>2, <1>3 DEF Locked, SerialOf
<1>6. OneWorkerPerJob' BY <1>2, ClaimsStay
<1>7. Rows' /\ Submitted' BY RowsStay DEF asked
<1>8. Underway' BY <1>2, UnderwayStays DEF Over
<1>9. FolderStaysFree' BY <1>1, <1>2, <1>3 DEF Free, FolderStaysFree
<1>10. HandedOff' BY <1>2, <1>3 DEF Files, HandedOff
<1>11. Files' BY <1>2, <1>3, <1>9, <1>10 DEF Files
<1>12. Cool' BY <1>2, CoolStays
<1> QED BY <1>1, <1>2, <1>3, <1>4, <1>5, <1>6, <1>7, <1>8, <1>9, <1>10, <1>11, <1>12

LEMMA HandOffInv ==
    ASSUME Inv, NEW w \in Workers, HandOff(w)
    PROVE  Inv'
<1> USE DEF HandOff, tables, asked, pause, Inv
<1>1. /\ at[w] = "publishing" /\ at'[w] = "handed"
      /\ \A v \in Workers \ {w} : at'[v] = at[v]
      /\ UNCHANGED <<job, dir>> /\ job[w] \in Jobs
  BY Moves, ImportQueueAssumption DEF TypeOK
<1>2. dir[w] \in 1 .. Folders /\ serial = w BY <1>1 DEF Locked
<1>3. \A v \in Workers \ {w} : at[v] \notin {"publishing", "handed"} BY <1>2 DEF Locked
<1>4. TypeOK'
  <2>1. at' \in [Workers -> {"idle"} \cup Stages] BY DEF TypeOK, Stages, Goes
  <2>2. handed' \subseteq Jobs \X (1 .. Folders) BY <1>1, <1>2 DEF TypeOK
  <2>3. \A v \in Workers : at'[v] = "idle" <=> job'[v] = None BY <1>1 DEF TypeOK
  <2> QED BY <1>1, <2>1, <2>2, <2>3 DEF TypeOK
<1>5. Locked' BY <1>1, LockedStays
<1>6. OneWorkerPerJob' BY <1>1, ClaimsStay
<1>7. Rows' /\ Submitted' BY RowsStay DEF asked
<1>8. Underway' BY <1>1, UnderwayStays DEF Over
<1>9. FolderStaysFree' BY <1>1, <1>3 DEF Files, FolderStaysFree
<1>10. HandedOff' BY <1>1, <1>3 DEF Files, HandedOff
<1>11. Files' BY <1>1, <1>3, <1>9, <1>10 DEF Files
<1>12. Cool' BY <1>1, CoolStays
<1> QED BY <1>1, <1>2, <1>3, <1>4, <1>5, <1>6, <1>7, <1>8, <1>9, <1>10, <1>11, <1>12

LEMMA PublishInv ==
    ASSUME Inv, NEW w \in Workers, Publish(w)
    PROVE  Inv'
<1> USE DEF Publish, pause, Inv
<1>1. /\ at[w] = "handed" /\ at'[w] = "recorded"
      /\ \A v \in Workers \ {w} : at'[v] = at[v]
      /\ UNCHANGED <<job, dir>> /\ job[w] \in Jobs
  BY Moves, ImportQueueAssumption DEF TypeOK
<1>2. dir[w] \in 1 .. Folders /\ serial = w BY <1>1 DEF Locked
<1>3. \A v \in Workers \ {w} : at[v] \notin {"publishing", "handed"} BY <1>2 DEF Locked
<1>4. /\ queued' \subseteq queued /\ held' \cup waiting' \subseteq queued'
      /\ waiting' \subseteq waiting
      /\ \A k \in queued' : k \in waiting => k \in waiting'
      /\ ahead' \in [Jobs -> SUBSET queued']
      /\ stuck' \in [Jobs -> 0 .. StuckLimit - 1]
      /\ history' \in [Jobs -> {"Completed", "Failed", None}]
      /\ \A k \in Jobs \ {job[w]} : history'[k] = history[k]
      /\ Rows' /\ Submitted'
  BY <1>1, FinishKeeps
<1>5. /\ \A k \in Jobs : history[k] = "Completed" => history'[k] = "Completed"
      /\ job[w] \in queued => history'[job[w]] = "Completed"
  BY <1>1, FinishKeeps DEF TypeOK
<1>6. TypeOK'
  <2>1. at' \in [Workers -> {"idle"} \cup Stages] BY DEF TypeOK, Stages, Goes
  <2>2. handed' \subseteq Jobs \X (1 .. Folders) BY DEF TypeOK
  <2>3. \A v \in Workers : at'[v] = "idle" <=> job'[v] = None BY <1>1 DEF TypeOK
  <2>4. folder' \in [1 .. Folders -> Jobs \cup {None}] BY <1>1, <1>2 DEF TypeOK
  <2> QED BY <1>1, <1>4, <2>1, <2>2, <2>3, <2>4 DEF TypeOK, asked
<1>7. Locked' BY <1>1, <1>2, <1>3, ImportQueueAssumption DEF Locked
<1>8. OneWorkerPerJob' BY <1>1, ClaimsStay
<1>9. Underway' BY <1>1, <1>4, UnderwayStays DEF Over
<1>10. FolderStaysFree' BY <1>1, <1>3 DEF FolderStaysFree
<1>11. \A n \in 1 .. Folders : folder'[n] # None => history'[folder'[n]] = "Completed"
  BY <1>2, <1>5 DEF TypeOK, Files, HandedOff
<1>12. restarts = 0 => \A h \in handed' : history'[h[1]] = "Completed"
  BY <1>1, <1>2, <1>3, <1>5 DEF TypeOK, Files, HandedOff
<1>13. Files' BY <1>1, <1>3, <1>10, <1>11, <1>12 DEF Files, HandedOff
<1>14. Cool' BY <1>1, <1>4, CoolStays
<1> QED BY <1>1, <1>2, <1>3, <1>4, <1>5, <1>6, <1>7, <1>8, <1>9, <1>10, <1>11, <1>12, <1>13, <1>14

LEMMA RelentInv ==
    ASSUME Inv, NEW w \in Workers, Relent(w)
    PROVE  Inv'
<1> USE DEF Relent, RetryJob, pause, Inv
<1>1. at[w] \in {"done", "failed", "stuck", "publishing", "handed"} OBVIOUS
<1>2. /\ at'[w] = "recorded"
      /\ \A v \in Workers \ {w} : at'[v] = at[v]
      /\ UNCHANGED <<job, dir>> /\ job[w] \in Jobs
  BY <1>1, Moves, ImportQueueAssumption DEF TypeOK
<1>3. TypeOK' BY <1>1, <1>2 DEF TypeOK, Stages, Goes, asked
<1>4. Locked' BY <1>1, <1>2, LockFreed
<1>5. OneWorkerPerJob' BY <1>1, <1>2, ClaimsStay
<1>6. Rows' /\ Submitted' BY RowsStay
<1>7. Underway' BY <1>1, <1>2, UnderwayStays DEF Over
<1>8. FolderStaysFree' BY <1>2 DEF Files, FolderStaysFree
<1>9. HandedOff' BY <1>1, <1>2, HandedOffStays DEF Files
<1>10. \A v \in Workers \ {w} : at[v] = "handed" => job[v] # job[w]
  BY <1>1 DEF OneWorkerPerJob, Busy
<1>11. Files' BY <1>1, <1>2, <1>8, <1>9, <1>10 DEF Files
<1>12. /\ queued' \subseteq queued
       /\ \A j \in queued' : j \in waiting => j \in waiting'
       /\ \A j \in queued' : j \in cooling' => j \in cooling \/ j \in waiting'
  OBVIOUS
<1>13. Cool'
  <2>1. TypeOK /\ OneWorkerPerJob /\ Cool /\ UNCHANGED job BY <1>2
  <2>2. at[w] \notin {"idle", "backing off"} BY <1>1
  <2> HIDE DEF Inv, Relent, RetryJob
  <2> QED BY <1>2, <1>12, <2>1, <2>2, CoolStays
<1> QED BY <1>1, <1>2, <1>3, <1>4, <1>5, <1>6, <1>7, <1>8, <1>9, <1>10, <1>11, <1>12, <1>13

LEMMA RecordNothingInv ==
    ASSUME Inv, NEW w \in Workers, RecordNothing(w)
    PROVE  Inv'
<1> USE DEF RecordNothing, Unrecorded, tables, pause, Inv
<1>1. at[w] \in Outcomes \cup {"publishing", "handed"} OBVIOUS
<1>2. /\ at'[w] = "backing off"
      /\ \A v \in Workers \ {w} : at'[v] = at[v]
      /\ UNCHANGED <<job, dir>> /\ job[w] \in Jobs
  BY <1>1, Moves, ImportQueueAssumption DEF TypeOK, Outcomes
<1>3. TypeOK' BY <1>1, <1>2 DEF TypeOK, Stages, Goes, asked
<1>4. Locked' BY <1>1, <1>2, LockFreed
<1>5. OneWorkerPerJob' BY <1>1, <1>2, ClaimsStay DEF Outcomes
<1>6. Rows' /\ Submitted' BY RowsStay
<1>7. Underway' BY <1>1, <1>2, UnderwayStays DEF Over, Outcomes
<1>8. FolderStaysFree' BY <1>2 DEF Files, FolderStaysFree
<1>9. HandedOff' BY <1>1, <1>2, HandedOffStays DEF Files
<1>10. \A v \in Workers \ {w} : at[v] = "handed" => job[v] # job[w]
  BY <1>1 DEF OneWorkerPerJob, Busy, Outcomes
<1>11. Files' BY <1>1, <1>2, <1>8, <1>9, <1>10 DEF Files
<1>12. Cool' BY <1>1, <1>2, CoolStays DEF Outcomes
<1> QED BY <1>1, <1>2, <1>3, <1>4, <1>5, <1>6, <1>7, <1>8, <1>9, <1>10, <1>11, <1>12

LEMMA BackedOffInv ==
    ASSUME Inv, NEW w \in Workers, BackedOff(w)
    PROVE  Inv'
<1> USE DEF BackedOff, tables, asked, pause, Inv
<1>1. /\ at[w] = "backing off" /\ at'[w] = "recorded"
      /\ \A v \in Workers \ {w} : at'[v] = at[v]
      /\ UNCHANGED <<job, dir>> /\ job[w] \in Jobs
  BY Moves, ImportQueueAssumption DEF TypeOK
<1>2. TypeOK' BY <1>1 DEF TypeOK, Stages, Goes
<1>3. Locked' BY <1>1, LockedStays
<1>4. OneWorkerPerJob' BY <1>1, ClaimsStay
<1>5. Rows' /\ Submitted' BY RowsStay DEF asked
<1>6. Underway' BY <1>1, UnderwayStays DEF Over
<1>7. Files' BY <1>1, FilesStay
<1>8. Cool'
  <2> SUFFICES ASSUME NEW k \in cooling', k \in queued, k \notin waiting
               PROVE  \E v \in Workers : at'[v] = "backing off" /\ job[v] = k
    BY <1>1 DEF Cool
  <2>1. k \in cooling /\ k # job[w] OBVIOUS
  <2>2. PICK v \in Workers : at[v] = "backing off" /\ job[v] = k BY <2>1 DEF Cool
  <2> QED BY <1>1, <2>1, <2>2
<1> QED BY <1>1, <1>2, <1>3, <1>4, <1>5, <1>6, <1>7, <1>8

LEMMA EndClaimInv ==
    ASSUME Inv, NEW w \in Workers, EndClaim(w)
    PROVE  Inv'
<1> USE DEF EndClaim, tables, asked, pause, Inv
<1>1. /\ at[w] = "recorded" /\ at'[w] = "idle" /\ job'[w] = None /\ dir'[w] = 0
      /\ \A v \in Workers \ {w} : at'[v] = at[v] /\ job'[v] = job[v] /\ dir'[v] = dir[v]
  BY DEF TypeOK
<1>2. TypeOK' BY <1>1 DEF TypeOK
<1>3. Locked' BY <1>1 DEF Locked
<1>4. Busy' = Busy \ {w} /\ w \in Busy BY <1>1 DEF Busy
<1>5. OneWorkerPerJob' BY <1>1, <1>4 DEF OneWorkerPerJob, Busy
<1>6. Rows' /\ Submitted' BY RowsStay DEF asked
<1>7. Underway'
  <2> SUFFICES ASSUME NEW v \in Workers, at'[v] \notin Over
               PROVE  history[job'[v]] = None /\ job'[v] \notin waiting
    BY DEF Underway
  <2>1. v # w BY <1>1 DEF Over
  <2> QED BY <1>1, <2>1 DEF Underway
<1>8. FolderStaysFree' BY <1>1 DEF Files, FolderStaysFree
<1>9. HandedOff' BY <1>1 DEF Files, HandedOff
<1>10. Files' BY <1>1, <1>8, <1>9 DEF Files
<1>11. Cool'
  <2> SUFFICES ASSUME NEW k \in cooling, k \in queued, k \notin waiting
               PROVE  \E v \in Workers : at'[v] = "backing off" /\ job'[v] = k
    BY DEF Cool
  <2>1. PICK v \in Workers : at[v] = "backing off" /\ job[v] = k BY DEF Cool
  <2> QED BY <1>1, <2>1
<1> QED BY <1>1, <1>2, <1>3, <1>4, <1>5, <1>6, <1>7, <1>8, <1>9, <1>10, <1>11

LEMMA ClaimInv ==
    ASSUME Inv, NEW w \in Workers, NEW j \in Jobs, Claim(w, j)
    PROVE  Inv'
<1> USE DEF Claim, tables, asked, pause, Inv
<1>1. /\ at[w] = "idle" /\ at'[w] = "importing" /\ job'[w] = j
      /\ \A v \in Workers \ {w} : at'[v] = at[v] /\ job'[v] = job[v]
      /\ UNCHANGED dir /\ j \in queued \ active
  BY DEF TypeOK, Busy, Candidates, NextJobs, Due
<1>2. TypeOK' BY <1>1, ImportQueueAssumption DEF TypeOK, Stages
<1>3. Locked' BY <1>1 DEF Locked
<1>4. Busy' = Busy \cup {w} /\ w \notin Busy BY <1>1 DEF Busy
<1>5. OneWorkerPerJob' BY <1>1, <1>4 DEF OneWorkerPerJob, Busy
<1>6. Rows' /\ Submitted' BY RowsStay DEF asked
<1>7. history[j] = None /\ j \notin waiting
  BY <1>1 DEF Rows, NothingLost, Candidates, NextJobs, Due
<1>8. Underway'
  <2> SUFFICES ASSUME NEW v \in Workers, at'[v] \notin Over
               PROVE  history[job'[v]] = None /\ job'[v] \notin waiting
    BY DEF Underway
  <2>1. CASE v = w BY <1>1, <1>7, <2>1
  <2>2. CASE v # w BY <1>1, <2>2 DEF Underway
  <2> QED BY <2>1, <2>2
<1>9. FolderStaysFree' BY <1>1 DEF Files, FolderStaysFree
<1>10. HandedOff' BY <1>1 DEF Files, HandedOff
<1>11. Files' BY <1>1, <1>9, <1>10 DEF Files
<1>12. Cool'
  <2> SUFFICES ASSUME NEW k \in cooling, k \in queued, k \notin waiting
               PROVE  \E v \in Workers : at'[v] = "backing off" /\ job'[v] = k
    BY DEF Cool
  <2>1. PICK v \in Workers : at[v] = "backing off" /\ job[v] = k BY DEF Cool
  <2> QED BY <1>1, <2>1
<1> QED BY <1>1, <1>2, <1>3, <1>4, <1>5, <1>6, <1>7, <1>8, <1>9, <1>10, <1>11, <1>12

LEMMA CrashInv ==
    ASSUME Inv, Crash
    PROVE  Inv'
<1> USE DEF Crash, tables, Inv
<1>1. TypeOK' BY ImportQueueAssumption DEF TypeOK
<1>2. Locked' BY ImportQueueAssumption DEF Locked
<1>3. OneWorkerPerJob' BY DEF OneWorkerPerJob, Busy
<1>4. waiting \subseteq accepted BY DEF TypeOK, Rows
<1>5. Rows' BY <1>4 DEF Rows, NothingLost
<1>6. Submitted' BY DEF Submitted, SameContentOnce
<1>7. Underway' /\ Cool' BY DEF Underway, Cool, Over
<1>8. restarts' # 0 BY DEF TypeOK
<1>9. Files' BY <1>8 DEF Files, FolderStaysFree, HandedOff
<1> QED BY <1>1, <1>2, <1>3, <1>4, <1>5, <1>6, <1>7, <1>8, <1>9

LEMMA NextInv == Inv /\ [Next]_vars => Inv'
<1> SUFFICES ASSUME Inv, [Next]_vars PROVE Inv' OBVIOUS
<1>1. CASE UNCHANGED vars BY <1>1, StutterInv
<1>2. ASSUME NEW j \in Jobs,
             \/ Check(j) \/ Insert(j) \/ Refuse(j) \/ Remove(j) \/ Hold(j) \/ Collect(j) \/ RetryDue(j)
      PROVE  Inv'
  BY <1>2, CheckInv, InsertInv, RefuseInv, RemoveInv, HoldInv, CollectInv, RetryDueInv
<1>3. ASSUME NEW j \in Jobs, NEW w \in Workers, Claim(w, j)
      PROVE  Inv'
  BY <1>3, ClaimInv
<1>4. CASE SetConcurrency \/ \E p \in Pauses : StorePause(p) \/ SetPaused(p)
  BY <1>4, SettingsInv
<1>5. ASSUME NEW n \in 1 .. Folders, DeleteFolder(n)
      PROVE  Inv'
  BY <1>5, DeleteFolderInv
<1>6. ASSUME NEW w \in Workers, Works(w)
      PROVE  Inv'
  BY <1>6, AttemptInv, RecordFailedInv, RecordRetryInv, RecordStuckInv, PickFolderInv,
     HandOffInv, PublishInv, RelentInv, RecordNothingInv, EndClaimInv, BackedOffInv DEF Works
<1>7. CASE Crash BY <1>7, CrashInv
<1> QED BY <1>1, <1>2, <1>3, <1>4, <1>5, <1>6, <1>7 DEF Next

\* The invariant of every reachable state.
THEOREM Invariance == Spec => []Inv
BY InitInv, NextInv, PTL DEF Spec

\* The tables, the workers and the lock keep their types, and no row is left at
\* the limit of stalls.
THEOREM TypeCorrect == Spec => []TypeOK
<1>1. Inv => TypeOK BY DEF Inv
<1> QED BY <1>1, Invariance, PTL

\* service.rs: no job is claimed by two workers, however many there are.
THEOREM ClaimedOnce == Spec => []OneWorkerPerJob
<1>1. Inv => OneWorkerPerJob BY DEF Inv
<1> QED BY <1>1, Invariance, PTL

\* service.rs and db/src/lib.rs: a job that was accepted is queued, or has one
\* result, or was removed, whatever fails and crashes.
THEOREM NoJobLost == Spec => []NothingLost
<1>1. Inv => NothingLost BY DEF Inv, Rows
<1> QED BY <1>1, Invariance, PTL

\* service.rs, enqueue: the same content is queued once.
THEOREM QueuedOnce == Spec => []SameContentOnce
<1>1. Inv => SameContentOnce BY DEF Inv, Submitted
<1> QED BY <1>1, Invariance, PTL

\* Both: service.rs imports no job and no content twice at once.
THEOREM ImportedOnce == Spec => []NothingTwice
<1>1. NothingTwice <=> OneWorkerPerJob /\ SameContentOnce BY DEF NothingTwice
<1> QED BY <1>1, ClaimedOnce, QueuedOnce, PTL

\* service.rs, publish: the folder found free stays free until the write.
THEOREM FolderKept == Spec => []FolderStaysFree
<1>1. Inv => FolderStaysFree BY DEF Inv, Files
<1> QED BY <1>1, Invariance, PTL

\* service.rs, publish: what was handed off is a completed job's, or on its way.
THEOREM FilesHandedOff == Spec => []HandedOff
<1>1. Inv => HandedOff BY DEF Inv, Files
<1> QED BY <1>1, Invariance, PTL

\* service.rs, process: a failed job is not claimed again before its backoff.
THEOREM BackoffKept == Spec => NotRerunAtOnce
<1> DEFINE Step == \A w \in Workers : job[w] = None /\ job'[w] # None => job'[w] \notin cooling
<1>1. Inv /\ [Next]_vars => [Step]_vars
  <2> SUFFICES ASSUME Inv, Next PROVE Step OBVIOUS
  <2>1. CASE UNCHANGED job BY <2>1
  <2>2. ASSUME NEW v \in Workers, NEW j \in Jobs, Claim(v, j)
        PROVE  Step
    <3>1. /\ j \in queued /\ j \notin waiting /\ j \notin active
          /\ \A w \in Workers \ {v} : job'[w] = job[w]
          /\ job'[v] = j
      BY <2>2 DEF Claim, Candidates, NextJobs, Due, Inv, TypeOK
    <3>2. \A w \in Workers : at[w] = "backing off" => job[w] # j
      BY <3>1 DEF Inv, OneWorkerPerJob, Busy
    <3> QED BY <3>1, <3>2 DEF Inv, Cool
  <2>3. ASSUME NEW v \in Workers, EndClaim(v)
        PROVE  Step
    BY <2>3 DEF EndClaim, Inv, TypeOK
  <2>4. CASE Crash
    BY <2>4 DEF Crash
  <2> QED
    BY <2>1, <2>2, <2>3, <2>4 DEF Next, Works, Check, Insert, Refuse, Remove, Hold, Collect, RetryDue,
       SetConcurrency, StorePause, SetPaused, DeleteFolder, Attempt, RecordFailed, RecordRetry,
       RecordStuck, PickFolder, HandOff, Publish, Relent, RecordNothing, BackedOff, Goes, worker
<1> QED BY <1>1, Invariance, PTL DEF Spec, NotRerunAtOnce

\* service.rs, publish: a job completes only with its files handed off.
THEOREM CompletedIsHandedOff == Spec => CompletesHandedOff
<1> DEFINE Step == \A j \in Jobs : history[j] # "Completed" /\ history'[j] = "Completed" =>
                      \E n \in 1 .. Folders : folder'[n] = j /\ <<j, n>> \in handed'
<1>1. Inv /\ [Next]_vars => [Step]_vars
  <2> SUFFICES ASSUME Inv, Next PROVE Step OBVIOUS
  <2>1. CASE UNCHANGED history BY <2>1
  <2>2. ASSUME NEW w \in Workers, RecordFailed(w)
        PROVE  Step
    BY <2>2 DEF RecordFailed, Finish, Inv, TypeOK
  <2>3. ASSUME NEW w \in Workers, Publish(w)
        PROVE  Step
    <3>1. dir[w] \in 1 .. Folders /\ <<job[w], dir[w]>> \in handed
      BY <2>3 DEF Publish, Inv, Locked, Files
    <3> SUFFICES ASSUME NEW j \in Jobs, history[j] # "Completed", history'[j] = "Completed"
                 PROVE  \E n \in 1 .. Folders : folder'[n] = j /\ <<j, n>> \in handed'
      OBVIOUS
    <3>2. job[w] \in queued /\ job[w] = j
      BY <2>3 DEF Publish, Finish, Inv, TypeOK
    <3>3. folder'[dir[w]] = job[w] /\ handed' = handed
      BY <2>3, <3>1, <3>2 DEF Publish, Inv, TypeOK
    <3> QED BY <3>1, <3>2, <3>3
  <2> QED
    BY <2>1, <2>2, <2>3 DEF Next, Works, Check, Insert, Refuse, Remove, Hold, Collect, RetryDue,
       SetConcurrency, StorePause, SetPaused, DeleteFolder, Attempt, RecordRetry,
       RecordStuck, PickFolder, HandOff, Relent, RetryJob, RecordNothing, EndClaim, BackedOff,
       Claim, Crash, tables
<1> QED BY <1>1, Invariance, PTL DEF Spec, CompletesHandedOff
=============================================================================
