----------------------------- MODULE MoveProofs -----------------------------
(***************************************************************************)
(* Proofs about the two moves of data: of the database to PostgreSQL       *)
(* (Migration), for any number of keys, upgrades and mishaps, and of the   *)
(* library to its other form (Conversion), for any number of names,        *)
(* requests and surprises.                                                 *)
(***************************************************************************)
EXTENDS Migration, Conversion, TLAPS
----------------------------------------------------------------------------
(***************************************************************************)
(* The inductive invariant.                                                *)
(***************************************************************************)
AtTheSwitch == {"switching", "applied", "equal"}
InSync == {"syncing", "cutover"}

\* Once the boot file may say so, PostgreSQL is the one; SQLite takes no writes any more.
OneWay ==
    /\ visible \in atRisk
    /\ \A f \in atRisk : f.state = "switched" => visible.state = "switched"
    /\ visible.state = "switched" \/ retired => behind = {} /\ phase \in {"down", "postgres"}
    /\ phase = "postgres" => visible.state = "switched" /\ atRisk = {visible}
    /\ moved => retired \/ (visible.state = "switched" /\ atRisk = {visible})
    /\ phase = "equal" => behind = {}

\* What the worker, the calls and the switch are about is the move in memory.
InStep ==
    /\ phase = "sqlite" /\ work # "none" => file.state \in {"copying", "syncing"}
    /\ phase = "sqlite" /\ work \in {"copying", "copied", "compared"} => file.state = "copying"
    /\ op # "idle" => phase = "sqlite" /\ file.state = "none"
    /\ phase \in AtTheSwitch => file.state = "cutover"
    /\ phase = "env" => file = NoMove

\* Writes are logged while the move goes on, and only then.
Logged ==
    /\ phase = "sqlite" /\ file.state # "none" => capture = "on"
    /\ op = "starting" => capture = "on"
    /\ phase \in AtTheSwitch => capture = "on"
    /\ phase = "sqlite" /\ file.state = "none" /\ op \in {"idle", "emptying"} /\ ~kept
         => capture = "off"

\* No state of the move is from a schema to come.
Schemas ==
    /\ visible.schema <= schema /\ file.schema <= schema
    /\ \A f \in atRisk : f.schema <= schema

\* What differs was not copied yet, or is logged.
Tracked ==
    /\ phase = "sqlite" /\ work \in {"copying", "syncing", "applied", "compared"}
         => behind \subseteq apart \cup since
    /\ ~doubt =>
         /\ phase = "sqlite" /\ file.state \in InSync => behind \subseteq Log
         /\ phase = "sqlite" /\ work = "compared" => behind \subseteq since
         /\ phase = "sqlite" /\ work = "applied" /\ file.state = "syncing"
              => behind \subseteq since
         /\ phase \in AtTheSwitch => behind \subseteq Log
         /\ phase = "down" /\ visible.state \in InSync /\ capture = "on"
              /\ visible.schema = schema => behind \subseteq Log

Inv == TypeOK /\ OneWay /\ InStep /\ Logged /\ Schemas /\ Tracked

----------------------------------------------------------------------------
(***************************************************************************)
(* Every step keeps it.                                                    *)
(***************************************************************************)
LEMMA TypeStep ==
  ASSUME Inv, Next
  PROVE  TypeOK'
<1> USE MigrationAssumption DEF vars, boot, sqlite, target, process, ghosts, Inv, TypeOK,
        States, Files
<1>1. CASE BeginCopy
  BY <1>1 DEF BeginCopy, Log, Full, Running
<1>2. CASE EndCopy
  BY <1>2 DEF EndCopy, Running
<1>3. CASE BeginSync
  BY <1>3 DEF BeginSync, Log, Running
<1>4. CASE Apply
  BY <1>4 DEF Apply, Running
<1>5. CASE Compare
  BY <1>5 DEF Compare, Full, Same, Running
<1>6. CASE EndSync
  BY <1>6, ZenonT(60) DEF EndSync, Full, Running
<1>7. CASE EndFullCopy
  <2>1. phase' \in {"down", "sqlite", "env", "switching", "applied", "equal", "postgres"}
        /\ retired' \in BOOLEAN /\ capture' \in {"off", "on", "broken"} /\ moved' \in BOOLEAN
        /\ work' \in {"none", "gone", "idle", "copying", "copied", "syncing", "applied", "compared"}
        /\ errored' \in BOOLEAN /\ op' \in {"idle", "starting", "cancelled", "emptying"}
        /\ doubt' \in BOOLEAN /\ kept' \in BOOLEAN
    BY <1>7 DEF EndFullCopy, LoggedSave, LoggedSaveOver, Saved, Mishap, NoMishap, File, Running
  <2>2. visible' \in Files /\ atRisk' \subseteq Files /\ file' \in Files /\ schema' \in 0 .. Upgrades
        /\ mishaps' \in 0 .. Mishaps
    BY <1>7 DEF EndFullCopy, LoggedSave, LoggedSaveOver, Saved, Mishap, NoMishap, File, Running
  <2>3. batch' \subseteq Keys /\ since' \subseteq Keys /\ behind' \subseteq Keys /\ apart' \subseteq Keys
    BY <1>7 DEF EndFullCopy, LoggedSave, LoggedSaveOver, Saved, Mishap, NoMishap, File, Running
  <2>4. QED
    BY <2>1, <2>2, <2>3 DEF TypeOK
<1>8. CASE Fails
  BY <1>8 DEF Fails, Mishap, NoMishap, Dropped, Log, Full, Same, Running
<1>9. CASE Collides
  BY <1>9 DEF Collides, LoggedSave, LoggedSaveOver, Saved, Mishap, NoMishap, File, Dropped,
     Log, Full, Running
<1>10. ASSUME NEW k \in Keys, CopyRow(k)
      PROVE  TypeOK'
  BY <1>10 DEF CopyRow, Running
<1>11. CASE SwitchApply
  BY <1>11 DEF SwitchApply, Log
<1>12. CASE SwitchCompare
  <2>1. phase' \in {"down", "sqlite", "env", "switching", "applied", "equal", "postgres"}
        /\ retired' \in BOOLEAN /\ capture' \in {"off", "on", "broken"} /\ moved' \in BOOLEAN
        /\ work' \in {"none", "gone", "idle", "copying", "copied", "syncing", "applied", "compared"}
        /\ errored' \in BOOLEAN /\ op' \in {"idle", "starting", "cancelled", "emptying"}
        /\ doubt' \in BOOLEAN /\ kept' \in BOOLEAN
    BY <1>12 DEF SwitchCompare
  <2>2. visible' \in Files /\ atRisk' \subseteq Files /\ file' \in Files /\ schema' \in 0 .. Upgrades
        /\ mishaps' \in 0 .. Mishaps
    BY <1>12 DEF SwitchCompare
  <2>3. batch' \subseteq Keys /\ since' \subseteq Keys /\ behind' \subseteq Keys /\ apart' \subseteq Keys
    BY <1>12 DEF SwitchCompare
  <2>4. QED
    BY <2>1, <2>2, <2>3 DEF TypeOK
<1>13. CASE SwitchDiffers
  BY <1>13 DEF SwitchDiffers, FallBack, LoggedSave, LoggedSaveOver, Saved, Mishap, NoMishap,
     File
<1>14. CASE SwitchFails
  BY <1>14 DEF SwitchFails, FallBack, Mishap, File
<1>15. CASE Switch
  <2>1. phase' \in {"down", "sqlite", "env", "switching", "applied", "equal", "postgres"}
        /\ retired' \in BOOLEAN /\ capture' \in {"off", "on", "broken"} /\ moved' \in BOOLEAN
        /\ work' \in {"none", "gone", "idle", "copying", "copied", "syncing", "applied", "compared"}
        /\ errored' \in BOOLEAN /\ op' \in {"idle", "starting", "cancelled", "emptying"}
        /\ doubt' \in BOOLEAN /\ kept' \in BOOLEAN
    BY <1>15 DEF Switch, Saved, NoMishap, CaptureStops, Retires, File
  <2>2. visible' \in Files /\ atRisk' \subseteq Files /\ file' \in Files /\ schema' \in 0 .. Upgrades
        /\ mishaps' \in 0 .. Mishaps
    BY <1>15 DEF Switch, Saved, NoMishap, CaptureStops, Retires, File
  <2>3. batch' \subseteq Keys /\ since' \subseteq Keys /\ behind' \subseteq Keys /\ apart' \subseteq Keys
    BY <1>15 DEF Switch, Saved, NoMishap, CaptureStops, Retires, File
  <2>4. QED
    BY <2>1, <2>2, <2>3 DEF TypeOK
<1>16. CASE SwitchUnsure
  BY <1>16 DEF SwitchUnsure, SavedLoosely, Mishap, File, NoMove
<1>17. CASE Start
  BY <1>17 DEF Start
<1>18. CASE StartSaves
  <2>1. phase' \in {"down", "sqlite", "env", "switching", "applied", "equal", "postgres"}
        /\ retired' \in BOOLEAN /\ capture' \in {"off", "on", "broken"} /\ moved' \in BOOLEAN
        /\ work' \in {"none", "gone", "idle", "copying", "copied", "syncing", "applied", "compared"}
        /\ errored' \in BOOLEAN /\ op' \in {"idle", "starting", "cancelled", "emptying"}
        /\ doubt' \in BOOLEAN /\ kept' \in BOOLEAN
    BY <1>18, ZenonT(60) DEF StartSaves, Saved, SavedLoosely, NotSaved, Mishap, NoMishap, CaptureStops,
       File
  <2>2. visible' \in Files /\ atRisk' \subseteq Files /\ file' \in Files /\ schema' \in 0 .. Upgrades
        /\ mishaps' \in 0 .. Mishaps
    BY <1>18 DEF StartSaves, Saved, SavedLoosely, NotSaved, Mishap, NoMishap, CaptureStops,
       File
  <2>3. batch' \subseteq Keys /\ since' \subseteq Keys /\ behind' \subseteq Keys /\ apart' \subseteq Keys
    BY <1>18 DEF StartSaves, Saved, SavedLoosely, NotSaved, Mishap, NoMishap, CaptureStops,
       File
  <2>4. QED
    BY <2>1, <2>2, <2>3 DEF TypeOK
<1>19. CASE Cancel
  <2>1. phase' \in {"down", "sqlite", "env", "switching", "applied", "equal", "postgres"}
        /\ retired' \in BOOLEAN /\ capture' \in {"off", "on", "broken"} /\ moved' \in BOOLEAN
        /\ work' \in {"none", "gone", "idle", "copying", "copied", "syncing", "applied", "compared"}
        /\ errored' \in BOOLEAN /\ op' \in {"idle", "starting", "cancelled", "emptying"}
        /\ doubt' \in BOOLEAN /\ kept' \in BOOLEAN
    BY <1>19 DEF Cancel, Saved, SavedLoosely, NotSaved, Mishap, NoMishap, Dropped, Log,
       NoMove, File
  <2>2. visible' \in Files /\ atRisk' \subseteq Files /\ file' \in Files /\ schema' \in 0 .. Upgrades
        /\ mishaps' \in 0 .. Mishaps
    BY <1>19 DEF Cancel, Saved, SavedLoosely, NotSaved, Mishap, NoMishap, Dropped, Log,
       NoMove, File
  <2>3. batch' \subseteq Keys /\ since' \subseteq Keys /\ behind' \subseteq Keys /\ apart' \subseteq Keys
    BY <1>19 DEF Cancel, Saved, SavedLoosely, NotSaved, Mishap, NoMishap, Dropped, Log,
       NoMove, File
  <2>4. QED
    BY <2>1, <2>2, <2>3 DEF TypeOK
<1>20. CASE CancelCleans
  <2>1. phase' \in {"down", "sqlite", "env", "switching", "applied", "equal", "postgres"}
        /\ retired' \in BOOLEAN /\ capture' \in {"off", "on", "broken"} /\ moved' \in BOOLEAN
        /\ work' \in {"none", "gone", "idle", "copying", "copied", "syncing", "applied", "compared"}
        /\ errored' \in BOOLEAN /\ op' \in {"idle", "starting", "cancelled", "emptying"}
        /\ doubt' \in BOOLEAN /\ kept' \in BOOLEAN
    BY <1>20, ZenonT(60) DEF CancelCleans, CaptureStops, Mishap, NoMishap
  <2>2. visible' \in Files /\ atRisk' \subseteq Files /\ file' \in Files /\ schema' \in 0 .. Upgrades
        /\ mishaps' \in 0 .. Mishaps
    BY <1>20 DEF CancelCleans, CaptureStops, Mishap, NoMishap
  <2>3. batch' \subseteq Keys /\ since' \subseteq Keys /\ behind' \subseteq Keys /\ apart' \subseteq Keys
    BY <1>20 DEF CancelCleans, CaptureStops, Mishap, NoMishap
  <2>4. QED
    BY <2>1, <2>2, <2>3 DEF TypeOK
<1>21. CASE CancelEmpties
  BY <1>21 DEF CancelEmpties
<1>22. CASE Cutover
  BY <1>22 DEF Cutover, Saved, SavedLoosely, NotSaved, Mishap, NoMishap, Dropped, Log, File
<1>23. CASE StartPostgres
  BY <1>23 DEF StartPostgres, Durable, Retires, Idle
<1>24. CASE StartPlain
  <2>1. phase' \in {"down", "sqlite", "env", "switching", "applied", "equal", "postgres"}
        /\ retired' \in BOOLEAN /\ capture' \in {"off", "on", "broken"} /\ moved' \in BOOLEAN
        /\ work' \in {"none", "gone", "idle", "copying", "copied", "syncing", "applied", "compared"}
        /\ errored' \in BOOLEAN /\ op' \in {"idle", "starting", "cancelled", "emptying"}
        /\ doubt' \in BOOLEAN /\ kept' \in BOOLEAN
    BY <1>24 DEF StartPlain, Opens, Durable, CaptureStops, Idle, NoMove, File
  <2>2. visible' \in Files /\ atRisk' \subseteq Files /\ file' \in Files /\ schema' \in 0 .. Upgrades
        /\ mishaps' \in 0 .. Mishaps
    BY <1>24 DEF StartPlain, Opens, Durable, CaptureStops, Idle, NoMove, File
  <2>3. batch' \subseteq Keys /\ since' \subseteq Keys /\ behind' \subseteq Keys /\ apart' \subseteq Keys
    BY <1>24 DEF StartPlain, Opens, Durable, CaptureStops, Idle, NoMove, File
  <2>4. QED
    BY <2>1, <2>2, <2>3 DEF TypeOK
<1>25. CASE Continue
  BY <1>25 DEF Continue, Opens, Trusted, Durable
<1>26. CASE StartOver
  BY <1>26 DEF StartOver, Opens, Trusted, LoggedSaveOver, Saved, Mishap, NoMishap, File
<1>27. CASE StartEnv
  <2>1. phase' \in {"down", "sqlite", "env", "switching", "applied", "equal", "postgres"}
        /\ retired' \in BOOLEAN /\ capture' \in {"off", "on", "broken"} /\ moved' \in BOOLEAN
        /\ work' \in {"none", "gone", "idle", "copying", "copied", "syncing", "applied", "compared"}
        /\ errored' \in BOOLEAN /\ op' \in {"idle", "starting", "cancelled", "emptying"}
        /\ doubt' \in BOOLEAN /\ kept' \in BOOLEAN
    BY <1>27 DEF StartEnv, Opens, Durable, CaptureStops, LoggedSaveOver, Saved, Mishap,
       NoMishap, Idle, NoMove, File
  <2>2. visible' \in Files /\ atRisk' \subseteq Files /\ file' \in Files /\ schema' \in 0 .. Upgrades
        /\ mishaps' \in 0 .. Mishaps
    BY <1>27 DEF StartEnv, Opens, Durable, CaptureStops, LoggedSaveOver, Saved, Mishap,
       NoMishap, Idle, NoMove, File
  <2>3. batch' \subseteq Keys /\ since' \subseteq Keys /\ behind' \subseteq Keys /\ apart' \subseteq Keys
    BY <1>27 DEF StartEnv, Opens, Durable, CaptureStops, LoggedSaveOver, Saved, Mishap,
       NoMishap, Idle, NoMove, File
  <2>4. QED
    BY <2>1, <2>2, <2>3 DEF TypeOK
<1>28. CASE WriteMoved
  BY <1>28 DEF WriteMoved
<1>29. CASE Stop
  <2>1. phase' \in {"down", "sqlite", "env", "switching", "applied", "equal", "postgres"}
        /\ retired' \in BOOLEAN /\ capture' \in {"off", "on", "broken"} /\ moved' \in BOOLEAN
        /\ work' \in {"none", "gone", "idle", "copying", "copied", "syncing", "applied", "compared"}
        /\ errored' \in BOOLEAN /\ op' \in {"idle", "starting", "cancelled", "emptying"}
        /\ doubt' \in BOOLEAN /\ kept' \in BOOLEAN
    BY <1>29 DEF Stop, Dropped, Log, NoMove, File
  <2>2. visible' \in Files /\ atRisk' \subseteq Files /\ file' \in Files /\ schema' \in 0 .. Upgrades
        /\ mishaps' \in 0 .. Mishaps
    BY <1>29 DEF Stop, Dropped, Log, NoMove, File
  <2>3. batch' \subseteq Keys /\ since' \subseteq Keys /\ behind' \subseteq Keys /\ apart' \subseteq Keys
    BY <1>29 DEF Stop, Dropped, Log, NoMove, File
  <2>4. QED
    BY <2>1, <2>2, <2>3 DEF TypeOK
<1>30. CASE HostCrash
  <2>1. phase' \in {"down", "sqlite", "env", "switching", "applied", "equal", "postgres"}
        /\ retired' \in BOOLEAN /\ capture' \in {"off", "on", "broken"} /\ moved' \in BOOLEAN
        /\ work' \in {"none", "gone", "idle", "copying", "copied", "syncing", "applied", "compared"}
        /\ errored' \in BOOLEAN /\ op' \in {"idle", "starting", "cancelled", "emptying"}
        /\ doubt' \in BOOLEAN /\ kept' \in BOOLEAN
    BY <1>30 DEF HostCrash, Mishap, Log, NoMove, File
  <2>2. visible' \in Files /\ atRisk' \subseteq Files /\ file' \in Files /\ schema' \in 0 .. Upgrades
        /\ mishaps' \in 0 .. Mishaps
    BY <1>30 DEF HostCrash, Mishap, Log, NoMove, File
  <2>3. batch' \subseteq Keys /\ since' \subseteq Keys /\ behind' \subseteq Keys /\ apart' \subseteq Keys
    BY <1>30 DEF HostCrash, Mishap, Log, NoMove, File
  <2>4. QED
    BY <2>1, <2>2, <2>3 DEF TypeOK
<1>31. CASE Upgrade
  BY <1>31 DEF Upgrade
<1>32. CASE FileLost
  BY <1>32 DEF FileLost, Mishap, NoMove, File
<1>33. CASE FileRestored
  BY <1>33 DEF FileRestored, File
<1>34. ASSUME NEW k \in Keys, Write(k)
      PROVE  TypeOK'
  BY <1>34 DEF Write
<1>35. ASSUME NEW k \in Keys, Disturbed(k)
      PROVE  TypeOK'
  BY <1>35 DEF Disturbed, Mishap
<1>36. CASE CallDropped
  BY <1>36 DEF CallDropped, Mishap, Dropped, Log
<1>37. QED
  BY <1>1, <1>2, <1>3, <1>4, <1>5, <1>6, <1>7, <1>8, <1>9, <1>10, <1>11, <1>12, <1>13,
     <1>14, <1>15, <1>16, <1>17, <1>18, <1>19, <1>20, <1>21, <1>22, <1>23, <1>24, <1>25,
     <1>26, <1>27, <1>28, <1>29, <1>30, <1>31, <1>32, <1>33, <1>34, <1>35,
     <1>36 DEF Next, Worker,
     Switching, Calls, Starts, Others

LEMMA OneWayStep ==
  ASSUME Inv, Next
  PROVE  OneWay'
<1> USE MigrationAssumption DEF vars, boot, sqlite, target, process, ghosts, Inv, TypeOK,
        States, Files,
        OneWay, InStep, AtTheSwitch
<1>1. CASE BeginCopy
  BY <1>1 DEF BeginCopy, Log, Full, Running
<1>2. CASE EndCopy
  BY <1>2 DEF EndCopy, Running
<1>3. CASE BeginSync
  BY <1>3 DEF BeginSync, Log, Running
<1>4. CASE Apply
  BY <1>4 DEF Apply, Running
<1>5. CASE Compare
  BY <1>5 DEF Compare, Full, Same, Running
<1>6. CASE EndSync
  BY <1>6 DEF EndSync, Full, Running
<1>7. CASE EndFullCopy
  BY <1>7 DEF EndFullCopy, LoggedSave, LoggedSaveOver, Saved, Mishap, NoMishap, File, Running
<1>8. CASE Fails
  BY <1>8 DEF Fails, Mishap, NoMishap, Dropped, Log, Full, Same, Running
<1>9. CASE Collides
  BY <1>9 DEF Collides, LoggedSave, LoggedSaveOver, Saved, Mishap, NoMishap, File, Dropped,
     Log, Full, Running
<1>10. ASSUME NEW k \in Keys, CopyRow(k)
      PROVE  OneWay'
  BY <1>10 DEF CopyRow, Running
<1>11. CASE SwitchApply
  BY <1>11 DEF SwitchApply, Log
<1>12. CASE SwitchCompare
  BY <1>12 DEF SwitchCompare
<1>13. CASE SwitchDiffers
  BY <1>13 DEF SwitchDiffers, FallBack, LoggedSave, LoggedSaveOver, Saved, Mishap, NoMishap,
     File
<1>14. CASE SwitchFails
  BY <1>14 DEF SwitchFails, FallBack, Mishap, File
<1>15. CASE Switch
  BY <1>15 DEF Switch, Saved, NoMishap, CaptureStops, Retires, File
<1>16. CASE SwitchUnsure
  BY <1>16 DEF SwitchUnsure, SavedLoosely, Mishap, File, NoMove
<1>17. CASE Start
  BY <1>17 DEF Start
<1>18. CASE StartSaves
  BY <1>18 DEF StartSaves, Saved, SavedLoosely, NotSaved, Mishap, NoMishap, CaptureStops, File
<1>19. CASE Cancel
  BY <1>19 DEF Cancel, Saved, SavedLoosely, NotSaved, Mishap, NoMishap, Dropped, Log,
     NoMove, File
<1>20. CASE CancelCleans
  BY <1>20 DEF CancelCleans, CaptureStops, Mishap, NoMishap
<1>21. CASE CancelEmpties
  BY <1>21 DEF CancelEmpties
<1>22. CASE Cutover
  BY <1>22 DEF Cutover, Saved, SavedLoosely, NotSaved, Mishap, NoMishap, Dropped, Log, File
<1>23. CASE StartPostgres
  BY <1>23 DEF StartPostgres, Durable, Retires, Idle
<1>24. CASE StartPlain
  BY <1>24 DEF StartPlain, Opens, Durable, CaptureStops, Idle, NoMove, File
<1>25. CASE Continue
  BY <1>25 DEF Continue, Opens, Trusted, Durable
<1>26. CASE StartOver
  BY <1>26 DEF StartOver, Opens, Trusted, LoggedSaveOver, Saved, Mishap, NoMishap, File
<1>27. CASE StartEnv
  BY <1>27 DEF StartEnv, Opens, Durable, CaptureStops, LoggedSaveOver, Saved, Mishap,
     NoMishap, Idle, NoMove, File
<1>28. CASE WriteMoved
  BY <1>28 DEF WriteMoved
<1>29. CASE Stop
  BY <1>29 DEF Stop, Dropped, Log, NoMove, File
<1>30. CASE HostCrash
  BY <1>30 DEF HostCrash, Mishap, Log, NoMove, File
<1>31. CASE Upgrade
  BY <1>31 DEF Upgrade
<1>32. CASE FileLost
  BY <1>32 DEF FileLost, Mishap, NoMove, File
<1>33. CASE FileRestored
  BY <1>33 DEF FileRestored, File
<1>34. ASSUME NEW k \in Keys, Write(k)
      PROVE  OneWay'
  BY <1>34 DEF Write
<1>35. ASSUME NEW k \in Keys, Disturbed(k)
      PROVE  OneWay'
  BY <1>35 DEF Disturbed, Mishap
<1>36. CASE CallDropped
  BY <1>36 DEF CallDropped, Mishap, Dropped, Log
<1>37. QED
  BY <1>1, <1>2, <1>3, <1>4, <1>5, <1>6, <1>7, <1>8, <1>9, <1>10, <1>11, <1>12, <1>13,
     <1>14, <1>15, <1>16, <1>17, <1>18, <1>19, <1>20, <1>21, <1>22, <1>23, <1>24, <1>25,
     <1>26, <1>27, <1>28, <1>29, <1>30, <1>31, <1>32, <1>33, <1>34, <1>35,
     <1>36 DEF Next, Worker,
     Switching, Calls, Starts, Others

LEMMA InStepStep ==
  ASSUME Inv, Next
  PROVE  InStep'
<1> USE MigrationAssumption DEF vars, boot, sqlite, target, process, ghosts, Inv, TypeOK,
        States, Files,
        OneWay, InStep, AtTheSwitch, NoMove, File
<1>1. CASE BeginCopy
  BY <1>1 DEF BeginCopy, Log, Full, Running
<1>2. CASE EndCopy
  BY <1>2 DEF EndCopy, Running
<1>3. CASE BeginSync
  BY <1>3 DEF BeginSync, Log, Running
<1>4. CASE Apply
  BY <1>4 DEF Apply, Running
<1>5. CASE Compare
  BY <1>5 DEF Compare, Full, Same, Running
<1>6. CASE EndSync
  BY <1>6 DEF EndSync, Full, Running
<1>7. CASE EndFullCopy
  BY <1>7 DEF EndFullCopy, LoggedSave, LoggedSaveOver, Saved, Mishap, NoMishap, Running
<1>8. CASE Fails
  BY <1>8 DEF Fails, Mishap, NoMishap, Dropped, Log, Full, Same, Running
<1>9. CASE Collides
  BY <1>9 DEF Collides, LoggedSave, LoggedSaveOver, Saved, Mishap, NoMishap, Dropped, Log,
     Full, Running
<1>10. ASSUME NEW k \in Keys, CopyRow(k)
      PROVE  InStep'
  BY <1>10 DEF CopyRow, Running
<1>11. CASE SwitchApply
  BY <1>11 DEF SwitchApply, Log
<1>12. CASE SwitchCompare
  BY <1>12 DEF SwitchCompare
<1>13. CASE SwitchDiffers
  BY <1>13 DEF SwitchDiffers, FallBack, LoggedSave, LoggedSaveOver, Saved, Mishap, NoMishap
<1>14. CASE SwitchFails
  BY <1>14 DEF SwitchFails, FallBack, Mishap
<1>15. CASE Switch
  BY <1>15 DEF Switch, Saved, NoMishap, CaptureStops, Retires
<1>16. CASE SwitchUnsure
  BY <1>16 DEF SwitchUnsure, SavedLoosely, Mishap
<1>17. CASE Start
  BY <1>17 DEF Start
<1>18. CASE StartSaves
  BY <1>18 DEF StartSaves, Saved, SavedLoosely, NotSaved, Mishap, NoMishap, CaptureStops
<1>19. CASE Cancel
  BY <1>19 DEF Cancel, Saved, SavedLoosely, NotSaved, Mishap, NoMishap, Dropped, Log
<1>20. CASE CancelCleans
  BY <1>20 DEF CancelCleans, CaptureStops, Mishap, NoMishap
<1>21. CASE CancelEmpties
  BY <1>21 DEF CancelEmpties
<1>22. CASE Cutover
  BY <1>22 DEF Cutover, Saved, SavedLoosely, NotSaved, Mishap, NoMishap, Dropped, Log
<1>23. CASE StartPostgres
  BY <1>23 DEF StartPostgres, Durable, Retires, Idle
<1>24. CASE StartPlain
  BY <1>24 DEF StartPlain, Opens, Durable, CaptureStops, Idle
<1>25. CASE Continue
  BY <1>25 DEF Continue, Opens, Trusted, Durable
<1>26. CASE StartOver
  BY <1>26 DEF StartOver, Opens, Trusted, LoggedSaveOver, Saved, Mishap, NoMishap
<1>27. CASE StartEnv
  BY <1>27 DEF StartEnv, Opens, Durable, CaptureStops, LoggedSaveOver, Saved, Mishap,
     NoMishap, Idle
<1>28. CASE WriteMoved
  BY <1>28 DEF WriteMoved
<1>29. CASE Stop
  BY <1>29 DEF Stop, Dropped, Log
<1>30. CASE HostCrash
  BY <1>30 DEF HostCrash, Mishap, Log
<1>31. CASE Upgrade
  BY <1>31 DEF Upgrade
<1>32. CASE FileLost
  BY <1>32 DEF FileLost, Mishap
<1>33. CASE FileRestored
  BY <1>33 DEF FileRestored
<1>34. ASSUME NEW k \in Keys, Write(k)
      PROVE  InStep'
  BY <1>34 DEF Write
<1>35. ASSUME NEW k \in Keys, Disturbed(k)
      PROVE  InStep'
  BY <1>35 DEF Disturbed, Mishap
<1>36. CASE CallDropped
  BY <1>36 DEF CallDropped, Mishap, Dropped, Log
<1>37. QED
  BY <1>1, <1>2, <1>3, <1>4, <1>5, <1>6, <1>7, <1>8, <1>9, <1>10, <1>11, <1>12, <1>13,
     <1>14, <1>15, <1>16, <1>17, <1>18, <1>19, <1>20, <1>21, <1>22, <1>23, <1>24, <1>25,
     <1>26, <1>27, <1>28, <1>29, <1>30, <1>31, <1>32, <1>33, <1>34, <1>35,
     <1>36 DEF Next, Worker,
     Switching, Calls, Starts, Others

LEMMA LoggedStep ==
  ASSUME Inv, Next
  PROVE  Logged'
<1> USE MigrationAssumption DEF vars, boot, sqlite, target, process, ghosts, Inv, TypeOK,
        States, Files,
        OneWay, InStep, Logged, AtTheSwitch
<1>1. CASE BeginCopy
  BY <1>1 DEF BeginCopy, Log, Full, Running
<1>2. CASE EndCopy
  BY <1>2 DEF EndCopy, Running
<1>3. CASE BeginSync
  BY <1>3 DEF BeginSync, Log, Running
<1>4. CASE Apply
  BY <1>4 DEF Apply, Running
<1>5. CASE Compare
  BY <1>5 DEF Compare, Full, Same, Running
<1>6. CASE EndSync
  BY <1>6 DEF EndSync, Full, Running
<1>7. CASE EndFullCopy
  BY <1>7 DEF EndFullCopy, LoggedSave, LoggedSaveOver, Saved, Mishap, NoMishap, File, Running
<1>8. CASE Fails
  BY <1>8 DEF Fails, Mishap, NoMishap, Dropped, Log, Full, Same, Running
<1>9. CASE Collides
  BY <1>9 DEF Collides, LoggedSave, LoggedSaveOver, Saved, Mishap, NoMishap, File, Dropped,
     Log, Full, Running
<1>10. ASSUME NEW k \in Keys, CopyRow(k)
      PROVE  Logged'
  BY <1>10 DEF CopyRow, Running
<1>11. CASE SwitchApply
  BY <1>11 DEF SwitchApply, Log
<1>12. CASE SwitchCompare
  BY <1>12 DEF SwitchCompare
<1>13. CASE SwitchDiffers
  BY <1>13 DEF SwitchDiffers, FallBack, LoggedSave, LoggedSaveOver, Saved, Mishap, NoMishap,
     File
<1>14. CASE SwitchFails
  BY <1>14 DEF SwitchFails, FallBack, Mishap, File
<1>15. CASE Switch
  BY <1>15 DEF Switch, Saved, NoMishap, CaptureStops, Retires, File
<1>16. CASE SwitchUnsure
  BY <1>16 DEF SwitchUnsure, SavedLoosely, Mishap, File, NoMove
<1>17. CASE Start
  BY <1>17 DEF Start
<1>18. CASE StartSaves
  BY <1>18 DEF StartSaves, Saved, SavedLoosely, NotSaved, Mishap, NoMishap, CaptureStops, File
<1>19. CASE Cancel
  BY <1>19 DEF Cancel, Saved, SavedLoosely, NotSaved, Mishap, NoMishap, Dropped, Log,
     NoMove, File
<1>20. CASE CancelCleans
  BY <1>20 DEF CancelCleans, CaptureStops, Mishap, NoMishap
<1>21. CASE CancelEmpties
  BY <1>21 DEF CancelEmpties
<1>22. CASE Cutover
  BY <1>22 DEF Cutover, Saved, SavedLoosely, NotSaved, Mishap, NoMishap, Dropped, Log, File
<1>23. CASE StartPostgres
  BY <1>23 DEF StartPostgres, Durable, Retires, Idle
<1>24. CASE StartPlain
  BY <1>24 DEF StartPlain, Opens, Durable, CaptureStops, Idle, NoMove, File
<1>25. CASE Continue
  BY <1>25 DEF Continue, Opens, Trusted, Durable
<1>26. CASE StartOver
  BY <1>26 DEF StartOver, Opens, Trusted, LoggedSaveOver, Saved, Mishap, NoMishap, File
<1>27. CASE StartEnv
  BY <1>27 DEF StartEnv, Opens, Durable, CaptureStops, LoggedSaveOver, Saved, Mishap,
     NoMishap, Idle, NoMove, File
<1>28. CASE WriteMoved
  BY <1>28 DEF WriteMoved
<1>29. CASE Stop
  BY <1>29 DEF Stop, Dropped, Log, NoMove, File
<1>30. CASE HostCrash
  BY <1>30 DEF HostCrash, Mishap, Log, NoMove, File
<1>31. CASE Upgrade
  BY <1>31 DEF Upgrade
<1>32. CASE FileLost
  BY <1>32 DEF FileLost, Mishap, NoMove, File
<1>33. CASE FileRestored
  BY <1>33 DEF FileRestored, File
<1>34. ASSUME NEW k \in Keys, Write(k)
      PROVE  Logged'
  BY <1>34 DEF Write
<1>35. ASSUME NEW k \in Keys, Disturbed(k)
      PROVE  Logged'
  BY <1>35 DEF Disturbed, Mishap
<1>36. CASE CallDropped
  BY <1>36 DEF CallDropped, Mishap, Dropped, Log
<1>37. QED
  BY <1>1, <1>2, <1>3, <1>4, <1>5, <1>6, <1>7, <1>8, <1>9, <1>10, <1>11, <1>12, <1>13,
     <1>14, <1>15, <1>16, <1>17, <1>18, <1>19, <1>20, <1>21, <1>22, <1>23, <1>24, <1>25,
     <1>26, <1>27, <1>28, <1>29, <1>30, <1>31, <1>32, <1>33, <1>34, <1>35,
     <1>36 DEF Next, Worker,
     Switching, Calls, Starts, Others

LEMMA SchemasStep ==
  ASSUME Inv, Next
  PROVE  Schemas'
<1> USE MigrationAssumption DEF vars, boot, sqlite, target, process, ghosts, Inv, TypeOK,
        States, Files,
        Schemas
<1>1. CASE BeginCopy
  BY <1>1 DEF BeginCopy, Log, Full, Running
<1>2. CASE EndCopy
  BY <1>2 DEF EndCopy, Running
<1>3. CASE BeginSync
  BY <1>3 DEF BeginSync, Log, Running
<1>4. CASE Apply
  BY <1>4 DEF Apply, Running
<1>5. CASE Compare
  BY <1>5 DEF Compare, Full, Same, Running
<1>6. CASE EndSync
  BY <1>6 DEF EndSync, Full, Running
<1>7. CASE EndFullCopy
  BY <1>7 DEF EndFullCopy, LoggedSave, LoggedSaveOver, Saved, Mishap, NoMishap, File, Running
<1>8. CASE Fails
  BY <1>8 DEF Fails, Mishap, NoMishap, Dropped, Log, Full, Same, Running
<1>9. CASE Collides
  BY <1>9 DEF Collides, LoggedSave, LoggedSaveOver, Saved, Mishap, NoMishap, File, Dropped,
     Log, Full, Running
<1>10. ASSUME NEW k \in Keys, CopyRow(k)
      PROVE  Schemas'
  BY <1>10 DEF CopyRow, Running
<1>11. CASE SwitchApply
  BY <1>11 DEF SwitchApply, Log
<1>12. CASE SwitchCompare
  BY <1>12 DEF SwitchCompare
<1>13. CASE SwitchDiffers
  BY <1>13 DEF SwitchDiffers, FallBack, LoggedSave, LoggedSaveOver, Saved, Mishap, NoMishap,
     File
<1>14. CASE SwitchFails
  BY <1>14 DEF SwitchFails, FallBack, Mishap, File
<1>15. CASE Switch
  BY <1>15 DEF Switch, Saved, NoMishap, CaptureStops, Retires, File
<1>16. CASE SwitchUnsure
  BY <1>16 DEF SwitchUnsure, SavedLoosely, Mishap, File, NoMove
<1>17. CASE Start
  BY <1>17 DEF Start
<1>18. CASE StartSaves
  BY <1>18 DEF StartSaves, Saved, SavedLoosely, NotSaved, Mishap, NoMishap, CaptureStops, File
<1>19. CASE Cancel
  BY <1>19 DEF Cancel, Saved, SavedLoosely, NotSaved, Mishap, NoMishap, Dropped, Log,
     NoMove, File
<1>20. CASE CancelCleans
  BY <1>20 DEF CancelCleans, CaptureStops, Mishap, NoMishap
<1>21. CASE CancelEmpties
  BY <1>21 DEF CancelEmpties
<1>22. CASE Cutover
  BY <1>22 DEF Cutover, Saved, SavedLoosely, NotSaved, Mishap, NoMishap, Dropped, Log, File
<1>23. CASE StartPostgres
  BY <1>23 DEF StartPostgres, Durable, Retires, Idle
<1>24. CASE StartPlain
  BY <1>24 DEF StartPlain, Opens, Durable, CaptureStops, Idle, NoMove, File
<1>25. CASE Continue
  BY <1>25 DEF Continue, Opens, Trusted, Durable
<1>26. CASE StartOver
  BY <1>26 DEF StartOver, Opens, Trusted, LoggedSaveOver, Saved, Mishap, NoMishap, File
<1>27. CASE StartEnv
  BY <1>27 DEF StartEnv, Opens, Durable, CaptureStops, LoggedSaveOver, Saved, Mishap,
     NoMishap, Idle, NoMove, File
<1>28. CASE WriteMoved
  BY <1>28 DEF WriteMoved
<1>29. CASE Stop
  BY <1>29 DEF Stop, Dropped, Log, NoMove, File
<1>30. CASE HostCrash
  BY <1>30 DEF HostCrash, Mishap, Log, NoMove, File
<1>31. CASE Upgrade
  BY <1>31 DEF Upgrade
<1>32. CASE FileLost
  BY <1>32 DEF FileLost, Mishap, NoMove, File
<1>33. CASE FileRestored
  BY <1>33 DEF FileRestored, File
<1>34. ASSUME NEW k \in Keys, Write(k)
      PROVE  Schemas'
  BY <1>34 DEF Write
<1>35. ASSUME NEW k \in Keys, Disturbed(k)
      PROVE  Schemas'
  BY <1>35 DEF Disturbed, Mishap
<1>36. CASE CallDropped
  BY <1>36 DEF CallDropped, Mishap, Dropped, Log
<1>37. QED
  BY <1>1, <1>2, <1>3, <1>4, <1>5, <1>6, <1>7, <1>8, <1>9, <1>10, <1>11, <1>12, <1>13,
     <1>14, <1>15, <1>16, <1>17, <1>18, <1>19, <1>20, <1>21, <1>22, <1>23, <1>24, <1>25,
     <1>26, <1>27, <1>28, <1>29, <1>30, <1>31, <1>32, <1>33, <1>34, <1>35,
     <1>36 DEF Next, Worker,
     Switching, Calls, Starts, Others

LEMMA TrackedStep ==
  ASSUME Inv, Next
  PROVE  Tracked'
<1> USE MigrationAssumption DEF vars, boot, sqlite, target, process, ghosts, Inv, TypeOK,
        States, Files,
        OneWay, InStep, Logged, Schemas, Tracked, InSync, AtTheSwitch, Log
<1>1. CASE BeginCopy
  BY <1>1 DEF BeginCopy, Full, Running
<1>2. CASE EndCopy
  BY <1>2 DEF EndCopy, Running
<1>3. CASE BeginSync
  BY <1>3 DEF BeginSync, Running
<1>4. CASE Apply
  BY <1>4 DEF Apply, Running
<1>5. CASE Compare
  BY <1>5 DEF Compare, Full, Same, Running
<1>6. CASE EndSync
  BY <1>6 DEF EndSync, Full, Running
<1>7. CASE EndFullCopy
  BY <1>7 DEF EndFullCopy, LoggedSave, LoggedSaveOver, Saved, Mishap, NoMishap, File, Running
<1>8. CASE Fails
  BY <1>8 DEF Fails, Mishap, NoMishap, Dropped, Full, Same, Running
<1>9. CASE Collides
  BY <1>9 DEF Collides, LoggedSave, LoggedSaveOver, Saved, Mishap, NoMishap, File, Dropped,
     Full, Running
<1>10. ASSUME NEW k \in Keys, CopyRow(k)
      PROVE  Tracked'
  BY <1>10 DEF CopyRow, Running
<1>11. CASE SwitchApply
  BY <1>11 DEF SwitchApply
<1>12. CASE SwitchCompare
  BY <1>12 DEF SwitchCompare
<1>13. CASE SwitchDiffers
  BY <1>13 DEF SwitchDiffers, FallBack, LoggedSave, LoggedSaveOver, Saved, Mishap, NoMishap,
     File
<1>14. CASE SwitchFails
  BY <1>14 DEF SwitchFails, FallBack, Mishap, File
<1>15. CASE Switch
  BY <1>15 DEF Switch, Saved, NoMishap, CaptureStops, Retires, File
<1>16. CASE SwitchUnsure
  BY <1>16 DEF SwitchUnsure, SavedLoosely, Mishap, File, NoMove
<1>17. CASE Start
  BY <1>17 DEF Start
<1>18. CASE StartSaves
  BY <1>18 DEF StartSaves, Saved, SavedLoosely, NotSaved, Mishap, NoMishap, CaptureStops, File
<1>19. CASE Cancel
  BY <1>19 DEF Cancel, Saved, SavedLoosely, NotSaved, Mishap, NoMishap, Dropped, NoMove, File
<1>20. CASE CancelCleans
  BY <1>20 DEF CancelCleans, CaptureStops, Mishap, NoMishap
<1>21. CASE CancelEmpties
  BY <1>21 DEF CancelEmpties
<1>22. CASE Cutover
  BY <1>22 DEF Cutover, Saved, SavedLoosely, NotSaved, Mishap, NoMishap, Dropped, File
<1>23. CASE StartPostgres
  BY <1>23 DEF StartPostgres, Durable, Retires, Idle
<1>24. CASE StartPlain
  BY <1>24 DEF StartPlain, Opens, Durable, CaptureStops, Idle, NoMove, File
<1>25. CASE Continue
  BY <1>25 DEF Continue, Opens, Trusted, Durable
<1>26. CASE StartOver
  BY <1>26 DEF StartOver, Opens, Trusted, LoggedSaveOver, Saved, Mishap, NoMishap, File
<1>27. CASE StartEnv
  BY <1>27 DEF StartEnv, Opens, Durable, CaptureStops, LoggedSaveOver, Saved, Mishap,
     NoMishap, Idle, NoMove, File
<1>28. CASE WriteMoved
  BY <1>28 DEF WriteMoved
<1>29. CASE Stop
  <2>1. /\ phase' = "down" /\ Log' = Log /\ doubt' = (doubt \/ visible # file)
        /\ UNCHANGED <<behind, visible, capture, schema>>
    BY <1>29 DEF Stop, Dropped
  <2>2. ASSUME ~doubt, visible = file, file.state \in InSync
        PROVE  behind \subseteq Log
    <3>1. phase # "env" /\ phase # "down" /\ phase # "postgres"
      BY <1>29, <2>2 DEF Stop, NoMove, File
    <3>2. QED
      BY <2>2, <3>1
  <2>3. QED
    BY <2>1, <2>2
<1>30. CASE HostCrash
  BY <1>30 DEF HostCrash, Mishap, NoMove, File
<1>31. CASE Upgrade
  BY <1>31 DEF Upgrade
<1>32. CASE FileLost
  BY <1>32 DEF FileLost, Mishap, NoMove, File
<1>33. CASE FileRestored
  BY <1>33 DEF FileRestored, File
<1>34. ASSUME NEW k \in Keys, Write(k)
      PROVE  Tracked'
  BY <1>34 DEF Write
<1>35. ASSUME NEW k \in Keys, Disturbed(k)
      PROVE  Tracked'
  BY <1>35 DEF Disturbed, Mishap
<1>36. CASE CallDropped
  BY <1>36 DEF CallDropped, Mishap, Dropped, Log
<1>37. QED
  BY <1>1, <1>2, <1>3, <1>4, <1>5, <1>6, <1>7, <1>8, <1>9, <1>10, <1>11, <1>12, <1>13,
     <1>14, <1>15, <1>16, <1>17, <1>18, <1>19, <1>20, <1>21, <1>22, <1>23, <1>24, <1>25,
     <1>26, <1>27, <1>28, <1>29, <1>30, <1>31, <1>32, <1>33, <1>34, <1>35,
     <1>36 DEF Next, Worker,
     Switching, Calls, Starts, Others

----------------------------------------------------------------------------
LEMMA InitInv == Init => Inv
<1> SUFFICES ASSUME Init
             PROVE  Inv
  OBVIOUS
<1>1. NoMove \in Files /\ NoMove.state = "none" /\ NoMove.schema = 0
  BY MigrationAssumption DEF NoMove, File, Files, States
<1>2. TypeOK
  <2>1. visible \in Files /\ atRisk \subseteq Files /\ file \in Files
    BY <1>1 DEF Init
  <2>2. schema \in 0 .. Upgrades /\ mishaps \in 0 .. Mishaps
    BY MigrationAssumption DEF Init
  <2>3. QED
    BY <2>1, <2>2, Zenon DEF Init, TypeOK
<1>3. OneWay /\ InStep /\ Logged /\ Tracked
  BY <1>1 DEF Init, OneWay, InStep, Logged, Tracked, InSync, AtTheSwitch
<1>4. Schemas
  BY <1>1 DEF Init, Schemas
<1>5. QED
  BY <1>2, <1>3, <1>4 DEF Inv

LEMMA StutterInv == Inv /\ UNCHANGED vars => Inv'
BY DEF vars, boot, sqlite, target, process, ghosts, Inv, TypeOK, OneWay, InStep, Logged, Schemas,
       Tracked, Log

\* The invariant holds throughout.
THEOREM Invariance == Spec => []Inv
<1>1. Inv /\ [Next]_vars => Inv'
  <2>1. ASSUME Inv, Next
        PROVE  Inv'
    BY <2>1, TypeStep, OneWayStep, InStepStep, LoggedStep, SchemasStep, TrackedStep DEF Inv
  <2>2. QED
    BY <2>1, StutterInv
<1>2. QED
  BY InitInv, <1>1, PTL DEF Spec

\* Every variable keeps its type, whatever a crash leaves of the boot file.
THEOREM TypeCorrect == Spec => []TypeOK
<1>1. Inv => TypeOK
  BY DEF Inv
<1>2. QED
  BY Invariance, <1>1, PTL

\* The app runs on a database that has every write: once the boot file may name
\* PostgreSQL, SQLite takes no writes any more, and PostgreSQL has them all.
THEOREM EveryWriteKept == Spec => []NoWriteIsLost
<1>1. Inv => NoWriteIsLost
  BY DEF Inv, OneWay, NoWriteIsLost
<1>2. QED
  BY Invariance, <1>1, PTL

\* In sync, the log has all that differs.
THEOREM SyncTracked == Spec => []SyncedIsTracked
<1>1. Inv => SyncedIsTracked
  BY DEF Inv, Tracked, InSync, SyncedIsTracked
<1>2. QED
  BY Invariance, <1>1, PTL

\* Without a move nothing is logged, unless a cancel could not remove the log, or a start
\* failed before its save (database.rs:536) or could not remove the log after it (547-549);
\* and that only until the log is next removed.
THEOREM CaptureIsForAMove == Spec => []CaptureOnlyForAMove
<1>1. Inv => CaptureOnlyForAMove
  BY DEF Inv, Logged, CaptureOnlyForAMove
<1>2. QED
  BY Invariance, <1>1, PTL

\* Both: the log of changed keys is enough for the move, and ends with it, unless one of those
\* calls failed (database.rs:907-923).
THEOREM LogStaysTrue == Spec => []LogIsTrue
<1>1. LogIsTrue <=> SyncedIsTracked /\ CaptureOnlyForAMove BY DEF LogIsTrue
<1> QED BY <1>1, SyncTracked, CaptureIsForAMove, PTL

----------------------------------------------------------------------------
(***************************************************************************)
(* The inductive invariant of Conversion.                                  *)
(***************************************************************************)
\* Where the row being worked on is not in the journal yet, and where it is.
Unjournaled == {"list", "intend"}
RowSteps ==
    {"write", "forget", "written", "owners", "moved", "remove", "removed", "undo", "return"}

\* What a pass works on, and how far it is.
Shaped ==
    /\ pc \notin {"rest", "read", "begin"} => job.side \in Sides
    /\ pc \in {"rest", "read"} => ~job.run
    /\ pc \in Unjournaled \cup RowSteps => cur \in Rows
    /\ pc \notin {"resume", "rescan", "settle", "back"} \cup RowSteps => rows = {}
    /\ pc \in {"resume"} \cup RowSteps => \A r \in rows : r.state < CONVERTED
    /\ pc \in RowSteps /\ ~resumed => rows = {}
    /\ pc \notin RowSteps => ~resumed
    /\ pc \in {"rescan", "settle", "back"} => \A r \in rows : r.state = CONVERTED
    /\ pc \in Unjournaled \cup {"write", "written"} => cur.state = INTENT
    /\ pc \in {"owners", "moved"} => cur.state = WRITTEN
    /\ pc \in {"remove", "removed", "undo", "return"} => cur.state = MOVED
    /\ pc = "settle" => seen \in Nat
    /\ check.at = "judge" => check.arr \in Records

\* A row leads from one place to another, and one that is converted asks for a rescan.
Leads(r) == r.from # r.to /\ r.owned # "settled"

Led ==
    /\ pc \in Unjournaled \cup RowSteps => Leads(cur)
    /\ \A r \in journal : Leads(r) /\ (r.state = CONVERTED => r.owned = "rescanned")
    /\ \A r \in rows : r.from # r.to
    /\ pc \in {"resume", "rescan"} \cup RowSteps => \A r \in rows : Leads(r)

\* While no file was moved of which a row was left there is one row at most.
Stored(r) ==
    \E q \in journal : /\ q.from = r.from /\ q.to = r.to /\ q.state = r.state
                       /\ r.owned \in {q.owned, "settled"}

OneRow ==
    "again" \notin past =>
        /\ \A r, q \in journal : r = q
        /\ \A r, q \in rows : r = q
        /\ pc \in Unjournaled => journal = {}
        /\ pc \in RowSteps => journal = {cur} /\ rows = {}
        /\ pc \in {"resume", "rescan"} => rows \subseteq journal
        /\ pc \in {"settle", "back"} => \A r \in rows : Stored(r)

\* It is the row of the owner to rescan.
Remembered ==
    past \cap {"renamed", "again"} = {} /\ ToRescan =>
        /\ \E r \in journal : r.owned = "rescanned" /\ r.to = owner.at /\ r.state # INTENT
        /\ pc # "forget"
        /\ pc = "back" => \A r \in rows : r.owned # "settled"

\* There are two pointers while a row that this pass began is worked on; the target of a
\* resumed one goes only for somebody else's file.
TwoPointers == \E p, q \in Places : p # q /\ disk[p] = "ours" /\ disk[q] = "ours"

Doubled ==
    /\ pc \in {"written", "owners", "moved", "remove", "undo"} /\ ~resumed =>
         "deleted" \in past \/ TwoPointers
    /\ pc = "undo" /\ resumed => Source = "foreign"

\* What the job says is true of the run, or is said again soon, unless requests crossed.
RunStands ==
    /\ ~crossed => SaysTheRun \/ pc = "done" \/ \E c \in calls : c.at = "tell"
    /\ ~fresh /\ job.run /\ pc # "done" => run = "due"
    /\ ~fresh /\ pc = "done" => run = None

\* Without surprises:
Only(places) == \A p \in Places : disk[p] = IF p \in places THEN "ours" ELSE None
StartAsked == [kind |-> "start", at |-> "store"] \in calls
Rescanning == pc \in {"rescan", "settle"} \/ (pc = "back" /\ seen \notin {None, 0})

CalmFiles ==
    /\ item /\ check.at = "off" /\ event = None /\ ~resumed
    /\ pc \notin {"forget", "undo", "return"}
    /\ pc \in {"list", "intend", "write"} => Only({cur.from})
    /\ pc \in {"written", "owners", "moved", "remove"} => Only({cur.from, cur.to})
    /\ pc = "removed" => Only({cur.to})
    /\ pc \notin {"written", "owners", "moved", "remove"} => \E p \in Places : Only({p})
    /\ pc \in Unjournaled \cup RowSteps => todo = {} /\ job.run /\ cur.to[2] = job.side

CalmPass ==
    /\ \A r \in journal : r.state < CONVERTED => pc \in RowSteps /\ r.from = cur.from
    /\ pc = "resume" => rows = {}
    /\ pc = "files" => \A p \in todo : disk[p] = "ours" /\ job.run
    /\ pc = "files" /\ job.run =>
         \A p \in Places : disk[p] = "ours" => p[2] = job.side \/ p \in todo
    /\ pc \in {"rescan", "settle", "back", "finish"} /\ job.run =>
         \A p \in Places : disk[p] = "ours" => p[2] = job.side
    /\ pc \notin {"settle", "back", "finish", "done"} => seen = None

CalmRuns ==
    /\ job.run /\ pc # "done" => run # None
    /\ "lost" \notin past /\ job.run /\ pc \notin {"begin", "done"} =>
         job.side = want \/ StartAsked \/ fresh
    /\ "lost" \notin past /\ run = None => InForm \/ StartAsked

CalmRows ==
    "again" \notin past =>
        /\ \A r \in journal : r.state = CONVERTED => Only({r.to})
        /\ job.run /\ Rescanning => \A q \in journal : \E r \in rows : r.from = q.from
        /\ Rescanning /\ pc # "rescan" => \A r \in rows : r.owned = "settled"
        /\ job.run /\ pc = "finish" => journal = {}
        /\ "lost" \notin past /\ run = None => journal = {}

Calm == surprises = 0 => CalmFiles /\ CalmPass /\ CalmRuns /\ CalmRows

ConvertInv ==
    /\ ConvertTypeOK /\ Shaped /\ Led /\ OneRow /\ Remembered /\ Doubled /\ RunStands /\ Calm

----------------------------------------------------------------------------
(***************************************************************************)
(* What the steps do to rows, and what goes on beside the task.            *)
(***************************************************************************)

\* The name of a place in the other form is a place.
LEMMA AtType ==
  ASSUME NEW p \in Places, NEW s \in Sides
  PROVE  At(p, s) \in Places /\ p[2] \in Sides /\ p[1] \in 1 .. Names /\ p = <<p[1], p[2]>>
  BY DEF At, Places

\* A row keeps all but its state as it goes on.
LEMMA ReachedRow ==
  ASSUME NEW r \in Rows, NEW n \in INTENT .. CONVERTED
  PROVE  LET a == Reached(r, n) IN
           /\ a \in Rows /\ a.from = r.from /\ a.to = r.to /\ a.owned = r.owned
           /\ a.missed = r.missed /\ a.state = n
  BY DEF Reached, Rows

\* What a rescan changes of a row.
LEMMA AnsweredRow ==
  ASSUME NEW r \in Rows
  PROVE  LET a == Answered(r) IN
           /\ a \in Rows /\ a.from = r.from /\ a.to = r.to /\ a.state = r.state
           /\ a.owned = IF arr.at = r.to THEN "settled" ELSE r.owned
  BY DEF Answered, Rows

\* Without an answer the row asks again.
LEMMA UnansweredRow ==
  ASSUME NEW r \in Rows
  PROVE  LET a == Unanswered(r) IN
           /\ a \in Rows /\ a.from = r.from /\ a.to = r.to /\ a.state = r.state
           /\ a.owned = "rescanned"
  BY DEF Unanswered, Rows

\* The states of a row.
LEMMA StateRange == INTENT \in INTENT .. CONVERTED /\ WRITTEN \in INTENT .. CONVERTED
                    /\ MOVED \in INTENT .. CONVERTED /\ CONVERTED \in INTENT .. CONVERTED
  BY DEF INTENT, WRITTEN, MOVED, CONVERTED

\* The row being worked on is put, further on.
LEMMA AdvanceRow ==
  ASSUME NEW n \in INTENT .. CONVERTED, NEW to, cur \in Rows, Advance(n, to)
  PROVE  /\ cur' \in Rows /\ cur'.from = cur.from /\ cur'.to = cur.to /\ cur'.owned = cur.owned
         /\ cur'.state = n /\ journal' = OtherRows(cur) \cup {cur'} /\ pc' = to
         /\ UNCHANGED <<disk, owner, past, check, fresh, item, rows, job, todo, resumed, seen, surprises>>
  BY ReachedRow DEF Advance, Put, OtherRows, InTables, library, users, said, others, Planned

\* What the others do.
Besides ==
    \/ Confirm \/ Check \/ CancelRun \/ Preview \/ Serves \/ (\E c \in calls : Leaves(c))
    \/ Deletes \/ Renames \/ Drops \/ Finds \/ Deliver
    \/ \E p \in Places : Occupies(p)
    \/ Looks \/ Reads \/ Judges

\* Beside the task nothing changes what it holds, or the journal.
LEMMA BesidesKeeps ==
  ASSUME Besides
  PROVE  UNCHANGED <<task, journal>>
<1> USE DEF library, tables, users, said, others, task, Asks, Aside
<1>1. CASE Confirm \/ Check \/ CancelRun \/ Preview \/ Serves \/ (\E c \in calls : Leaves(c))
  BY <1>1 DEF Confirm, Check, CancelRun, Preview, Serves, Store, Tell, Leaves
<1>2. CASE Deletes \/ Renames \/ Drops \/ Finds \/ Deliver \/ \E p \in Places : Occupies(p)
  BY <1>2 DEF Deletes, Renames, Drops, Finds, Deliver, Occupies
<1>3. CASE Looks \/ Reads \/ Judges
  BY <1>3 DEF Looks, Reads, Judges
<1> QED
  BY <1>1, <1>2, <1>3 DEF Besides

\* What happened stays told.
LEMMA PastGrows ==
  ASSUME ConvertNext
  PROVE  past \subseteq past'
<1> USE DEF library, tables, users, said, others, task, Note, InTables, OnDisk
<1>1. CASE Works
  BY <1>1 DEF Works, Wake, ReadRun, Begin, Stopped, Walk, List, ListForAnother, Resume,
     WriteBack, Keep, Look, Intend, Advance, WriteTarget, Forget, Written, Owners, Moved,
     Remove, Removed, Undo, Return, Remap, Rescan, Settle, Rescanned, Finish, Done
<1>2. CASE BeginFails \/ Waits \/ WriteFails \/ RemoveFails \/ SettleFails \/ Crash
  BY <1>2 DEF BeginFails, Waits, WriteFails, RemoveFails, SettleFails, Crash
<1>3. CASE Besides
  BY <1>3 DEF Besides, Confirm, Check, CancelRun, Preview, Serves, Store, Tell, Leaves, Asks, Aside,
     Deletes, Renames, Drops, Finds, Deliver, Occupies, Looks, Reads, Judges
<1> QED
  BY <1>1, <1>2, <1>3 DEF ConvertNext, Besides

\* Of one row there is none from elsewhere.
LEMMA NoOthers ==
  ASSUME NEW r, journal = {r} \/ journal = {}, NEW q, q.from = r.from
  PROVE  OtherRows(q) = {}
  BY DEF OtherRows

\* A row that leads on may be added.
LEMMA OneMore ==
  ASSUME NEW r, r.from # r.to, r.owned # "settled", r.state = CONVERTED => r.owned = "rescanned",
         Led, journal' \subseteq journal \cup {r}
  PROVE  \A q \in journal' : Leads(q) /\ (q.state = CONVERTED => q.owned = "rescanned")
  BY DEF Led, Leads

\* A resumed row goes on where it was left.
LEMMA ResumeTo ==
  ASSUME ConvertTypeOK, Shaped, NEW r \in rows, Resume(r)
  PROVE  /\ pc = "resume" /\ cur' = r /\ rows' = rows \ {r} /\ resumed'
         /\ UNCHANGED <<job, todo, seen>>
         /\ \/ r.state = INTENT /\ pc' = "write"
            \/ r.state = WRITTEN /\ pc' = "owners"
            \/ r.state = MOVED /\ pc' = "remove"
<1> USE DEF ConvertTypeOK, TaskTypes, Shaped, Resume, INTENT, WRITTEN, MOVED, CONVERTED, Rows
<1>1. r.state \in {INTENT, WRITTEN, MOVED}
  OBVIOUS
<1>2. CASE r.state = INTENT
  BY <1>2
<1>3. CASE r.state = WRITTEN
  BY <1>3
<1>4. CASE r.state = MOVED
  BY <1>4
<1> QED
  BY <1>1, <1>2, <1>3, <1>4

\* A rename by the Arr: to a free name, and it tells of it.
LEMMA RenamesTo ==
  ASSUME ConvertTypeOK, Renames
  PROVE  /\ arr.at \in Places /\ disk[arr.at] = "ours"
         /\ \E to \in Places : /\ disk[to] = None /\ to # arr.at
                               /\ disk' = [disk EXCEPT ![arr.at] = None, ![to] = "ours"]
                               /\ arr' = [arr EXCEPT !.at = to]
                               /\ event' = [id |-> arr.id, to |-> to]
<1> USE ConversionAssumption DEF ConvertTypeOK, LibraryTypes, Renames, HasFile, Records
<1> DEFINE to == <<arr.at[1] + 1, arr.at[2]>>
<1>1. arr.at \in Places /\ arr.at[1] < Names /\ disk[arr.at] = "ours"
  OBVIOUS
<1>2. to \in Places
  BY <1>1 DEF Places
<1>3. disk[to] = None /\ disk' = [disk EXCEPT ![arr.at] = None, ![to] = "ours"] /\ arr' = [arr EXCEPT !.at = to]
      /\ event' = [id |-> arr.id, to |-> to]
  OBVIOUS
<1> HIDE DEF to
<1>4. to # arr.at
  BY <1>1, <1>3
<1> QED
  BY <1>1, <1>2, <1>3, <1>4

----------------------------------------------------------------------------
(***************************************************************************)
(* Every step keeps the types.                                             *)
(***************************************************************************)

LEMMA LibraryTypesStep ==
  ASSUME ConvertTypeOK, Shaped, ConvertNext
  PROVE  LibraryTypes'
<1> USE ConversionAssumption DEF library, tables, users, said, others, task, Surprise, Planned,
   ConvertTypeOK, LibraryTypes, Records, TaskTypes, Shaped, RowSteps, Unjournaled, Rows
<1>1. CASE Wake \/ ReadRun \/ (\E hour \in BOOLEAN : Begin(hour)) \/ Stopped \/ Walk \/ List
           \/ ListForAnother \/ (\E r \in rows : Resume(r)) \/ (\E r \in rows : WriteBack(r))
  BY <1>1 DEF Wake, ReadRun, Begin, Ends, Resting, Unfinished, Unscanned, Stopped, Walk, List,
     Lists, ListForAnother, Resume, WriteBack, Put, OtherRows, Kept, InTables
<1>2. CASE (\E p \in todo : Keep(p)) \/ (\E p \in todo : Look(p)) \/ Intend \/ WriteTarget
           \/ Forget \/ Written \/ Owners \/ Moved \/ Remove
  BY <1>2 DEF Keep, Look, At, Intend, Advance, Put, OtherRows, InTables, WriteTarget, Source,
     Target, Goes, OnDisk, Forget, Onward, Written, Owners, MoveOwner, Moved, Remove, Removable
<1>3. CASE Removed \/ Undo \/ Return \/ Remap \/ Rescan \/ Settle \/ Rescanned \/ Finish \/ Done
  BY <1>3 DEF Removed, Onward, Kept, Put, OtherRows, InTables, Undo, Goes, Target, OnDisk,
     Return, MoveOwner, Remap, Unscanned, Rescan, Settle, Rescanned, Ends, EndsWaiting, Resting,
     Finish, Done
<1>4. CASE BeginFails \/ Waits \/ WriteFails \/ RemoveFails \/ SettleFails \/ Confirm \/ Check \/ CancelRun
           \/ Preview \/ (\E c \in calls : Store(c))
  BY <1>4 DEF BeginFails, Waits, EndsWaiting, Ends, Resting, WriteFails, Goes, Source, Target, OnDisk,
     RemoveFails, Onward, SettleFails, Confirm, Asks, Check, CancelRun, Preview, Store
<1>5. ASSUME NEW c \in calls, Tell(c) \/ Leaves(c)
      PROVE  LibraryTypes'
  BY <1>5 DEF Tell, Leaves
<1>6. CASE Deletes
  BY <1>6 DEF Deletes, HasFile, Aside
<1>7. CASE Drops \/ Finds
  BY <1>7 DEF Drops, HasFile, Aside, Finds
<1>8. CASE Deliver \/ (\E p \in Places : Occupies(p)) \/ Looks \/ Reads \/ Judges
  BY <1>8 DEF Deliver, Occupies, Aside, Looks, ToRescan, Reads, Judges, Lists, Off
<1>9. CASE Crash
  BY <1>9 DEF Crash, Ends, Resting, Off
<1>10. CASE Renames
 BY <1>10, RenamesTo
<1> QED
  BY <1>1, <1>2, <1>3, <1>4, <1>5, <1>6, <1>7, <1>8, <1>9, <1>10 DEF ConvertNext, Works, Serves

LEMMA TableTypesStep ==
  ASSUME ConvertTypeOK, Shaped, ConvertNext
  PROVE  TableTypes'
<1> USE ConversionAssumption DEF library, tables, users, said, others, task, Surprise, Planned,
   ConvertTypeOK, TableTypes, TaskTypes, LibraryTypes, OtherTypes, Shaped, RowSteps,
   Unjournaled, Rows, Owned, Records, INTENT, WRITTEN, MOVED, CONVERTED
<1>1. CASE Wake \/ ReadRun \/ (\E hour \in BOOLEAN : Begin(hour)) \/ Stopped \/ Walk \/ List
           \/ ListForAnother \/ (\E r \in rows : Resume(r)) \/ (\E r \in rows : WriteBack(r))
  BY <1>1 DEF Wake, ReadRun, Begin, Ends, Resting, Unfinished, Unscanned, Stopped, Walk, List,
     Lists, ListForAnother, Resume, WriteBack, Put, OtherRows, Kept, InTables
<1>2. CASE (\E p \in todo : Keep(p)) \/ (\E p \in todo : Look(p)) \/ WriteTarget \/ Forget
  BY <1>2 DEF Keep, Look, At, WriteTarget, Source, Target, Goes, OnDisk, Forget, Onward,
     OtherRows, InTables
<1>3. CASE Owners \/ Remove
  BY <1>3, ZenonT(60) DEF Owners, Goes, MoveOwner, InTables, Remove, Removable, Source, OnDisk
<1>4. CASE Undo \/ Return \/ Remap
  BY <1>4, ZenonT(60) DEF Undo, Goes, Target, OnDisk, Return, MoveOwner, InTables, Remap, Unscanned
<1>5. CASE Rescan \/ Settle \/ Rescanned \/ Finish \/ Done \/ BeginFails \/ Waits \/ WriteFails \/ RemoveFails
           \/ SettleFails
  BY <1>5, ZenonT(60) DEF Rescan, Settle, Goes, InTables, Rescanned, Ends, EndsWaiting, Resting, Finish,
     Done, BeginFails, Waits, WriteFails, Source, Target, OnDisk, RemoveFails, Onward, SettleFails
<1>6. CASE Confirm \/ Check \/ CancelRun \/ Preview \/ (\E c \in calls : Store(c))
           \/ (\E c \in calls : Tell(c) \/ Leaves(c)) \/ Deletes \/ Renames \/ Drops
  BY <1>6 DEF Confirm, Asks, Check, CancelRun, Preview, Store, Tell, Leaves, Deletes, HasFile, Aside,
     Renames, Drops
<1>7. CASE Finds \/ Deliver \/ (\E p \in Places : Occupies(p)) \/ Looks \/ Reads \/ Judges
           \/ Crash
  BY <1>7, ZenonT(60) DEF Finds, Aside, Deliver, Occupies, Looks, ToRescan, Reads, Judges, Lists, Off,
     Crash, Ends, Resting
<1>8. CASE Intend
  BY <1>8, StateRange, AdvanceRow DEF Intend, Advance, Put, OtherRows, InTables
<1>9. CASE Written
  BY <1>9, StateRange, AdvanceRow DEF Written, Advance, Put, OtherRows, InTables
<1>10. CASE Moved
  BY <1>10, StateRange, AdvanceRow DEF Moved, Advance, Put, OtherRows, InTables
<1>11. CASE Removed
  BY <1>11, ReachedRow, StateRange DEF Removed, Onward, Kept, Put, OtherRows, InTables
<1> QED
  BY <1>1, <1>2, <1>3, <1>4, <1>5, <1>6, <1>7, <1>8, <1>9, <1>10, <1>11
     DEF ConvertNext, Works, Serves

\* What the job says has its type.
SaidTypes == state \in {"idle", "running", "waiting", "cancelled"} /\ crossed \in BOOLEAN

LEMMA SaysTypes ==
  ASSUME UserTypes, UNCHANGED said \/ \E its : \/ Says("running", its) \/ Says("waiting", its)
                                              \/ Says("idle", its)
  PROVE  SaidTypes'
<1>1. state' \in {"idle", "running", "waiting", "cancelled"}
  BY DEF UserTypes, said, Says
<1>2. crossed' \in BOOLEAN
  <2>1. CASE UNCHANGED said
    BY <2>1 DEF UserTypes, said
  <2>2. ASSUME NEW its, crossed' = (fresh /\ run # its)
        PROVE  crossed' \in BOOLEAN
    BY <2>2
  <2> QED
    BY <2>1, <2>2 DEF Says
<1> QED
  BY <1>1, <1>2 DEF SaidTypes

LEMMA UserTypesStep ==
  ASSUME ConvertTypeOK, Shaped, ConvertNext
  PROVE  UserTypes'
<1> USE ConversionAssumption DEF library, tables, users, others, task, Surprise, Planned,
   ConvertTypeOK, UserTypes
<1>a. UNCHANGED users => UserTypes'
  BY DEF said
<1>b. UNCHANGED <<want, run, said, calls, requests>> /\ stop' \in BOOLEAN => UserTypes'
  BY DEF said
<1>c. UNCHANGED <<want, run, stop, calls, requests>> /\ SaidTypes' => UserTypes'
  BY DEF SaidTypes
<1>1. CASE Wake \/ ReadRun \/ Stopped \/ Walk \/ List
           \/ ListForAnother \/ (\E r \in rows : Resume(r)) \/ (\E r \in rows : WriteBack(r))
  <2>1. CASE Wake
    BY <1>b, <2>1 DEF Wake
  <2>2. CASE ReadRun \/ Stopped \/ Walk \/ List \/ ListForAnother
    BY <1>a, <2>2 DEF ReadRun, Stopped, Walk, List, ListForAnother
  <2>3. CASE (\E r \in rows : Resume(r)) \/ (\E r \in rows : WriteBack(r))
    BY <1>a, <2>3 DEF Resume, WriteBack, InTables
  <2> QED
    BY <1>1, <2>1, <2>2, <2>3
<1>2. CASE (\E p \in todo : Keep(p)) \/ (\E p \in todo : Look(p)) \/ Intend \/ WriteTarget
           \/ Forget \/ Written \/ Owners \/ Moved \/ Remove
  BY <1>2, <1>a DEF Keep, Look, Intend, Advance, InTables, WriteTarget, OnDisk, Forget, Written,
     Owners, Moved, Remove
<1>3. CASE Removed \/ Undo \/ Return \/ Remap \/ Rescan \/ Settle
  BY <1>3, <1>a DEF Removed, Undo, Return, Remap, Rescan, Settle, InTables, OnDisk
<1>4. CASE BeginFails \/ WriteFails \/ RemoveFails \/ SettleFails
  BY <1>4, <1>a DEF BeginFails, WriteFails, RemoveFails, SettleFails, OnDisk
<1>11. ASSUME NEW hour \in BOOLEAN, Begin(hour)
      PROVE  UserTypes'
  <2>1. UNCHANGED <<want, run, stop, calls, requests>>
    BY <1>11 DEF Begin
  <2>2. UNCHANGED said \/ Says("running", "due")
    BY <1>11 DEF Begin
  <2>3. SaidTypes'
    BY <2>2, SaysTypes
  <2> QED
    BY <1>c, <2>1, <2>3
<1>12. CASE Waits \/ Rescanned \/ Done
  <2>1. UNCHANGED <<want, run, stop, calls, requests>>
    BY <1>12 DEF Waits, Rescanned, Done, EndsWaiting
  <2>2. UNCHANGED said \/ Says("waiting", "due") \/ Says("idle", None)
    BY <1>12 DEF Waits, Rescanned, Done, EndsWaiting
  <2>3. SaidTypes'
    BY <2>2, SaysTypes
  <2> QED
    BY <1>c, <2>1, <2>3
<1>13. CASE Finish
  <2>1. run' \in {"due", "cancelled", None}
    BY <1>13 DEF Finish
  <2> QED
    BY <1>13, <2>1 DEF Finish, said
<1>5. CASE Confirm \/ Check
  BY <1>5 DEF Confirm, Asks, Check, said
<1>6. CASE CancelRun
  BY <1>6 DEF CancelRun, Asks, said
<1>7. CASE Preview
  BY <1>7 DEF Preview, said
<1>8. ASSUME NEW c \in calls, Store(c)
      PROVE  UserTypes'
  <2>1. UNCHANGED <<want, said, stop, requests>> /\ calls' = (calls \ {c}) \cup {[c EXCEPT !.at = "tell"]}
    BY <1>8 DEF Store
  <2>2. [c EXCEPT !.at = "tell"] \in [kind : {"start", "cancel"}, at : {"store", "tell"}]
    OBVIOUS
  <2>3. run' \in {"due", "cancelled", None}
    BY <1>8 DEF Store, RunOf
  <2> QED
    BY <2>1, <2>2, <2>3 DEF said
<1>14. ASSUME NEW c \in calls, Tell(c) \/ Leaves(c)
      PROVE  UserTypes'
  <2>1. UNCHANGED <<want, run, requests>> /\ calls' \subseteq calls /\ stop' \in BOOLEAN
    BY <1>14 DEF Tell, Leaves
  <2>2. state' \in {"idle", "running", "waiting", "cancelled"}
    BY <1>14 DEF Tell, Leaves
  <2>3. crossed' \in BOOLEAN
    BY <1>14 DEF Tell, Leaves
  <2> QED
    BY <2>1, <2>2, <2>3
<1>9. CASE Deletes \/ Renames \/ Drops \/ Finds \/ Deliver \/ (\E p \in Places : Occupies(p))
           \/ Looks \/ Reads \/ Judges
  BY <1>9, <1>a DEF Deletes, Aside, Renames, Drops, Finds, Deliver, Occupies, Looks, Reads, Judges
<1>10. CASE Crash
  <2>1. UNCHANGED <<want, run, requests>> /\ calls' = {} /\ stop' = FALSE
    BY <1>10 DEF Crash
  <2>3. crossed' \in BOOLEAN
    BY <1>10 DEF Crash
  <2>2. state' \in {"idle", "running", "waiting", "cancelled"}
    BY <1>10 DEF Crash
  <2> QED
    BY <2>1, <2>2, <2>3
<1> QED
  BY <1>1, <1>2, <1>3, <1>4, <1>5, <1>6, <1>7, <1>8, <1>9, <1>10, <1>11, <1>12,
     <1>13, <1>14 DEF ConvertNext, Works, Serves

LEMMA TaskTypesStep ==
  ASSUME ConvertTypeOK, Shaped, ConvertNext
  PROVE  TaskTypes'
<1> USE ConversionAssumption DEF library, tables, users, said, others, task, Surprise, Planned,
   ConvertTypeOK, TaskTypes, TableTypes, LibraryTypes, Shaped, RowSteps, Unjournaled, Rows,
   INTENT, WRITTEN, MOVED, CONVERTED
<1>1. CASE Wake
  BY <1>1 DEF Wake
<1>2. CASE Stopped
  BY <1>2 DEF Stopped, Ends, Resting
<1>3. CASE Walk \/ (\E r \in rows : WriteBack(r))
  BY <1>3 DEF Walk, WriteBack, Put, OtherRows, Kept, InTables
<1>4. CASE (\E p \in todo : Keep(p)) \/ WriteTarget \/ Forget \/ Owners \/ Remove
  BY <1>4 DEF Keep, WriteTarget, Source, Target, Goes, OnDisk, Forget, Onward, OtherRows,
     InTables, Owners, MoveOwner, Remove, Removable
<1>5. CASE Removed \/ Undo \/ Return \/ Remap
  BY <1>5 DEF Removed, Onward, Kept, Put, OtherRows, InTables, Undo, Goes, Target, OnDisk,
     Return, MoveOwner, Remap, Unscanned
<1>6. CASE Settle
  BY <1>6 DEF Settle, Goes, InTables
<1>7. CASE Done
  BY <1>7 DEF Done, Ends, Resting
<1>8. CASE BeginFails \/ Waits
  <2>1. Ends
    BY <1>8 DEF BeginFails, Waits, EndsWaiting
  <2> QED
    BY <2>1 DEF Ends, Resting
<1>9. CASE WriteFails \/ RemoveFails
  BY <1>9 DEF WriteFails, Goes, Source, Target, OnDisk, RemoveFails, Onward
<1>10. CASE Confirm \/ Check \/ CancelRun \/ Preview \/ (\E c \in calls : Store(c))
            \/ (\E c \in calls : Tell(c) \/ Leaves(c)) \/ Deletes \/ Renames \/ Drops
  BY <1>10, ZenonT(60) DEF Confirm, Asks, Check, CancelRun, Preview, Store, Tell, Leaves, Deletes, HasFile, Aside,
     Renames, Drops
<1>11. CASE Finds \/ Deliver \/ (\E p \in Places : Occupies(p))
  BY <1>11 DEF Finds, Aside, Deliver, Occupies
<1>12. CASE Looks \/ Reads
  BY <1>12 DEF Looks, ToRescan, Reads
<1>13. CASE Judges
  BY <1>13 DEF Judges, Lists, Off
<1>14. CASE Crash
  BY <1>14 DEF Crash, Ends, Resting, Off
<1>15. CASE ReadRun
  <2>1. \A b \in BOOLEAN : [job EXCEPT !.run = b] \in [run : BOOLEAN, side : Sides \cup {None}, files : Records \cup {None}]
    OBVIOUS
  <2>2. (run = "due") \in BOOLEAN
    OBVIOUS
  <2>3. job' = [job EXCEPT !.run = (run = "due")] \/ job' = job
    BY <1>15 DEF ReadRun
  <2>4. job' \in [run : BOOLEAN, side : Sides \cup {None}, files : Records \cup {None}]
    BY <2>1, <2>2, <2>3
  <2>5. QED
    BY <1>15, <2>4 DEF ReadRun
<1>16. ASSUME NEW hour \in BOOLEAN, Begin(hour)
      PROVE  TaskTypes'
  <2>1. CASE Ends
    BY <1>16, <2>1 DEF Begin, Ends, Resting
  <2>2. CASE ~Ends
    <3>1. job' = [job EXCEPT !.side = want] /\ want \in Sides
      BY <1>16, <2>2 DEF Begin, UserTypes
    <3>2. job' \in [run : BOOLEAN, side : Sides \cup {None}, files : Records \cup {None}]
      BY <3>1
    <3>3. rows' \subseteq Rows
      BY <1>16, <2>2 DEF Begin, Unfinished
    <3>4. QED
      BY <1>16, <2>2, <3>2, <3>3 DEF Begin
  <2>3. QED
    BY <2>1, <2>2
<1>17. CASE List
  BY <1>17 DEF List, Lists, Records
<1>18. CASE ListForAnother
  BY <1>18 DEF ListForAnother, Records
<1>19. ASSUME NEW r \in rows, Resume(r)
      PROVE  TaskTypes'
  BY <1>19 DEF Resume, Records
<1>20. ASSUME NEW p \in todo, Look(p)
      PROVE  TaskTypes'
  <2>1. p \in Places /\ job.side \in Sides /\ At(p, job.side) \in Places
    BY <1>20, AtType DEF Look
  <2>2. cur' \in Rows
    BY <1>20, <2>1 DEF Look, Owned
  <2>3. QED
    BY <1>20, <2>2 DEF Look
<1>21. CASE Intend
  BY <1>21, StateRange, AdvanceRow DEF Intend, Advance, Put, OtherRows, InTables
<1>22. CASE Written
  BY <1>22, StateRange, AdvanceRow DEF Written, Advance, Put, OtherRows, InTables
<1>23. CASE Moved
  BY <1>23, StateRange, AdvanceRow DEF Moved, Advance, Put, OtherRows, InTables
<1>24. CASE Rescan
  <2>1. \A r \in Rows : Answered(r) \in Rows
    BY AnsweredRow
  <2>2. rows' \subseteq Rows
    BY <1>24, <2>1 DEF Rescan
  <2>3. seen' \in Nat \cup {None} /\ pc' \in {"back", "settle"}
    BY <1>24 DEF Rescan, Records
  <2>4. QED
    BY <1>24, <2>2, <2>3 DEF Rescan
<1>25. CASE Rescanned
  <2>1. CASE Ends
    BY <1>25, <2>1 DEF Rescanned, Ends, Resting
  <2>2. CASE Goes("finish")
    BY <1>25, <2>2 DEF Rescanned, Goes
  <2>3. QED
    BY <1>25, <2>1, <2>2 DEF Rescanned, EndsWaiting
<1>26. CASE Finish
  <2>1. CASE Ends
    BY <1>26, <2>1 DEF Finish, Ends, Resting
  <2>2. CASE Goes("done")
    BY <1>26, <2>2 DEF Finish, Goes
  <2>3. QED
    BY <1>26, <2>1, <2>2 DEF Finish
<1>27. CASE SettleFails
  BY <1>27, UnansweredRow DEF SettleFails
<1> QED
  BY <1>1, <1>2, <1>3, <1>4, <1>5, <1>6, <1>7, <1>8, <1>9, <1>10, <1>11, <1>12, <1>13, <1>14,
     <1>15, <1>16, <1>17, <1>18, <1>19, <1>20, <1>21, <1>22, <1>23, <1>24, <1>25, <1>26, <1>27
     DEF ConvertNext, Works, Serves

LEMMA OtherTypesStep ==
  ASSUME ConvertTypeOK, Shaped, ConvertNext
  PROVE  OtherTypes'
<1> USE ConversionAssumption DEF library, tables, users, said, others, task, Surprise, Planned,
   ConvertTypeOK, OtherTypes, Note, Rarities
<1>1. CASE Wake \/ ReadRun \/ (\E hour \in BOOLEAN : Begin(hour)) \/ Stopped \/ Walk \/ List
           \/ ListForAnother \/ (\E r \in rows : Resume(r)) \/ (\E r \in rows : WriteBack(r))
  BY <1>1 DEF Wake, ReadRun, Begin, Ends, Resting, Unfinished, Unscanned, Stopped, Walk, List,
     Lists, ListForAnother, Resume, WriteBack, Put, OtherRows, Kept, InTables
<1>2. CASE (\E p \in todo : Keep(p)) \/ (\E p \in todo : Look(p)) \/ Intend \/ WriteTarget
           \/ Forget \/ Written \/ Owners \/ Moved \/ Remove
  BY <1>2 DEF Keep, Look, At, Intend, Advance, Put, OtherRows, InTables, WriteTarget, Source,
     Target, Goes, OnDisk, Forget, Onward, Written, Owners, MoveOwner, Moved, Remove, Removable
<1>3. CASE Removed \/ Undo \/ Return \/ Remap \/ Rescan \/ Settle \/ Rescanned \/ Finish \/ Done
  BY <1>3 DEF Removed, Onward, Kept, Put, OtherRows, InTables, Undo, Goes, Target, OnDisk,
     Return, MoveOwner, Remap, Unscanned, Rescan, Settle, Rescanned, Ends, EndsWaiting, Resting,
     Finish, Done
<1>4. CASE BeginFails \/ Waits \/ WriteFails \/ RemoveFails \/ SettleFails \/ Confirm \/ Check \/ CancelRun
           \/ Preview \/ (\E c \in calls : Store(c))
  BY <1>4 DEF BeginFails, Waits, EndsWaiting, Ends, Resting, WriteFails, Goes, Source, Target, OnDisk,
     RemoveFails, Onward, SettleFails, Confirm, Asks, Check, CancelRun, Preview, Store
<1>5. CASE (\E c \in calls : Tell(c) \/ Leaves(c)) \/ Deletes \/ Renames \/ Drops \/ Finds \/ Deliver
           \/ (\E p \in Places : Occupies(p)) \/ Looks
  BY <1>5 DEF Tell, Leaves, Deletes, HasFile, Aside, Renames, Drops, Finds, Deliver, Occupies, Looks,
     ToRescan
<1>6. CASE Reads
  BY <1>6 DEF Reads, TableTypes, LibraryTypes
<1>7. CASE Judges
  BY <1>7 DEF Judges, Lists, Off, Owned
<1>8. CASE Crash
  BY <1>8 DEF Crash, Ends, Resting, Off, Owned
<1> QED
  BY <1>1, <1>2, <1>3, <1>4, <1>5, <1>6, <1>7, <1>8 DEF ConvertNext, Works, Serves

LEMMA SurprisesStep ==
  ASSUME ConvertTypeOK, Shaped, ConvertNext
  PROVE  surprises' \in 0 .. Surprises
<1> USE ConversionAssumption DEF library, tables, users, said, others, task, Surprise, Planned,
   ConvertTypeOK
<1>1. CASE Wake \/ ReadRun \/ (\E hour \in BOOLEAN : Begin(hour)) \/ Stopped \/ Walk \/ List
           \/ ListForAnother \/ (\E r \in rows : Resume(r)) \/ (\E r \in rows : WriteBack(r))
  BY <1>1 DEF Wake, ReadRun, Begin, Ends, Resting, Unfinished, Unscanned, Stopped, Walk, List,
     Lists, ListForAnother, Resume, WriteBack, Put, OtherRows, Kept, InTables
<1>2. CASE (\E p \in todo : Keep(p)) \/ (\E p \in todo : Look(p)) \/ Intend \/ WriteTarget
           \/ Forget \/ Written \/ Owners \/ Moved \/ Remove
  BY <1>2 DEF Keep, Look, At, Intend, Advance, Put, OtherRows, InTables, WriteTarget, Source,
     Target, Goes, OnDisk, Forget, Onward, Written, Owners, MoveOwner, Moved, Remove, Removable
<1>3. CASE Removed \/ Undo \/ Return \/ Remap \/ Settle \/ Rescanned \/ Finish \/ Done \/ BeginFails \/ Waits
  BY <1>3 DEF Removed, Onward, Kept, Put, OtherRows, InTables, Undo, Goes, Target, OnDisk,
     Return, MoveOwner, Remap, Unscanned, Settle, Rescanned, Ends, EndsWaiting, Resting, Finish,
     Done, BeginFails, Waits
<1>4. CASE WriteFails \/ RemoveFails \/ SettleFails \/ Confirm \/ Check \/ CancelRun \/ Preview
           \/ (\E c \in calls : Store(c)) \/ (\E c \in calls : Tell(c) \/ Leaves(c))
  BY <1>4 DEF WriteFails, Goes, Source, Target, OnDisk, RemoveFails, Onward, SettleFails,
     Confirm, Asks, Check, CancelRun, Preview, Store, Tell, Leaves
<1>5. CASE Deletes
  BY <1>5 DEF Deletes, HasFile, Aside
<1>6. CASE Renames
  BY <1>6 DEF Renames, HasFile, Aside
<1>7. CASE Drops \/ Finds
  BY <1>7 DEF Drops, HasFile, Aside, Finds
<1>8. CASE Deliver \/ (\E p \in Places : Occupies(p)) \/ Looks \/ Reads \/ Judges
  BY <1>8 DEF Deliver, Occupies, Aside, Looks, ToRescan, Reads, Judges, Lists, Off
<1>9. CASE Crash
  BY <1>9 DEF Crash, Ends, Resting, Off
<1>10. CASE Rescan
  <2> HIDE DEF Planned, Surprise
  <2>1. Planned \/ Surprise
    BY <1>10 DEF Rescan
  <2>2. QED
    BY <2>1 DEF Planned, Surprise
<1> QED
  BY <1>1, <1>2, <1>3, <1>4, <1>5, <1>6, <1>7, <1>8, <1>9, <1>10 DEF ConvertNext, Works, Serves

LEMMA ConvertTypeStep ==
  ASSUME ConvertTypeOK, Shaped, ConvertNext
  PROVE  ConvertTypeOK'
BY LibraryTypesStep, TableTypesStep, UserTypesStep, TaskTypesStep, OtherTypesStep, SurprisesStep
   DEF ConvertTypeOK

----------------------------------------------------------------------------
(***************************************************************************)
(* The rows of a pass and of the journal.                                  *)
(***************************************************************************)

LEMMA ShapedStep ==
  ASSUME ConvertTypeOK, Shaped, ConvertNext
  PROVE  Shaped'
<1> USE ConversionAssumption DEF library, tables, users, said, others, task, ConvertTypeOK, TaskTypes,
   Shaped, INTENT, WRITTEN, MOVED, CONVERTED, Unjournaled, RowSteps, TableTypes, UserTypes
<1>1. CASE Wake \/ ReadRun \/ Stopped \/ Walk \/ ListForAnother \/ (\E r \in rows : WriteBack(r))
           \/ (\E p \in todo : Keep(p)) \/ WriteTarget \/ Forget
  BY <1>1 DEF Wake, ReadRun, Stopped, Ends, Resting, Walk, ListForAnother, WriteBack, Put,
     OtherRows, Kept, InTables, Keep, WriteTarget, Source, Target, Goes, OnDisk, Forget, Onward
<1>2. CASE Owners \/ Remove \/ Removed \/ Undo \/ Return \/ Remap \/ Settle \/ Rescanned
           \/ Finish
  BY <1>2 DEF Owners, Goes, MoveOwner, InTables, Remove, Removable, Source, OnDisk, Removed,
     Onward, Kept, Put, OtherRows, Undo, Target, Return, Remap, Unscanned, Settle, Rescanned,
     Ends, EndsWaiting, Resting, Finish
<1>3. CASE Done \/ BeginFails \/ Waits \/ WriteFails \/ RemoveFails \/ Crash
  BY <1>3 DEF Done, Ends, Resting, BeginFails, Waits, EndsWaiting, WriteFails, Goes, Source, Target, OnDisk,
     RemoveFails, Onward, Crash, Off
<1>4. ASSUME NEW hour \in BOOLEAN, Begin(hour)
      PROVE  Shaped'
  BY <1>4 DEF Begin, Ends, Resting, Unfinished, Unscanned, Rows
<1>5. CASE List
  BY <1>5 DEF List, Lists, Rows
<1>6. ASSUME NEW r \in rows, Resume(r)
      PROVE  Shaped'
  <2>1. rows \subseteq Rows /\ rows' = rows \ {r} /\ cur' = r /\ r \in Rows /\ UNCHANGED <<job, check>>
    BY <1>6 DEF Resume
  <2>2. r.state < CONVERTED /\ r.state \in INTENT .. CONVERTED
    BY <1>6, <2>1 DEF Resume, Rows
  <2>3. CASE r.state = INTENT
    BY <1>6, <2>1, <2>3 DEF Resume
  <2>4. CASE r.state = WRITTEN
    BY <1>6, <2>1, <2>4 DEF Resume
  <2>5. CASE r.state = MOVED
    BY <1>6, <2>1, <2>5 DEF Resume
  <2>6. QED
    BY <2>2, <2>3, <2>4, <2>5
<1>7. ASSUME NEW p \in todo, Look(p)
      PROVE  Shaped'
  <2>1. p \in Places /\ job.side \in Sides /\ At(p, job.side) \in Places
    BY <1>7, AtType DEF Look
  <2>2. cur' \in Rows /\ cur'.state = INTENT
    BY <1>7, <2>1 DEF Look, Owned, Rows
  <2>3. QED
    BY <1>7, <2>2 DEF Look
<1>8. CASE Intend
  BY <1>8, StateRange, AdvanceRow DEF Intend, Advance, Put, OtherRows, InTables
<1>9. CASE Written
  BY <1>9, StateRange, AdvanceRow DEF Written, Advance, Put, OtherRows, InTables
<1>10. CASE Moved
  BY <1>10, StateRange, AdvanceRow DEF Moved, Advance, Put, OtherRows, InTables
<1>11. CASE Rescan
  <2>1. \A r \in Rows : Answered(r).state = r.state
    BY AnsweredRow
  <2>2. rows' = rows \/ rows' = {Answered(r) : r \in rows}
    BY <1>11 DEF Rescan
  <2>3. \A r \in rows' : r.state = CONVERTED
    BY <1>11, <2>1, <2>2 DEF Rescan
  <2>4. pc' = "settle" => seen' \in Nat
    BY <1>11 DEF Rescan, Records, LibraryTypes
  <2>5. pc = "rescan" /\ pc' \in {"settle", "back"} /\ UNCHANGED <<job, cur, check, resumed>>
    BY <1>11 DEF Rescan
  <2>6. QED
    BY <1>11, <2>3, <2>4, <2>5
<1>12. CASE SettleFails
  BY <1>12, UnansweredRow DEF SettleFails
<1>13. CASE Besides
  <2>1. CASE UNCHANGED check
    BY <1>13, <2>1, BesidesKeeps
  <2>2. CASE Looks \/ Reads \/ Judges
    <3>1. check'.at = "judge" => check'.arr \in Records
      <4>1. CASE Looks
        BY <4>1 DEF Looks, OtherTypes
      <4>2. CASE Reads
        BY <4>2 DEF Reads, OtherTypes, LibraryTypes
      <4>3. CASE Judges
        BY <4>3 DEF Judges, Off
      <4>4. QED
        BY <2>2, <4>1, <4>2, <4>3
    <3>2. QED
      BY <1>13, <3>1, BesidesKeeps
  <2>3. CASE ~(Looks \/ Reads \/ Judges)
    <3>1. UNCHANGED check
      BY <1>13, <2>3 DEF Besides, Confirm, Check, CancelRun, Preview, Serves, Store, Tell, Leaves, Asks,
         Aside, Deletes, Renames, Drops, Finds, Deliver, Occupies
    <3>2. QED
      BY <2>1, <3>1
  <2>4. QED
    BY <2>2, <2>3
<1> QED
  BY <1>1, <1>2, <1>3, <1>4, <1>5, <1>6, <1>7, <1>8, <1>9, <1>10, <1>11, <1>12, <1>13 DEF
     ConvertNext, Works, Besides

LEMMA LedStep ==
  ASSUME ConvertTypeOK, Shaped, Led, ConvertNext
  PROVE  Led'
<1> USE ConversionAssumption DEF library, tables, users, said, others, task, ConvertTypeOK, TaskTypes,
   Shaped, INTENT, WRITTEN, MOVED, CONVERTED, Unjournaled, RowSteps, TableTypes, Led, Leads
<1>1. CASE Wake \/ ReadRun \/ Stopped \/ Walk \/ ListForAnother \/ (\E p \in todo : Keep(p))
           \/ WriteTarget \/ Forget \/ Owners
  BY <1>1 DEF Wake, ReadRun, Stopped, Ends, Resting, Walk, ListForAnother, Keep, WriteTarget,
     Source, Target, Goes, OnDisk, Forget, Onward, OtherRows, InTables, Owners, MoveOwner
<1>2. CASE Remove \/ Undo \/ Return \/ Remap \/ Settle \/ Rescanned \/ Finish \/ Done \/ BeginFails \/ Waits
  BY <1>2 DEF Remove, Removable, Source, Goes, OnDisk, Undo, Target, Return, MoveOwner,
     InTables, Remap, Unscanned, Settle, Rescanned, Ends, EndsWaiting, Resting, Finish, Done,
     BeginFails, Waits
<1>3. CASE WriteFails \/ RemoveFails \/ Crash
  BY <1>3 DEF WriteFails, Goes, Source, Target, OnDisk, RemoveFails, Onward, Crash, Ends,
     Resting, Off
<1>4. ASSUME NEW hour \in BOOLEAN, Begin(hour)
      PROVE  Led'
  BY <1>4 DEF Begin, Ends, Resting, Unfinished, Unscanned, Rows
<1>5. CASE List
  BY <1>5 DEF List, Lists, Rows
<1>6. ASSUME NEW r \in rows, Resume(r)
      PROVE  Led'
  BY <1>6 DEF Resume, Rows
<1>7. ASSUME NEW r \in rows, WriteBack(r)
      PROVE  Led'
  <2>1. \/ r.owned = "rescanned" /\ journal' \subseteq journal \cup {r}
        \/ journal' \subseteq journal
    BY <1>7 DEF WriteBack, Kept, Put, OtherRows
  <2>2. \A q \in journal' : Leads(q) /\ (q.state = CONVERTED => q.owned = "rescanned")
    BY <1>7, <2>1, OneMore
  <2>3. QED
    BY <1>7, <2>2 DEF WriteBack
<1>8. ASSUME NEW p \in todo, Look(p)
      PROVE  Led'
  BY <1>8 DEF Look, At, Rows
<1>9. CASE Intend
  <2>1. journal' \subseteq journal \cup {cur'} /\ UNCHANGED <<rows, job>> /\ cur'.from = cur.from /\ cur'.to = cur.to
        /\ cur'.owned = cur.owned /\ cur'.state < CONVERTED /\ pc' \in RowSteps
    BY <1>9, StateRange, AdvanceRow DEF Intend, OtherRows
  <2>2. \A q \in journal' : Leads(q) /\ (q.state = CONVERTED => q.owned = "rescanned")
    BY <1>9, <2>1, OneMore DEF Intend
  <2>3. QED
    BY <1>9, <2>1, <2>2 DEF Intend
<1>10. CASE Written
  <2>1. journal' \subseteq journal \cup {cur'} /\ UNCHANGED <<rows, job>> /\ cur'.from = cur.from /\ cur'.to = cur.to
        /\ cur'.owned = cur.owned /\ cur'.state < CONVERTED /\ pc' \in RowSteps
    BY <1>10, StateRange, AdvanceRow DEF Written, OtherRows
  <2>2. \A q \in journal' : Leads(q) /\ (q.state = CONVERTED => q.owned = "rescanned")
    BY <1>10, <2>1, OneMore DEF Written
  <2>3. QED
    BY <1>10, <2>1, <2>2 DEF Written
<1>11. CASE Moved
  <2>1. journal' \subseteq journal \cup {cur'} /\ UNCHANGED <<rows, job>> /\ cur'.from = cur.from /\ cur'.to = cur.to
        /\ cur'.owned = cur.owned /\ cur'.state < CONVERTED /\ pc' \in RowSteps
    BY <1>11, StateRange, AdvanceRow DEF Moved, OtherRows
  <2>2. \A q \in journal' : Leads(q) /\ (q.state = CONVERTED => q.owned = "rescanned")
    BY <1>11, <2>1, OneMore DEF Moved
  <2>3. QED
    BY <1>11, <2>1, <2>2 DEF Moved
<1>12. CASE Removed
  <2> DEFINE row == Reached(cur, CONVERTED)
  <2>1. row.from = cur.from /\ row.to = cur.to /\ row.owned = cur.owned /\ row.state = CONVERTED
    BY <1>12, ReachedRow, StateRange DEF Removed
  <2>2. \/ cur.owned = "rescanned" /\ journal' \subseteq journal \cup {row}
        \/ journal' \subseteq journal
    BY <1>12 DEF Removed, Kept, Put, OtherRows
  <2> HIDE DEF row
  <2>3. \A q \in journal' : Leads(q) /\ (q.state = CONVERTED => q.owned = "rescanned")
    BY <1>12, <2>1, <2>2, OneMore DEF Removed
  <2>4. QED
    BY <1>12, <2>3 DEF Removed, Onward
<1>13. CASE Rescan
  <2>1. \A r \in Rows : Answered(r).from = r.from /\ Answered(r).to = r.to
    BY AnsweredRow
  <2>2. rows' = rows \/ rows' = {Answered(r) : r \in rows}
    BY <1>13 DEF Rescan
  <2>3. \A r \in rows' : r.from # r.to
    BY <2>1, <2>2
  <2>4. pc' \in {"settle", "back"} /\ UNCHANGED journal
    BY <1>13 DEF Rescan
  <2>5. QED
    BY <2>3, <2>4
<1>14. CASE SettleFails
  BY <1>14, UnansweredRow DEF SettleFails
<1>15. CASE Besides
  BY <1>15, BesidesKeeps
<1> QED
  BY <1>1, <1>2, <1>3, <1>4, <1>5, <1>6, <1>7, <1>8, <1>9, <1>10, <1>11, <1>12, <1>13, <1>14,
     <1>15 DEF ConvertNext, Works, Besides

LEMMA OneRowStep ==
  ASSUME ConvertTypeOK, Shaped, Led, OneRow, ConvertNext
  PROVE  OneRow'
<1> USE DEF library, tables, users, said, others, task, ConvertTypeOK, TaskTypes, TableTypes, Shaped,
   Led, OneRow, INTENT, WRITTEN, MOVED, CONVERTED, Unjournaled, RowSteps
<1>1. CASE Wake \/ ReadRun \/ Stopped \/ Walk \/ List \/ ListForAnother
           \/ (\E p \in todo : Keep(p)) \/ WriteTarget \/ Remove
  BY <1>1 DEF Wake, ReadRun, Stopped, Ends, Resting, Walk, List, Lists, ListForAnother, Keep,
     WriteTarget, Source, Target, Goes, OnDisk, Remove, Removable
<1>2. CASE Undo \/ Remap \/ Rescanned \/ Done \/ BeginFails \/ Waits \/ WriteFails \/ RemoveFails \/ Crash
  BY <1>2 DEF Undo, Goes, Target, OnDisk, Remap, Unscanned, Rescanned, Ends, EndsWaiting,
     Resting, Done, BeginFails, Waits, WriteFails, Source, RemoveFails, Onward, Crash, Off
<1>3. ASSUME NEW hour \in BOOLEAN, Begin(hour)
      PROVE  OneRow'
  BY <1>3, PastGrows DEF Begin, Ends, Resting, Unfinished, Unscanned, Note, Rows
<1>4. ASSUME NEW r \in rows, Resume(r)
      PROVE  OneRow'
  <2>1. UNCHANGED <<journal, past>>
    BY <1>4 DEF Resume
  <2>2. pc = "resume" /\ cur' = r /\ rows' = rows \ {r} /\ pc' \in RowSteps
    BY <1>4, ResumeTo
  <2>3. "again" \notin past => rows = {r} /\ journal = {r}
    BY <2>2
  <2>4. QED
    BY <2>1, <2>2, <2>3
<1>5. ASSUME NEW r \in rows, WriteBack(r)
      PROVE  OneRow'
  <2>1. "again" \notin past => rows' = {} /\ OtherRows(r) = {}
    <3>1. "again" \notin past => rows = {r} /\ Stored(r)
      BY <1>5 DEF WriteBack
    <3>2. "again" \notin past => OtherRows(r) = {}
      BY <3>1, NoOthers DEF Stored
    <3>3. QED
      BY <1>5, <3>1, <3>2 DEF WriteBack
  <2>2. QED
    BY <1>5, <2>1 DEF WriteBack, Put
<1>6. ASSUME NEW p \in todo, Look(p)
      PROVE  OneRow'
  BY <1>6 DEF Look, At, Rows
<1>7. CASE Intend
  <2>1. journal' = OtherRows(cur) \cup {cur'} /\ UNCHANGED <<rows, past>> /\ pc' \in RowSteps
    BY <1>7, StateRange, AdvanceRow DEF Intend
  <2>2. "again" \notin past => journal' = {cur'} /\ rows = {}
    BY <1>7, <2>1, NoOthers DEF Intend
  <2>3. QED
    BY <1>7, <2>1, <2>2 DEF Intend
<1>8. CASE Forget
  <2>1. "again" \notin past => OtherRows(cur) = {}
    BY <1>8, NoOthers DEF Forget
  <2>2. QED
    BY <1>8, <2>1 DEF Forget, Onward
<1>9. CASE Written
  <2>1. journal' = OtherRows(cur) \cup {cur'} /\ UNCHANGED <<rows, past>> /\ pc' \in RowSteps
    BY <1>9, StateRange, AdvanceRow DEF Written
  <2>2. "again" \notin past => journal' = {cur'} /\ rows = {}
    BY <1>9, <2>1, NoOthers DEF Written
  <2>3. QED
    BY <1>9, <2>1, <2>2 DEF Written
<1>10. CASE Owners
  BY <1>10, PastGrows DEF Owners, Goes, MoveOwner, InTables
<1>11. CASE Moved
  <2>1. journal' = OtherRows(cur) \cup {cur'} /\ UNCHANGED <<rows, past>> /\ pc' \in RowSteps
    BY <1>11, StateRange, AdvanceRow DEF Moved
  <2>2. "again" \notin past => journal' = {cur'} /\ rows = {}
    BY <1>11, <2>1, NoOthers DEF Moved
  <2>3. QED
    BY <1>11, <2>1, <2>2 DEF Moved
<1>12. CASE Removed
  <2>1. Reached(cur, CONVERTED).from = cur.from
    BY <1>12, ReachedRow, StateRange DEF Removed
  <2>2. "again" \notin past => OtherRows(cur) = {} /\ OtherRows(Reached(cur, CONVERTED)) = {}
    BY <1>12, <2>1, NoOthers DEF Removed
  <2>3. "again" \notin past => \A r, q \in journal' : r = q
    BY <1>12, <2>2 DEF Removed, Put
  <2>4. QED
    BY <1>12, <2>3 DEF Removed, Onward
<1>13. CASE Return
  BY <1>13, PastGrows DEF Return, Goes, MoveOwner, InTables
<1>14. CASE Rescan
  <2>1. \A r \in Rows : LET a == Answered(r) IN
          a.from = r.from /\ a.to = r.to /\ a.state = r.state /\ a.owned \in {r.owned, "settled"}
    BY AnsweredRow
  <2>2. rows' = rows \/ rows' = {Answered(r) : r \in rows}
    BY <1>14 DEF Rescan
  <2>3. UNCHANGED <<journal, past>> /\ pc = "rescan" /\ pc' \in {"settle", "back"}
    BY <1>14 DEF Rescan
  <2>4. "again" \notin past => \A r \in rows' : Stored(r)'
    BY <2>1, <2>2, <2>3 DEF Stored
  <2>5. QED
    BY <2>2, <2>3, <2>4
<1>15. CASE Settle
  BY <1>15 DEF Settle, Goes, InTables, Stored
<1>16. CASE Finish
  BY <1>16, PastGrows DEF Finish, Goes, Ends, Resting
<1>17. CASE SettleFails
  <2>1. \A r \in Rows : LET a == Unanswered(r) IN
          a.from = r.from /\ a.to = r.to /\ a.state = r.state /\ a.owned = "rescanned"
    BY UnansweredRow
  <2>2. rows' = {Unanswered(r) : r \in rows} /\ pc = "settle" /\ pc' = "back"
        /\ UNCHANGED <<journal, past>>
    BY <1>17 DEF SettleFails
  <2>3. "again" \notin past =>
          \A r \in rows : \E q \in journal : q.from = r.from /\ q.to = r.to /\ q.state = r.state
                                             /\ q.owned = "rescanned"
    BY <2>2 DEF Stored
  <2>4. "again" \notin past => \A r \in rows' : Stored(r)'
    BY <2>1, <2>2, <2>3 DEF Stored
  <2>5. QED
    BY <2>2, <2>4
<1>18. CASE Besides
  BY <1>18, BesidesKeeps, PastGrows DEF Stored
<1> QED
  BY <1>1, <1>2, <1>3, <1>4, <1>5, <1>6, <1>7, <1>8, <1>9, <1>10, <1>11, <1>12, <1>13, <1>14,
     <1>15, <1>16, <1>17, <1>18 DEF ConvertNext, Works, Besides

LEMMA RememberedStep ==
  ASSUME ConvertTypeOK, Shaped, Led, OneRow, Remembered, ConvertNext
  PROVE  Remembered'
<1> USE DEF library, tables, users, said, others, task, ConvertTypeOK, TaskTypes, TableTypes, Shaped,
   Led, Leads, OneRow, Remembered, ToRescan, Note, INTENT, WRITTEN, MOVED, CONVERTED,
   Unjournaled, RowSteps
<1>1. CASE Wake \/ ReadRun \/ (\E hour \in BOOLEAN : Begin(hour)) \/ Stopped \/ Walk \/ List
           \/ ListForAnother \/ (\E p \in todo : Keep(p)) \/ Intend
  BY <1>1 DEF Wake, ReadRun, Begin, Ends, Resting, Unfinished, Unscanned, Stopped, Walk, List,
     Lists, ListForAnother, Keep, Intend, Advance, Put, OtherRows, InTables
<1>2. CASE WriteTarget \/ Forget \/ Written \/ Remove
  BY <1>2 DEF WriteTarget, Source, Target, Goes, OnDisk, Forget, Onward, OtherRows, InTables,
     Written, Advance, Put, Remove, Removable
<1>3. CASE Undo \/ Remap
  BY <1>3 DEF Undo, Goes, Target, OnDisk, Remap, Unscanned
<1>4. CASE Settle
  BY <1>4 DEF Settle, Goes, InTables
<1>5. CASE Rescanned \/ Finish
  BY <1>5 DEF Rescanned, Ends, EndsWaiting, Resting, Goes, Finish
<1>6. CASE Done \/ BeginFails \/ Waits \/ WriteFails \/ RemoveFails \/ Crash
  BY <1>6 DEF Done, Ends, Resting, BeginFails, Waits, EndsWaiting, WriteFails, Goes, Source, Target, OnDisk,
     RemoveFails, Onward, Crash, Off
<1>7. ASSUME NEW r \in rows, Resume(r)
      PROVE  Remembered'
  BY <1>7, ResumeTo DEF Resume
<1>8. ASSUME NEW r \in rows, WriteBack(r)
      PROVE  Remembered'
  <2> SUFFICES ASSUME past' \cap {"renamed", "again"} = {}, ToRescan'
               PROVE  /\ \E x \in journal' : x.owned = "rescanned" /\ x.to = owner'.at
                                             /\ x.state # INTENT
                      /\ pc' # "forget"
                      /\ pc' = "back" => \A x \in rows' : x.owned # "settled"
    BY DEF Remembered, ToRescan
  <2> past \cap {"renamed", "again"} = {}
    BY PastGrows
  <2>1. UNCHANGED owner /\ ToRescan
    BY <1>8 DEF WriteBack, InTables
  <2>2. PICK q \in journal : q.owned = "rescanned" /\ q.to = owner.at /\ q.state # INTENT
    BY <2>1
  <2>3. Stored(r) /\ r.owned # "settled" /\ r.state = CONVERTED
    BY <1>8, <2>1 DEF WriteBack
  <2>4. r.owned = "rescanned" /\ r.to = owner.at
    BY <2>2, <2>3 DEF Stored
  <2>5. r \in journal' /\ pc' = pc /\ rows' \subseteq rows
    BY <1>8, <2>4 DEF WriteBack, Kept, Put
  <2>6. QED
    BY <1>8, <2>1, <2>3, <2>4, <2>5 DEF WriteBack
<1>9. ASSUME NEW p \in todo, Look(p)
      PROVE  Remembered'
  BY <1>9 DEF Look, At, Rows
<1>10. CASE Owners
  <2> SUFFICES ASSUME past' \cap {"renamed", "again"} = {}, ToRescan'
               PROVE  /\ \E x \in journal' : x.owned = "rescanned" /\ x.to = owner'.at
                                             /\ x.state # INTENT
                      /\ pc' # "forget"
                      /\ pc' = "back" => \A x \in rows' : x.owned # "settled"
    BY DEF Remembered, ToRescan
  <2> past \cap {"renamed", "again"} = {}
    BY PastGrows
  <2>1. cur \in Rows /\ cur.state = WRITTEN /\ journal = {cur} /\ journal' = journal /\ pc' = "moved"
    BY <1>10 DEF Owners, Goes, InTables
  <2>2. CASE owner' = owner
    BY <2>1, <2>2
  <2>3. CASE owner' = [owner EXCEPT !.at = cur.to, !.pending = (cur.owned = "rescanned")] /\ owner # None
    BY <2>1, <2>3 DEF Owned
  <2>4. QED
    BY <1>10, <2>2, <2>3 DEF Owners, MoveOwner
<1>11. CASE Moved
  <2> SUFFICES ASSUME past' \cap {"renamed", "again"} = {}, ToRescan'
               PROVE  /\ \E x \in journal' : x.owned = "rescanned" /\ x.to = owner'.at
                                             /\ x.state # INTENT
                      /\ pc' # "forget"
                      /\ pc' = "back" => \A x \in rows' : x.owned # "settled"
    BY DEF Remembered, ToRescan
  <2> past \cap {"renamed", "again"} = {}
    BY PastGrows
  <2>1. cur \in Rows /\ journal = {cur} /\ cur.from = cur'.from /\ cur.to = cur'.to /\ cur'.owned = cur.owned
        /\ cur'.state = MOVED /\ UNCHANGED owner
    BY <1>11, StateRange, AdvanceRow DEF Moved
  <2>2. cur' \in journal' /\ pc' = "remove"
    BY <1>11, StateRange, AdvanceRow DEF Moved
  <2>3. QED
    BY <2>1, <2>2
<1>12. CASE Removed
  <2> SUFFICES ASSUME past' \cap {"renamed", "again"} = {}, ToRescan'
               PROVE  /\ \E x \in journal' : x.owned = "rescanned" /\ x.to = owner'.at
                                             /\ x.state # INTENT
                      /\ pc' # "forget"
                      /\ pc' = "back" => \A x \in rows' : x.owned # "settled"
    BY DEF Remembered, ToRescan
  <2> past \cap {"renamed", "again"} = {}
    BY PastGrows
  <2> DEFINE row == Reached(cur, CONVERTED)
  <2>1. cur \in Rows /\ journal = {cur} /\ row.to = cur.to /\ row.owned = cur.owned /\ row.state = CONVERTED
        /\ UNCHANGED owner
    BY <1>12, ReachedRow, StateRange DEF Removed, InTables
  <2>2. cur.owned = "rescanned" /\ cur.to = owner.at
    BY <2>1
  <2>3. row \in journal'
    BY <1>12, <2>2 DEF Removed, Kept, Put
  <2>4. pc' \in {"resume", "files"}
    BY <1>12 DEF Removed, Onward
  <2>5. QED
    BY <2>1, <2>2, <2>3, <2>4
<1>13. CASE Return
  BY <1>13 DEF Return, Goes, MoveOwner, InTables, Owned
<1>14. CASE Rescan
  BY <1>14 DEF Rescan, Owned
<1>15. CASE SettleFails
  <2> SUFFICES ASSUME past' \cap {"renamed", "again"} = {}, ToRescan'
               PROVE  /\ \E x \in journal' : x.owned = "rescanned" /\ x.to = owner'.at
                                             /\ x.state # INTENT
                      /\ pc' # "forget"
                      /\ pc' = "back" => \A x \in rows' : x.owned # "settled"
    BY DEF Remembered, ToRescan
  <2> past \cap {"renamed", "again"} = {}
    BY PastGrows
  <2>1. \A r \in Rows : Unanswered(r).owned = "rescanned"
    BY UnansweredRow
  <2>2. rows' = {Unanswered(r) : r \in rows} /\ UNCHANGED <<journal, owner>> /\ pc' = "back"
    BY <1>15 DEF SettleFails
  <2>3. \A r \in rows' : r.owned = "rescanned"
    BY <2>1, <2>2
  <2>4. QED
    BY <2>2, <2>3
<1>16. CASE Besides
  <2> SUFFICES ASSUME past' \cap {"renamed", "again"} = {}, ToRescan'
               PROVE  /\ \E x \in journal' : x.owned = "rescanned" /\ x.to = owner'.at
                                             /\ x.state # INTENT
                      /\ pc' # "forget"
                      /\ pc' = "back" => \A x \in rows' : x.owned # "settled"
    BY DEF Remembered, ToRescan
  <2> past \cap {"renamed", "again"} = {}
    BY PastGrows
  <2>1. UNCHANGED <<journal, pc, rows>>
    BY <1>16, BesidesKeeps
  <2>2. CASE UNCHANGED owner
    BY <2>1, <2>2
  <2>3. CASE Deliver
    BY <2>1, <2>3 DEF Deliver, Owned
  <2>4. CASE Judges
    BY <2>1, <2>4 DEF Judges, Owned
  <2>5. CASE ~(Deliver \/ Judges)
    <3>1. UNCHANGED owner
      BY <1>16, <2>5 DEF Besides, Confirm, Check, CancelRun, Preview, Serves, Store, Tell, Leaves, Asks,
         Aside, Deletes, Renames, Drops, Finds, Occupies, Looks, Reads
    <3>2. QED
      BY <2>2, <3>1
  <2>6. QED
    BY <2>3, <2>4, <2>5
<1> QED
  BY <1>1, <1>2, <1>3, <1>4, <1>5, <1>6, <1>7, <1>8, <1>9, <1>10, <1>11, <1>12, <1>13, <1>14,
     <1>15, <1>16 DEF ConvertNext, Works, Besides

----------------------------------------------------------------------------
(***************************************************************************)
(* The pointers.                                                           *)
(***************************************************************************)

\* Two pointers stay two but for a deletion.
LEMMA TwoStay ==
  ASSUME ConvertTypeOK, Besides, TwoPointers
  PROVE  "deleted" \in past' \/ TwoPointers'
<1> USE ConversionAssumption DEF library, tables, users, said, others, task, ConvertTypeOK,
   LibraryTypes, TwoPointers
<1>1. CASE UNCHANGED disk
  BY <1>1
<1>2. CASE Deletes
  BY <1>2 DEF Deletes, Note
<1>3. CASE Renames
  <2>1. PICK to \in Places : disk[to] = None /\ disk' = [disk EXCEPT ![arr.at] = None, ![to] = "ours"]
                             /\ arr.at \in Places /\ to # arr.at
    BY <1>3, RenamesTo
  <2>2. PICK p, q \in Places : p # q /\ disk[p] = "ours" /\ disk[q] = "ours"
    OBVIOUS
  <2>3. CASE p = arr.at
    BY <2>1, <2>2, <2>3
  <2>4. CASE q = arr.at
    BY <2>1, <2>2, <2>4
  <2>5. CASE p # arr.at /\ q # arr.at
    BY <2>1, <2>2, <2>5
  <2>6. QED
    BY <2>3, <2>4, <2>5
<1>4. ASSUME NEW p \in Places, Occupies(p)
      PROVE  TwoPointers'
  BY <1>4 DEF Occupies
<1>5. CASE ~(Deletes \/ Renames \/ \E p \in Places : Occupies(p))
  <2>1. UNCHANGED disk
    BY <1>5 DEF Besides, Confirm, Check, CancelRun, Preview, Serves, Store, Tell, Leaves, Asks, Drops,
       Finds, Deliver, Looks, Reads, Judges
  <2>2. QED
    BY <1>1, <2>1
<1> QED
  BY <1>2, <1>3, <1>4, <1>5

\* Somebody else's file stays.
LEMMA ForeignStays ==
  ASSUME ConvertTypeOK, ConvertNext, NEW p \in Places, disk[p] = "foreign", ~WriteTarget, ~WriteFails, ~Remove, ~Undo
  PROVE  disk'[p] = "foreign"
<1> USE ConversionAssumption DEF library, tables, users, said, others, task, ConvertTypeOK,
   LibraryTypes
<1>2. CASE Deletes
  BY <1>2 DEF Deletes, HasFile
<1>3. CASE Renames
  BY <1>3, RenamesTo
<1>4. ASSUME NEW q \in Places, Occupies(q)
      PROVE  disk'[p] = "foreign"
  BY <1>4 DEF Occupies
<1>5. CASE ~(Deletes \/ Renames \/ \E q \in Places : Occupies(q))
  <2>1. CASE Besides
    BY <1>5, <2>1 DEF Besides, Confirm, Check, CancelRun, Preview, Serves, Store, Tell, Leaves, Asks,
       Aside, Drops, Finds, Deliver, Looks, Reads, Judges
  <2>2. CASE Works
    BY <2>2 DEF Works, Wake, ReadRun, Begin, Stopped, Walk, List, ListForAnother, Resume,
       WriteBack, Keep, Look, Intend, Advance, Forget, Written, Owners, Moved, Removed, Return,
       Remap, Rescan, Settle, Rescanned, Finish, Done, InTables
  <2>3. CASE BeginFails \/ Waits \/ RemoveFails \/ SettleFails \/ Crash
    BY <2>3 DEF BeginFails, Waits, RemoveFails, SettleFails, Crash
  <2>4. QED
    BY <2>1, <2>2, <2>3 DEF ConvertNext, Besides
<1> QED
  BY <1>2, <1>3, <1>4, <1>5

LEMMA DoubledStep ==
  ASSUME ConvertTypeOK, Shaped, Led, Doubled, ConvertNext
  PROVE  Doubled'
<1> USE ConversionAssumption DEF library, tables, users, said, others, task, ConvertTypeOK,
   LibraryTypes, TaskTypes, TableTypes, Shaped, Led, Leads, Doubled, Source, Target, OnDisk,
   Unjournaled, RowSteps
<1>1. CASE Wake \/ ReadRun \/ (\E hour \in BOOLEAN : Begin(hour)) \/ Stopped \/ Walk \/ List
           \/ ListForAnother \/ (\E r \in rows : WriteBack(r)) \/ (\E p \in todo : Keep(p))
  BY <1>1 DEF Wake, ReadRun, Begin, Ends, Resting, Unfinished, Unscanned, Stopped, Walk, List,
     Lists, ListForAnother, WriteBack, Put, OtherRows, Kept, InTables, Keep
<1>2. CASE (\E p \in todo : Look(p)) \/ Forget \/ Removed \/ Undo \/ Return \/ Remap \/ Rescan
           \/ Settle \/ Rescanned
  BY <1>2 DEF Look, At, Forget, Onward, OtherRows, InTables, Removed, Kept, Put, Undo, Goes,
     Target, OnDisk, Return, MoveOwner, Remap, Unscanned, Rescan, Settle, Rescanned, Ends,
     EndsWaiting, Resting
<1>3. CASE Finish \/ Done \/ BeginFails \/ Waits \/ WriteFails \/ RemoveFails \/ SettleFails \/ Crash
  BY <1>3 DEF Finish, Goes, Ends, Resting, Done, BeginFails, Waits, EndsWaiting, WriteFails, Source, Target,
     OnDisk, RemoveFails, Onward, SettleFails, Crash, Off
<1>4. ASSUME NEW r \in rows, Resume(r)
      PROVE  Doubled'
  BY <1>4, ResumeTo DEF Resume
<1>5. CASE Intend
 BY <1>5, StateRange, AdvanceRow DEF Intend, TwoPointers
<1>6. CASE WriteTarget
  <2>1. CASE Source = "ours" /\ Target # "foreign"
    <3>1. cur.from \in Places /\ cur.to \in Places /\ cur.from # cur.to /\ disk' = [disk EXCEPT ![cur.to] = "ours"]
      BY <1>6, <2>1 DEF WriteTarget, Rows
    <3>2. TwoPointers'
      BY <2>1, <3>1 DEF TwoPointers
    <3>3. QED
      BY <1>6, <2>1, <3>2 DEF WriteTarget, Goes
  <2>2. CASE ~(Source = "ours" /\ Target # "foreign")
    BY <1>6, <2>2 DEF WriteTarget, Goes
  <2>3. QED
    BY <2>1, <2>2
<1>7. CASE Written
 BY <1>7, StateRange, AdvanceRow DEF Written, TwoPointers
<1>8. CASE Owners
  BY <1>8, PastGrows DEF Owners, Goes, MoveOwner, InTables, TwoPointers
<1>9. CASE Moved
 BY <1>9, StateRange, AdvanceRow DEF Moved, TwoPointers
<1>10. CASE Remove
  <2>1. CASE Removable
    BY <1>10, <2>1 DEF Remove, Goes
  <2>2. CASE ~Removable
    <3>1. UNCHANGED <<disk, cur, resumed, past>> /\ cur.from \in Places
      BY <1>10, <2>2 DEF Remove, Goes, Removable, Rows
    <3>2. resumed => Source = "foreign"
      BY <2>2, <3>1 DEF Removable
    <3>3. QED
      BY <1>10, <3>1, <3>2 DEF Remove, TwoPointers
  <2>3. QED
    BY <2>1, <2>2
<1>11. CASE Besides
  <2>1. UNCHANGED <<pc, cur, resumed>>
    BY <1>11, BesidesKeeps
  <2>2. past \subseteq past'
    BY PastGrows
  <2>3. pc = "undo" /\ resumed => disk'[cur.from] = "foreign"
    BY <1>11, <2>1, ForeignStays DEF WriteTarget, WriteFails, Remove, Undo, Rows, Besides
  <2>4. QED
    BY <1>11, <2>1, <2>2, <2>3, TwoStay
<1> QED
  BY <1>1, <1>2, <1>3, <1>4, <1>5, <1>6, <1>7, <1>8, <1>9, <1>10, <1>11
     DEF ConvertNext, Works, Besides

\* No step takes the last pointer.
LEMMA LastKeptStep ==
  ASSUME ConvertTypeOK, Shaped, Led, Doubled, ConvertNext, HasPointer, ~HasPointer'
  PROVE  \/ "deleted" \in past'
         \/ resumed /\ pc = "undo" /\ Source = "foreign"
         \/ resumed /\ pc = "remove" /\ Target # "ours"
<1> USE ConversionAssumption DEF library, tables, users, said, others, task, ConvertTypeOK,
   LibraryTypes, TaskTypes, HasPointer, OnDisk, Source, Target
<1>1. CASE Deletes
  BY <1>1 DEF Deletes, Note
<1>2. CASE Renames
  BY <1>2, RenamesTo
<1>3. ASSUME NEW p \in Places, Occupies(p)
      PROVE  FALSE
  BY <1>3 DEF Occupies
<1>4. CASE WriteTarget \/ WriteFails
  <2>1. UNCHANGED disk \/ (cur.to \in Places /\ disk' = [disk EXCEPT ![cur.to] = "ours"])
    BY <1>4 DEF WriteTarget, WriteFails, Shaped, RowSteps, Rows
  <2>2. QED
    BY <2>1
<1>5. CASE Remove
  <2>1. cur \in Rows /\ cur.from \in Places /\ cur.to \in Places /\ cur.from # cur.to /\ pc = "remove"
        /\ past' = past
    BY <1>5 DEF Remove, Shaped, Led, Leads, RowSteps, Rows
  <2>2. \A p \in Places : p # cur.from => disk'[p] = disk[p]
    BY <1>5, <2>1 DEF Remove
  <2>3. CASE resumed
    BY <2>1, <2>2, <2>3
  <2>4. CASE ~resumed
    BY <2>1, <2>2, <2>4 DEF Doubled, TwoPointers
  <2>5. QED
    BY <2>3, <2>4
<1>6. CASE Undo
  <2>1. cur \in Rows /\ cur.to \in Places /\ pc = "undo" /\ past' = past
    BY <1>6 DEF Undo, Shaped, RowSteps, Rows
  <2>2. \A p \in Places : p # cur.to => disk'[p] = disk[p]
    BY <1>6, <2>1 DEF Undo
  <2>3. QED
    BY <2>1, <2>2 DEF Doubled, TwoPointers
<1>7. CASE Works /\ ~WriteTarget /\ ~Remove /\ ~Undo
  BY <1>7 DEF Works, Wake, ReadRun, Begin, Stopped, Walk, List, ListForAnother, Resume,
     WriteBack, Keep, Look, Intend, Advance, Forget, Written, Owners, Moved, Removed, Return,
     Remap, Rescan, Settle, Rescanned, Finish, Done, InTables
<1>8. CASE BeginFails \/ Waits \/ RemoveFails \/ SettleFails \/ Crash
  BY <1>8 DEF BeginFails, Waits, RemoveFails, SettleFails, Crash
<1>9. CASE Confirm \/ Check \/ CancelRun \/ Preview \/ Serves \/ (\E c \in calls : Leaves(c)) \/ Drops \/ Finds \/ Deliver \/ Looks \/ Reads \/ Judges
  BY <1>9 DEF Confirm, Check, CancelRun, Preview, Serves, Store, Tell, Leaves, Asks, Aside, Drops,
     Finds, Deliver, Looks, Reads, Judges
<1> QED
  BY <1>1, <1>2, <1>3, <1>4, <1>5, <1>6, <1>7, <1>8, <1>9 DEF ConvertNext

----------------------------------------------------------------------------
(***************************************************************************)
(* What the job says.                                                      *)
(***************************************************************************)

\* What it says of each run, once it is said.
LEMMA SayingTheRun ==
  ASSUME UserTypes'
  PROVE  /\ run' = "due" => (SaysTheRun' <=> state' \in {"running", "waiting"})
         /\ run' = "cancelled" => (SaysTheRun' <=> state' = "cancelled")
         /\ run' = None => (SaysTheRun' <=> state' = "idle")
<1>1. None # "due" /\ None # "cancelled"
  BY ConversionAssumption
<1> QED
  BY <1>1 DEF UserTypes, SaysTheRun

\* Steps that leave the run, and what is said of it, alone.
LEMMA RunUntouched ==
  ASSUME RunStands, UNCHANGED <<run, said, fresh>>, pc # "done", pc' # "done",
         job'.run => job.run,
         (\E c \in calls : c.at = "tell") => (\E c \in calls : c.at = "tell")'
  PROVE  RunStands'
<1>1. SaysTheRun' <=> SaysTheRun
  BY DEF said, SaysTheRun
<1> QED
  BY <1>1 DEF RunStands, said

\* A pass ends as it says how its run stands.
LEMMA Saying ==
  ASSUME UserTypes, UserTypes', RunStands, UNCHANGED <<run, fresh, calls>>, NEW what, NEW its,
         Says(what, its), pc' # "done", ~job'.run \/ (pc # "done" /\ job.run),
         \/ its = "due" /\ job.run /\ pc # "done" /\ what \in {"running", "waiting"}
         \/ its = None /\ pc = "done" /\ what = "idle"
  PROVE  RunStands'
<1>1. ~crossed' => ~fresh \/ run = its
  BY DEF Says
<1>2. ~crossed' => SaysTheRun'
  <2> SUFFICES ASSUME ~crossed'
               PROVE  SaysTheRun'
    OBVIOUS
  <2>1. state' = what /\ run' = run
    BY DEF Says
  <2>2. CASE its = "due" /\ job.run /\ pc # "done" /\ what \in {"running", "waiting"}
    <3>1. run' = "due"
      BY <1>1, <2>1, <2>2 DEF RunStands
    <3> QED
      BY <2>1, <2>2, <3>1, SayingTheRun
  <2>3. CASE its = None /\ pc = "done" /\ what = "idle"
    <3>1. run' = None
      BY <1>1, <2>1, <2>3 DEF RunStands
    <3> QED
      BY <2>1, <2>3, <3>1, SayingTheRun
  <2> QED
    BY <2>2, <2>3
<1>3. ~fresh' /\ job'.run /\ pc' # "done" => run' = "due"
  <2> SUFFICES ASSUME ~fresh', job'.run, pc' # "done"
               PROVE  run = "due"
    OBVIOUS
  <2> QED
    BY DEF RunStands
<1> QED
  BY <1>2, <1>3 DEF RunStands

LEMMA RunStandsStep ==
  ASSUME ConvertTypeOK, Shaped, RunStands, ConvertNext
  PROVE  RunStands'
<1> USE DEF library, tables, users, others, task
<1>a. UserTypes /\ UserTypes' /\ job \in [run : BOOLEAN, side : Sides \cup {None}, files : Records \cup {None}]
  BY UserTypesStep DEF ConvertTypeOK, TaskTypes
<1>b. ASSUME UNCHANGED <<run, said, fresh, calls>>, UNCHANGED <<pc, job>>
      PROVE  RunStands'
  BY <1>b DEF RunStands, SaysTheRun, said
<1>c. ASSUME UNCHANGED <<run, said, fresh, calls>>, pc # "done", pc' # "done", job'.run => job.run
      PROVE  RunStands'
  BY <1>c, RunUntouched
<1>1. CASE Wake
  BY <1>1, <1>c DEF Wake
<1>2. CASE ReadRun
  <2>1. UNCHANGED <<run, said, calls>> /\ pc = "read" /\ pc' = "begin" /\ ~fresh' /\ ~job.run
    BY <1>2 DEF ReadRun, Shaped
  <2>2. job'.run => run = "due"
    <3>1. CASE job' = [job EXCEPT !.run = (run = "due")]
      BY <1>a, <3>1
    <3>2. CASE job' = job
      BY <2>1, <3>2
    <3> QED
      BY <1>2, <3>1, <3>2 DEF ReadRun
  <2>3. ~crossed' => SaysTheRun' \/ \E c \in calls' : c.at = "tell"
    BY <2>1 DEF RunStands, SaysTheRun, said
  <2>4. job'.run => run' = "due"
    BY <2>1, <2>2
  <2> QED
    BY <2>1, <2>3, <2>4 DEF RunStands
<1>3. ASSUME NEW hour \in BOOLEAN, Begin(hour)
      PROVE  RunStands'
  <2>1. pc = "begin" /\ pc' # "done" /\ UNCHANGED <<run, fresh, calls>>
    BY <1>3 DEF Begin, Ends
  <2>2. job'.run => job.run
    <3>1. [job EXCEPT !.side = want].run = job.run
      BY <1>a
    <3>2. job' = Resting \/ job' = [job EXCEPT !.side = want]
      BY <1>3 DEF Begin, Ends
    <3>3. job' = Resting => ~job'.run
      BY DEF Resting
    <3>4. job' = [job EXCEPT !.side = want] => job'.run = job.run
      BY <3>1
    <3> QED
      BY <3>2, <3>3, <3>4
  <2>3. UNCHANGED said \/ (job.run /\ Says("running", "due"))
    BY <1>3 DEF Begin
  <2>4. CASE UNCHANGED said
    BY <2>1, <2>2, <2>4, <1>c
  <2>5. CASE job.run /\ Says("running", "due")
    BY <2>1, <2>5, <1>a, Saying
  <2> QED
    BY <2>3, <2>4, <2>5
<1>4. CASE Stopped \/ BeginFails
  BY <1>4, <1>c DEF Stopped, BeginFails, Ends, Resting
<1>5. CASE Waits \/ Rescanned
  <2>1. UNCHANGED <<run, fresh, calls>> /\ pc' # "done" /\ pc # "done"
    BY <1>5 DEF Waits, Rescanned, EndsWaiting, Ends, Goes
  <2>2. \/ UNCHANGED said /\ (job'.run => job.run)
        \/ job.run /\ ~job'.run /\ Says("waiting", "due")
    BY <1>5 DEF Waits, Rescanned, EndsWaiting, Ends, Goes, Resting
  <2>3. CASE UNCHANGED said /\ (job'.run => job.run)
    BY <2>1, <2>3, <1>c
  <2>4. CASE job.run /\ ~job'.run /\ Says("waiting", "due")
    BY <2>1, <2>4, <1>a, Saying
  <2> QED
    BY <2>2, <2>3, <2>4
<1>6. CASE Walk \/ ListForAnother \/ List \/ (\E p \in todo : Keep(p) \/ Look(p))
  <2>1. UNCHANGED <<run, said, fresh, calls>> /\ pc # "done" /\ pc' # "done"
    BY <1>6 DEF Walk, ListForAnother, List, Keep, Look
  <2>2. job'.run = job.run
    BY <1>6, <1>a DEF Walk, ListForAnother, List, Keep, Look
  <2> QED
    BY <2>1, <2>2, <1>c
<1>7. CASE Intend \/ Written \/ Moved
  BY <1>7, <1>c DEF Intend, Written, Moved, Advance, InTables
<1>8. CASE WriteTarget \/ WriteFails \/ Forget \/ Owners \/ Remove
  BY <1>8, <1>c DEF WriteTarget, WriteFails, Forget, Owners, Remove, Goes, OnDisk, Onward, InTables
<1>9. CASE RemoveFails \/ Removed \/ Undo \/ Return \/ Remap
  BY <1>9, <1>c DEF RemoveFails, Removed, Undo, Return, Remap, Goes, OnDisk, Onward, InTables
<1>10. CASE Rescan \/ Settle \/ SettleFails \/ (\E r \in rows : WriteBack(r))
  BY <1>10, <1>c DEF Rescan, Settle, SettleFails, WriteBack, Goes, InTables
<1>11. ASSUME NEW r \in rows, Resume(r)
      PROVE  RunStands'
  <2>1. UNCHANGED <<run, said, fresh, calls>>
    BY <1>11 DEF Resume
  <2> QED
    BY <1>11, <2>1, <1>c, ResumeTo
<1>12. CASE Finish
  <2>1. pc = "finish" /\ UNCHANGED <<said, calls>>
    BY <1>12 DEF Finish
  <2>2. CASE job.run
    BY <1>12, <2>1, <2>2 DEF Finish, Goes, RunStands
  <2>3. CASE ~job.run
    <3>1. UNCHANGED <<run, fresh>> /\ pc' = "rest" /\ ~job'.run
      BY <1>12, <2>3 DEF Finish, Ends, Resting
    <3> QED
      BY <2>1, <3>1, <1>c
  <2> QED
    BY <2>2, <2>3
<1>13. CASE Done
  <2>1. pc = "done" /\ pc' = "rest" /\ ~job'.run /\ UNCHANGED <<run, fresh, calls>> /\ Says("idle", None)
    BY <1>13 DEF Done, Ends, Resting
  <2> QED
    BY <2>1, <1>a, Saying
<1>14. ASSUME NEW kind, Asks(kind), UNCHANGED run
      PROVE  RunStands'
  BY <1>14 DEF Asks, RunStands, SaysTheRun, said
<1>15. CASE Confirm \/ Check \/ CancelRun
  <2>1. Asks("start") \/ Asks("cancel")
    BY <1>15 DEF Confirm, Check, CancelRun
  <2> QED
    BY <2>1, <1>14 DEF Asks
<1>16. CASE Preview
  BY <1>16, <1>b DEF Preview
<1>17. ASSUME NEW c \in calls, Store(c)
      PROVE  RunStands'
  <2>1. UNCHANGED <<said, pc, job>>
    BY <1>17 DEF Store
  <2>2. \E d \in calls' : d.at = "tell"
    <3>1. [c EXCEPT !.at = "tell"].at = "tell"
      BY <1>a DEF UserTypes
    <3> QED
      BY <1>17, <3>1 DEF Store
  <2>3. fresh' \/ UNCHANGED <<run, fresh>>
    BY <1>17 DEF Store
  <2> QED
    BY <2>1, <2>2, <2>3 DEF RunStands
<1>18. ASSUME NEW c \in calls, Tell(c)
      PROVE  RunStands'
  <2>1. UNCHANGED <<run, fresh, pc, job>> /\ crossed' = (run # RunOf(c))
        /\ state' = IF c.kind = "start" THEN "running" ELSE "cancelled"
    BY <1>18 DEF Tell
  <2>2. c.kind \in {"start", "cancel"}
    BY <1>a DEF UserTypes
  <2>3. ~crossed' => SaysTheRun'
    BY <1>a, <2>1, <2>2, SayingTheRun DEF RunOf
  <2>4. ~fresh' /\ job'.run /\ pc' # "done" => run' = "due"
    BY <2>1 DEF RunStands
  <2>5. ~fresh' /\ pc' = "done" => run' = None
    BY <2>1 DEF RunStands
  <2> QED
    BY <2>3, <2>4, <2>5 DEF RunStands
<1>19. ASSUME NEW c \in calls, Leaves(c)
      PROVE  RunStands'
  <2>1. UNCHANGED <<run, state, fresh, pc, job>> /\ calls' = calls \ {c}
        /\ crossed' = (crossed \/ c.at = "tell")
    BY <1>19 DEF Leaves
  <2>2. ~crossed' => ~crossed /\ ((\E d \in calls : d.at = "tell") => \E d \in calls' : d.at = "tell")
    BY <2>1
  <2> QED
    BY <2>1, <2>2 DEF RunStands, SaysTheRun
<1>20. CASE Deletes \/ Renames \/ Drops \/ Finds \/ Deliver \/ \E p \in Places : Occupies(p)
  BY <1>20, <1>b DEF Deletes, Renames, Drops, Finds, Deliver, Occupies, Aside
<1>21. CASE Looks \/ Reads \/ Judges
  BY <1>21, <1>b DEF Looks, Reads, Judges
<1>22. CASE Crash
  <2>1. pc' = "rest" /\ ~job'.run /\ run' = run
    BY <1>22 DEF Crash, Ends, Resting
  <2>2. ~crossed' => SaysTheRun'
    <3>1. CASE state' = CASE run = "due" -> "running" [] run = "cancelled" -> "cancelled"
                          [] run = None -> "idle"
      BY <2>1, <3>1, <1>a, ConversionAssumption DEF SaysTheRun, UserTypes
    <3>2. CASE state' = "idle" /\ crossed' = (run # None)
      BY <2>1, <3>2, <1>a, SayingTheRun
    <3> QED
      BY <1>22, <3>1, <3>2 DEF Crash
  <2> QED
    BY <2>1, <2>2 DEF RunStands
<1> QED
  BY <1>1, <1>2, <1>3, <1>4, <1>5, <1>6, <1>7, <1>8, <1>9, <1>10, <1>11, <1>12, <1>13, <1>15,
     <1>16, <1>17, <1>18, <1>19, <1>20, <1>21, <1>22 DEF ConvertNext, Works, Serves

\* Without a surprise nothing fails and the Arr only scans.
LEMMA Surprised ==
  ASSUME ConvertTypeOK, ConvertNext, surprises' = 0
  PROVE  /\ surprises = 0 /\ ~Surprise
         /\ ~BeginFails /\ ~Waits /\ ~WriteFails /\ ~RemoveFails /\ ~SettleFails /\ ~Crash
         /\ ~Deletes /\ ~Renames /\ ~Looks /\ \A p \in Places : ~Occupies(p)
         /\ \A c \in calls : ~Leaves(c)
<1>1. ~Surprise
  BY DEF Surprise, ConvertTypeOK
<1>2. surprises' = surprises \/ Surprise
  <2> USE DEF library, tables, users, said, others, task, Planned, InTables, OnDisk
  <2> HIDE DEF Surprise
  <2>1. CASE Works
    BY <2>1 DEF Works, Wake, ReadRun, Begin, Stopped, Walk, List, ListForAnother, Resume,
       WriteBack, Keep, Look, Intend, Advance, WriteTarget, Forget, Written, Owners, Moved,
       Remove, Removed, Undo, Return, Remap, Rescan, Settle, Rescanned, Finish, Done
  <2>2. CASE BeginFails \/ Waits \/ WriteFails \/ RemoveFails \/ SettleFails \/ Crash
    BY <2>2 DEF BeginFails, Waits, WriteFails, RemoveFails, SettleFails, Crash
  <2>3. CASE Besides
    BY <2>3 DEF Besides, Confirm, Check, CancelRun, Preview, Serves, Store, Tell, Leaves, Asks, Aside,
       Deletes, Renames, Drops, Finds, Deliver, Occupies, Looks, Reads, Judges
  <2>4. QED
    BY <2>1, <2>2, <2>3 DEF ConvertNext, Besides
<1> QED
  BY <1>1, <1>2 DEF BeginFails, Waits, WriteFails, RemoveFails, SettleFails, Crash, Deletes, Renames, Looks,
     Occupies, Leaves

\* What may happen without a surprise.
CalmBeside == Confirm \/ Check \/ CancelRun \/ Preview \/ Serves \/ Drops \/ Finds
CalmStep ==
    \/ Wake \/ ReadRun \/ \E hour \in BOOLEAN : Begin(hour)
    \/ Stopped \/ Walk \/ List \/ ListForAnother
    \/ \E r \in rows : WriteBack(r)
    \/ \E p \in todo : Keep(p) \/ Look(p)
    \/ Intend \/ WriteTarget \/ Written \/ Owners \/ Moved \/ Remove \/ Removed
    \/ Remap \/ Rescan \/ Settle \/ Rescanned \/ Finish \/ Done
    \/ CalmBeside

LEMMA CalmBesideKeeps ==
  ASSUME CalmBeside
  PROVE  /\ UNCHANGED <<disk, event, tables, check, task>> /\ past \subseteq past'
         /\ run' = None => run = None
<1> USE ConversionAssumption DEF Asks, Aside, Note, library, tables, users, said, others, task
<1>1. CASE Confirm \/ Check \/ CancelRun \/ Preview \/ Drops \/ Finds
  BY <1>1 DEF Confirm, Check, CancelRun, Preview, Drops, Finds
<1>2. CASE Serves
  BY <1>2 DEF Serves, Store, Tell, RunOf
<1> QED
  BY <1>1, <1>2 DEF CalmBeside

LEMMA CalmSteps ==
  ASSUME ConvertTypeOK, Shaped, Calm, ConvertNext, surprises' = 0
  PROVE  surprises = 0 /\ CalmFiles /\ CalmPass /\ CalmRuns /\ CalmRows /\ CalmStep
<1>1. surprises = 0 /\ CalmFiles /\ CalmPass /\ CalmRuns /\ CalmRows
  BY Surprised DEF Calm
<1>2. ~Reads /\ ~Judges /\ ~Deliver /\ ~Forget /\ ~Undo /\ ~Return
  BY <1>1 DEF CalmFiles, Reads, Judges, Deliver, Forget, Undo, Return
<1>3. \A r \in rows : ~Resume(r)
  BY <1>1 DEF CalmPass, Resume
<1> QED
  BY <1>1, <1>2, <1>3, Surprised DEF ConvertNext, Works, CalmStep, CalmBeside

LEMMA CalmFilesStep ==
  ASSUME ConvertTypeOK, Shaped, Led, OneRow, Calm, ConvertNext, surprises' = 0
  PROVE  CalmFiles'
<1> surprises = 0 /\ CalmFiles /\ CalmPass /\ CalmRuns /\ CalmRows /\ CalmStep
  BY CalmSteps
<1> USE ConversionAssumption DEF library, tables, users, said, others, task, ConvertTypeOK,
   LibraryTypes, TaskTypes, Shaped, Unjournaled, RowSteps, Only, OnDisk, Led, Leads, CalmFiles,
   CalmPass
<1>1. CASE Wake
  BY <1>1 DEF Wake
<1>2. CASE ReadRun
  BY <1>2 DEF ReadRun
<1>3. ASSUME NEW hour \in BOOLEAN, Begin(hour)
      PROVE  CalmFiles'
  BY <1>3 DEF Begin, Ends, Resting, Unfinished, Unscanned
<1>4. CASE Stopped
  BY <1>4 DEF Stopped, Ends, Resting
<1>5. CASE Walk
  BY <1>5 DEF Walk
<1>6. CASE List
  BY <1>6 DEF List, Lists
<1>7. CASE ListForAnother
  BY <1>7 DEF ListForAnother
<1>8. ASSUME NEW r \in rows, WriteBack(r)
      PROVE  CalmFiles'
  BY <1>8 DEF WriteBack, Put, OtherRows, Kept, InTables
<1>9. ASSUME NEW p \in todo, Keep(p)
      PROVE  CalmFiles'
  BY <1>9 DEF Keep
<1>10. ASSUME NEW p \in todo, Look(p)
      PROVE  CalmFiles'
  BY <1>10 DEF Look, At
<1>11. CASE Owners
  BY <1>11 DEF Owners, Goes, MoveOwner, InTables
<1>12. CASE Removed
  BY <1>12 DEF Removed, Onward, Kept, Put, OtherRows, InTables
<1>13. CASE Remap
  BY <1>13 DEF Remap, Unscanned
<1>14. CASE Rescan
  BY <1>14 DEF Rescan
<1>15. CASE Settle
  BY <1>15 DEF Settle, Goes, InTables
<1>16. CASE Rescanned
  BY <1>16 DEF Rescanned, Ends, EndsWaiting, Resting, Goes
<1>17. CASE Finish
  BY <1>17 DEF Finish, Goes, Ends, Resting
<1>18. CASE Done
  BY <1>18 DEF Done, Ends, Resting
<1>19. CASE Intend
  BY <1>19, StateRange, AdvanceRow DEF Intend, Advance, Put, OtherRows, InTables
<1>20. CASE WriteTarget
  <2>1. cur.from \in Places /\ cur.to \in Places /\ cur.from # cur.to /\ Only({cur.from})
    BY <1>20 DEF WriteTarget, Rows
  <2>2. Source = "ours" /\ Target # "foreign"
    BY <2>1 DEF Source, Target
  <2>3. disk' = [disk EXCEPT ![cur.to] = "ours"] /\ pc' = "written"
    BY <1>20, <2>2 DEF WriteTarget, Goes
  <2>4. Only({cur.from, cur.to})'
    BY <1>20, <2>1, <2>3 DEF WriteTarget, Goes
  <2>5. QED
    BY <1>20, <2>3, <2>4 DEF WriteTarget, Goes
<1>21. CASE Written
  BY <1>21, StateRange, AdvanceRow DEF Written, Advance, Put, OtherRows, InTables
<1>22. CASE Moved
  BY <1>22, StateRange, AdvanceRow DEF Moved, Advance, Put, OtherRows, InTables
<1>23. CASE Remove
  <2>1. cur.from \in Places /\ cur.to \in Places /\ cur.from # cur.to /\ Only({cur.from, cur.to})
    BY <1>23 DEF Remove, Rows
  <2>2. Source = "ours" /\ Removable
    BY <2>1 DEF Source, Removable
  <2>3. disk' = [disk EXCEPT ![cur.from] = None] /\ pc' = "removed"
    BY <1>23, <2>2 DEF Remove, Goes
  <2>4. Only({cur.to})'
    BY <1>23, <2>1, <2>3 DEF Remove, Goes
  <2>5. QED
    BY <1>23, <2>1, <2>3, <2>4 DEF Remove, Goes
<1>24. CASE CalmBeside
  BY <1>24, CalmBesideKeeps
<1> QED
  BY <1>1, <1>2, <1>3, <1>4, <1>5, <1>6, <1>7, <1>8, <1>9, <1>10, <1>11, <1>12, <1>13, <1>14,
     <1>15, <1>16, <1>17, <1>18, <1>19, <1>20, <1>21, <1>22, <1>23, <1>24 DEF CalmStep,
     CalmBeside, Serves

LEMMA CalmPassStep ==
  ASSUME ConvertTypeOK, Shaped, Led, OneRow, Calm, ConvertNext, surprises' = 0
  PROVE  CalmPass'
<1> surprises = 0 /\ CalmFiles /\ CalmPass /\ CalmRuns /\ CalmRows /\ CalmStep
  BY CalmSteps
<1> USE ConversionAssumption DEF library, tables, users, said, others, task, ConvertTypeOK,
   LibraryTypes, TaskTypes, Shaped, Unjournaled, RowSteps, Only, OnDisk, TableTypes, Led,
   CalmFiles, CalmPass, INTENT, WRITTEN, MOVED, CONVERTED
<1>1. CASE Wake \/ ReadRun \/ (\E hour \in BOOLEAN : Begin(hour))
  BY <1>1, ZenonT(60) DEF Wake, ReadRun, Begin, Ends, Resting, Unfinished, Unscanned
<1>2. CASE Stopped \/ Walk \/ List
  BY <1>2 DEF Stopped, Ends, Resting, Walk, List, Lists
<1>3. CASE ListForAnother
  BY <1>3 DEF ListForAnother
<1>4. ASSUME NEW r \in rows, WriteBack(r)
      PROVE  CalmPass'
  BY <1>4 DEF WriteBack, Put, OtherRows, Kept, InTables
<1>5. ASSUME NEW p \in todo, Keep(p)
      PROVE  CalmPass'
  BY <1>5 DEF Keep
<1>6. ASSUME NEW p \in todo, Look(p)
      PROVE  CalmPass'
  BY <1>6 DEF Look, At
<1>7. CASE WriteTarget
  BY <1>7 DEF WriteTarget, Source, Target, Goes, OnDisk
<1>8. CASE Owners
  BY <1>8 DEF Owners, Goes, MoveOwner, InTables
<1>9. CASE Remove
  BY <1>9 DEF Remove, Removable, Source, Goes, OnDisk
<1>10. CASE Remap
  BY <1>10 DEF Remap, Unscanned
<1>11. CASE Rescan
  BY <1>11 DEF Rescan
<1>12. CASE Settle
  BY <1>12 DEF Settle, Goes, InTables
<1>13. CASE Rescanned
  BY <1>13 DEF Rescanned, Ends, EndsWaiting, Resting, Goes
<1>14. CASE Finish
  BY <1>14 DEF Finish, Goes, Ends, Resting
<1>15. CASE Done
  BY <1>15 DEF Done, Ends, Resting
<1>16. CASE Intend
  BY <1>16, StateRange, AdvanceRow DEF Intend, Advance, Put, OtherRows, InTables
<1>17. CASE Written
  BY <1>17, StateRange, AdvanceRow DEF Written, Advance, Put, OtherRows, InTables
<1>18. CASE Moved
  BY <1>18, StateRange, AdvanceRow DEF Moved, Advance, Put, OtherRows, InTables
<1>19. CASE Removed
  <2> DEFINE row == Reached(cur, CONVERTED)
  <2>1. row.from = cur.from /\ row.state = CONVERTED /\ Only({cur.to}) /\ cur.to[2] = job.side
    BY <1>19, ReachedRow, StateRange DEF Removed
  <2>2. \A q \in journal' : q = row \/ q \in OtherRows(cur)
    BY <1>19, <2>1 DEF Removed, Put, OtherRows
  <2>3. \A q \in journal' : q.state = CONVERTED
    <3>1. \A q \in OtherRows(cur) : q \in journal /\ q.from # cur.from /\ q.state \in INTENT .. CONVERTED
      BY DEF OtherRows, Rows
    <3>2. QED
      BY <2>1, <2>2, <3>1
  <2> HIDE DEF row
  <2>4. pc' = "files" /\ UNCHANGED <<job, todo, disk, seen>>
    BY <1>19 DEF Removed, Onward, InTables
  <2>5. QED
    BY <1>19, <2>1, <2>3, <2>4 DEF Removed
<1>20. CASE CalmBeside
  BY <1>20, CalmBesideKeeps
<1> QED
  BY <1>1, <1>2, <1>3, <1>4, <1>5, <1>6, <1>7, <1>8, <1>9, <1>10, <1>11, <1>12, <1>13, <1>14,
     <1>15, <1>16, <1>17, <1>18, <1>19, <1>20 DEF CalmStep, CalmBeside, Serves

LEMMA CalmRunsStep ==
  ASSUME ConvertTypeOK, Shaped, Led, OneRow, Calm, ConvertNext, surprises' = 0
  PROVE  CalmRuns'
<1> surprises = 0 /\ CalmFiles /\ CalmPass /\ CalmRuns /\ CalmRows /\ CalmStep
  BY CalmSteps
<1> USE ConversionAssumption DEF library, tables, users, said, others, task, ConvertTypeOK,
   LibraryTypes, TaskTypes, Shaped, Unjournaled, RowSteps, Only, OnDisk, UserTypes, CalmFiles,
   CalmPass, CalmRuns, StartAsked, InForm, Note
<1>1. CASE Wake
  BY <1>1 DEF Wake
<1>2. CASE ReadRun
  BY <1>2 DEF ReadRun
<1>3. ASSUME NEW hour \in BOOLEAN, Begin(hour)
      PROVE  CalmRuns'
  BY <1>3 DEF Begin, Ends, Resting, Unfinished, Unscanned
<1>4. CASE Stopped
  BY <1>4 DEF Stopped, Ends, Resting
<1>5. CASE Walk \/ List
  BY <1>5, ZenonT(60) DEF Walk, List, Lists
<1>6. CASE ListForAnother \/ (\E r \in rows : WriteBack(r)) \/ (\E p \in todo : Keep(p))
  BY <1>6, ZenonT(60) DEF ListForAnother, WriteBack, Put, OtherRows, Kept, InTables, Keep
<1>7. CASE (\E p \in todo : Look(p)) \/ WriteTarget \/ Remove
  BY <1>7 DEF Look, At, WriteTarget, Source, Target, Goes, OnDisk, Remove, Removable
<1>8. CASE Removed \/ Remap \/ Rescan
  BY <1>8 DEF Removed, Onward, Kept, Put, OtherRows, InTables, Remap, Unscanned, Rescan
<1>9. CASE Settle
  BY <1>9 DEF Settle, Goes, InTables
<1>10. CASE Rescanned
  BY <1>10 DEF Rescanned, Ends, EndsWaiting, Resting, Goes
<1>11. CASE Finish
  BY <1>11 DEF Finish, Goes, Ends, Resting
<1>12. CASE Done
  BY <1>12 DEF Done, Ends, Resting
<1>13. CASE Intend
  BY <1>13, StateRange, AdvanceRow DEF Intend, Advance, Put, OtherRows, InTables
<1>14. CASE Written
  BY <1>14, StateRange, AdvanceRow DEF Written, Advance, Put, OtherRows, InTables
<1>15. CASE Owners
  BY <1>15, PastGrows DEF Owners, Goes, MoveOwner, InTables
<1>16. CASE Moved
  BY <1>16, StateRange, AdvanceRow DEF Moved, Advance, Put, OtherRows, InTables
<1>17. CASE CalmBeside
  <2> USE CalmBesideKeeps
  <2>1. CASE Confirm \/ Check \/ CancelRun \/ Preview
    BY <2>1, ZenonT(60) DEF Confirm, Check, CancelRun, Preview, Asks
  <2>2. ASSUME NEW c \in calls, Store(c), c.kind = "start"
        PROVE  CalmRuns'
    BY <2>2, Surprised DEF Store, RunOf
  <2>3. ASSUME NEW c \in calls, Store(c), c.kind = "cancel"
        PROVE  CalmRuns'
    <3>1. StartAsked => StartAsked'
      BY <2>3 DEF Store
    <3>2. QED
      BY <2>3, <3>1, Surprised DEF Store, RunOf
  <2>4. ASSUME NEW c \in calls, Tell(c)
        PROVE  CalmRuns'
    BY <2>4 DEF Tell
  <2>5. CASE Drops \/ Finds
    BY <2>5, ZenonT(60) DEF Drops, Finds, Aside
  <2>6. QED
    BY <1>17, <2>1, <2>2, <2>3, <2>4, <2>5 DEF CalmBeside, Serves
<1> QED
  BY <1>1, <1>2, <1>3, <1>4, <1>5, <1>6, <1>7, <1>8, <1>9, <1>10, <1>11, <1>12, <1>13, <1>14,
     <1>15, <1>16, <1>17 DEF CalmStep, CalmBeside, Serves

LEMMA CalmRowsStep ==
  ASSUME ConvertTypeOK, Shaped, Led, OneRow, Calm, ConvertNext, surprises' = 0
  PROVE  CalmRows'
<1> surprises = 0 /\ CalmFiles /\ CalmPass /\ CalmRuns /\ CalmRows /\ CalmStep
  BY CalmSteps
<1> USE ConversionAssumption DEF library, tables, users, said, others, task, ConvertTypeOK,
   LibraryTypes, TaskTypes, Shaped, Unjournaled, RowSteps, Only, OnDisk, TableTypes, Led,
   OneRow, CalmFiles, CalmPass, CalmRuns, CalmRows, Rescanning, INTENT, WRITTEN, MOVED,
   CONVERTED
<1>1. CASE Wake
  BY <1>1 DEF Wake
<1>2. CASE ReadRun
  BY <1>2 DEF ReadRun
<1>3. CASE Stopped
  BY <1>3 DEF Stopped, Ends, Resting
<1>4. CASE Walk
  BY <1>4 DEF Walk
<1>5. CASE List
  BY <1>5 DEF List, Lists
<1>6. CASE ListForAnother
  BY <1>6 DEF ListForAnother
<1>7. ASSUME NEW p \in todo, Keep(p)
      PROVE  CalmRows'
  BY <1>7 DEF Keep
<1>8. ASSUME NEW p \in todo, Look(p)
      PROVE  CalmRows'
  BY <1>8 DEF Look, At
<1>9. CASE WriteTarget
  BY <1>9 DEF WriteTarget, Source, Target, Goes, OnDisk
<1>10. CASE Remove
  BY <1>10 DEF Remove, Removable, Source, Goes, OnDisk
<1>11. CASE Settle
  BY <1>11 DEF Settle, Goes, InTables
<1>12. CASE Rescanned
  BY <1>12 DEF Rescanned, Ends, EndsWaiting, Resting, Goes
<1>13. CASE Done
  BY <1>13 DEF Done, Ends, Resting
<1>14. ASSUME NEW hour \in BOOLEAN, Begin(hour)
      PROVE  CalmRows'
  <2>1. pc = "begin" /\ pc' \in {"resume", "rest"} /\ UNCHANGED <<disk, run, journal>> /\ past \subseteq past'
    BY <1>14, PastGrows DEF Begin, Ends
  <2>2. QED
    BY <2>1
<1>15. ASSUME NEW r \in rows, WriteBack(r)
      PROVE  CalmRows'
  <2> SUFFICES ASSUME "again" \notin past
               PROVE  CalmRows'
    BY PastGrows
  <2>1. rows = {r} /\ rows' = {} /\ Stored(r) /\ UNCHANGED <<disk, job, pc, past, run, seen>> /\ pc = "back"
    BY <1>15 DEF WriteBack, InTables
  <2>2. PICK q \in journal : q.to = r.to /\ q.from = r.from /\ q.state = r.state /\ journal = {q}
    BY <2>1 DEF Stored
  <2>3. OtherRows(r) = {}
    BY <2>2, NoOthers
  <2>4. \/ journal' = {r} /\ r.owned = "rescanned"
        \/ journal' = {}
    BY <1>15, <2>3 DEF WriteBack, Put, Kept
  <2>5. Rescanning => journal' = {}
    BY <2>1, <2>4
  <2>6. \A x \in journal' : x.state = CONVERTED => Only({x.to})
    BY <2>2, <2>4
  <2>7. "lost" \notin past /\ run = None => FALSE
    BY <2>2
  <2>8. QED
    BY <2>1, <2>5, <2>6, <2>7 DEF Rescanning
<1>16. CASE Intend
  BY <1>16, StateRange, AdvanceRow DEF Intend, Advance, Put, OtherRows, InTables
<1>17. CASE Written
  BY <1>17, StateRange, AdvanceRow DEF Written, Advance, Put, OtherRows, InTables
<1>18. CASE Owners
  BY <1>18, PastGrows DEF Owners, Goes, MoveOwner, InTables
<1>19. CASE Moved
  BY <1>19, StateRange, AdvanceRow DEF Moved, Advance, Put, OtherRows, InTables
<1>20. CASE Removed
  <2> SUFFICES ASSUME "again" \notin past
               PROVE  CalmRows'
    BY PastGrows
  <2> DEFINE row == Reached(cur, CONVERTED)
  <2>1. cur \in Rows /\ row.from = cur.from /\ row.to = cur.to /\ journal = {cur} /\ Only({cur.to}) /\ run # None /\ pc = "removed"
    BY <1>20, ReachedRow, StateRange DEF Removed
  <2>2. OtherRows(cur) = {} /\ OtherRows(row) = {}
    BY <2>1, NoOthers
  <2>3. journal' \subseteq {row}
    BY <1>20, <2>2 DEF Removed, Put
  <2>4. pc' = "files" /\ UNCHANGED <<disk, run, job, past>>
    BY <1>20 DEF Removed, Onward, InTables
  <2> HIDE DEF row
  <2>5. \A q \in journal' : Only({q.to})'
    BY <2>1, <2>3, <2>4
  <2>6. QED
    BY <2>1, <2>4, <2>5
<1>21. CASE Remap
  <2> SUFFICES ASSUME "again" \notin past
               PROVE  CalmRows'
    BY PastGrows
  <2>1. pc = "files" /\ rows' = Unscanned(job.run) /\ pc' = (IF rows' = {} THEN "finish" ELSE "rescan")
        /\ UNCHANGED <<disk, run, job, past, journal>>
    BY <1>21 DEF Remap
  <2>2. \A q \in journal : q.state = CONVERTED
    BY <2>1 DEF Rows
  <2>3. job.run => rows' = journal
    BY <2>1, <2>2 DEF Unscanned
  <2>4. QED
    BY <2>1, <2>3
<1>22. CASE Rescan
  <2> SUFFICES ASSUME "again" \notin past
               PROVE  CalmRows'
    BY PastGrows
  <2>1. pc = "rescan" /\ seen = None /\ UNCHANGED <<disk, run, job, past, journal>>
    BY <1>22 DEF Rescan
  <2>2. CASE pc' = "back"
    <3>1. seen' = None
      BY <1>22, <2>1, <2>2, Surprised DEF Rescan
    <3>2. QED
      BY <2>1, <2>2, <3>1
  <2>3. CASE pc' = "settle"
    <3>1. rows' = {Answered(r) : r \in rows} /\ Scanned
      BY <1>22, <2>3, Surprised DEF Rescan
    <3>2. PICK p \in Places : Only({p})
      BY <2>1
    <3>3. arr.at = p
      BY <3>1, <3>2 DEF Scanned, Records
    <3>4. \A r \in rows : Only({r.to}) /\ r.to \in Places
      BY <2>1 DEF Rows
    <3>5. \A r \in rows : r.to = p
      BY <3>2, <3>4
    <3>6. \A r \in rows : Answered(r).owned = "settled" /\ Answered(r).from = r.from
      BY <3>3, <3>5, AnsweredRow
    <3>7. \A r \in rows' : r.owned = "settled"
      BY <3>1, <3>6
    <3>8. job.run => \A q \in journal : \E r \in rows' : r.from = q.from
      BY <2>1, <3>1, <3>6
    <3>9. QED
      BY <2>1, <2>3, <3>7, <3>8
  <2>4. QED
    BY <1>22, <2>2, <2>3 DEF Rescan
<1>23. CASE Finish
  <2>1. pc = "finish" /\ pc' \in {"done", "rest"} /\ UNCHANGED <<disk, journal>> /\ past \subseteq past'
    BY <1>23, PastGrows DEF Finish, Goes, Ends
  <2>2. CASE job.run
    BY <2>1, <2>2
  <2>3. CASE ~job.run
    BY <1>23, <2>1, <2>3 DEF Finish
  <2>4. QED
    BY <2>2, <2>3
<1>24. CASE CalmBeside
  BY <1>24, CalmBesideKeeps
<1> QED
  BY <1>1, <1>2, <1>3, <1>4, <1>5, <1>6, <1>7, <1>8, <1>9, <1>10, <1>11, <1>12, <1>13, <1>14,
     <1>15, <1>16, <1>17, <1>18, <1>19, <1>20, <1>21, <1>22, <1>23, <1>24 DEF CalmStep,
     CalmBeside, Serves

LEMMA CalmHolds ==
  ASSUME ConvertTypeOK, Shaped, Led, OneRow, Calm, ConvertNext
  PROVE  Calm'
BY CalmFilesStep, CalmPassStep, CalmRunsStep, CalmRowsStep DEF Calm

----------------------------------------------------------------------------
(***************************************************************************)
(* The theorems about Conversion.                                          *)
(***************************************************************************)
LEMMA ConvertInitInv == ConvertInit => ConvertInv
<1> SUFFICES ASSUME ConvertInit PROVE ConvertInv
  OBVIOUS
<1> USE ConversionAssumption DEF ConvertInit
<1>1. <<1, "link">> \in Places /\ want = "link" /\ want \in Sides
  BY DEF Places, Sides
<1>2. LibraryTypes
  BY <1>1 DEF LibraryTypes, Records
<1>3. TableTypes /\ UserTypes
  <2>1. owner \in Owned /\ calls = {} /\ requests \in 0 .. Requests
    BY <1>1 DEF Owned
  <2>2. QED
    BY <1>1, <2>1 DEF TableTypes, UserTypes
<1>4. TaskTypes
  BY DEF TaskTypes, Resting
<1>5. OtherTypes
  BY DEF OtherTypes, Off, Owned
<1>6. ConvertTypeOK
  BY <1>2, <1>3, <1>4, <1>5 DEF ConvertTypeOK
<1>7. Shaped /\ Led /\ OneRow /\ Remembered /\ Doubled /\ RunStands
  BY DEF Shaped, Led, OneRow, Remembered, ToRescan, Doubled, RunStands, SaysTheRun, Resting, Off,
     Unjournaled, RowSteps
<1>8. Only({<<1, "link">>})
  BY <1>1 DEF Only
<1>9. InForm
  BY <1>1, <1>8 DEF Only, InForm
<1>10. CalmFiles /\ CalmPass
  BY <1>1, <1>8 DEF CalmFiles, CalmPass, Off, Unjournaled, RowSteps, Resting
<1>11. CalmRuns /\ CalmRows
  BY <1>9 DEF CalmRuns, CalmRows, Resting, Rescanning
<1> QED
  BY <1>6, <1>7, <1>10, <1>11 DEF ConvertInv, Calm

LEMMA ConvertStutter == ConvertInv /\ UNCHANGED convertVars => ConvertInv'
BY DEF ConvertInv, ConvertTypeOK, LibraryTypes, TableTypes, UserTypes, TaskTypes, OtherTypes,
   Shaped, Led, Leads, OneRow, Stored, Remembered, ToRescan, Doubled, TwoPointers, Source,
   RunStands, SaysTheRun, Calm, CalmFiles, CalmPass, CalmRuns, CalmRows, Only, StartAsked,
   Rescanning, InForm, convertVars, library, tables, users, said, others, task

\* The rows, the two pointers, the run and, without surprises, the whole pass stay as the
\* invariant says, for any number of names, requests and surprises.
THEOREM ConvertInvariance == ConvertSpec => []ConvertInv
<1>1. ConvertInit => ConvertInv
  BY ConvertInitInv
<1>2. ConvertInv /\ [ConvertNext]_convertVars => ConvertInv'
  <2> SUFFICES ASSUME ConvertInv, ConvertNext PROVE ConvertInv'
    BY ConvertStutter
  <2>1. ConvertTypeOK /\ Shaped /\ Led /\ OneRow /\ Remembered /\ Doubled /\ RunStands /\ Calm
    BY DEF ConvertInv
  <2>2. QED
    BY <2>1, ConvertTypeStep, ShapedStep, LedStep, OneRowStep, RememberedStep, DoubledStep,
       RunStandsStep, CalmHolds DEF ConvertInv
<1> QED
  BY <1>1, <1>2, PTL DEF ConvertSpec

\* Every variable of the conversion keeps its type: a pass, its rows, its Arr and requests.
THEOREM ConvertTypeCorrect == ConvertSpec => []ConvertTypeOK
BY ConvertInvariance, PTL DEF ConvertInv

\* An owner that waits for a rescan, which holds up the reconciliation of its whole Arr, has a
\* row that asks for one (library.rs:1443-1452), but for what RescansRemembered names.
THEOREM RescansAreRemembered == ConvertSpec => []RescansRemembered
<1>1. ConvertInv => RescansRemembered
  BY DEF ConvertInv, Remembered, RescansRemembered
<1> QED
  BY <1>1, ConvertInvariance, PTL

\* The steps of a row never take the last pointer to the item from the library
\* (library.rs:1423-1442, 1460-1485), but for what LastKept names.
THEOREM LastIsKept == ConvertSpec => LastKept
<1>1. ConvertInv /\ [ConvertNext]_convertVars =>
        [HasPointer /\ ~HasPointer' =>
           \/ "deleted" \in past'
           \/ resumed /\ pc = "undo" /\ Source = "foreign"
           \/ resumed /\ pc = "remove" /\ Target # "ours"]_convertVars
  BY LastKeptStep DEF ConvertInv
<1> QED
  BY <1>1, ConvertInvariance, PTL DEF ConvertSpec, LastKept

\* What the job says between two passes is true of the run that is stored, through stops,
\* failures and crashes (library.rs:650-662, 843-938), unless requests crossed when it was last
\* said; and idle, it has made what was asked for, but for what IdleWhenMade names.
THEOREM StatusIsTrue == ConvertSpec => []StatusTrue
<1>1. ConvertInv => StatusTrue
  <2> SUFFICES ASSUME ConvertInv, pc = "rest", calls = {}
               PROVE  (SaysTheRun \/ crossed) /\ IdleWhenMade
    BY DEF StatusTrue
  <2>1. SaysTheRun \/ crossed
    BY DEF ConvertInv, RunStands
  <2>2. IdleWhenMade
    BY DEF ConvertInv, Calm, CalmRuns, CalmRows, CalmPass, StartAsked, IdleWhenMade, Unfinished,
       RowSteps
  <2>3. QED
    BY <2>1, <2>2
<1> QED
  BY <1>1, ConvertInvariance, PTL

----------------------------------------------------------------------------
(***************************************************************************)
(* Where the file is: the Arr's record, the owner, the row and the lists   *)
(* made of them agree while nothing that ItemKept excepts has happened.    *)
(***************************************************************************)
\* What ItemKept excepts has not happened.
Clean == past \cap {"deleted", "slipped", "stray", "again", "undone"} = {}

\* The Arr has the file, under the id that the owner knows; it has told of a rename.
InSight == HasFile /\ arr.id = owner.id
OwnEvent == event # None /\ event.id = owner.id

\* Events are of files that the Arr had, and of deletions only once there was one.
Told ==
    event # None => event.id <= arr.id /\ (event.to = None => "deleted" \in past)

\* A row leads to the other form of its name.
Across(r) == r.to[1] = r.from[1] /\ r.to[2] # r.from[2]
Crossing ==
    /\ pc \in Unjournaled \cup RowSteps => Across(cur)
    /\ \A r \in journal \cup rows : Across(r)

\* While the file is in sight its owner is where the Arr has it, or behind its renames,
\* or moved ahead by a row.
Behind == owner.at[2] = arr.at[2] /\ owner.at[1] <= arr.at[1]

Followed ==
    InSight =>
        /\ OwnEvent => event.to = arr.at /\ event.to[1] > owner.at[1]
        /\ Behind \/ (ToRescan /\ \E r \in journal : r.state # INTENT /\ owner.at = r.to)

\* Its source taken by another file, a row can only be undone.
Doomed(r) == r.state = MOVED /\ disk[r.from] = "foreign" /\ pc # "removed"

\* It is lost to sight only where a row took it, whose owner waits.
Lost(r) ==
    /\ r.owned = "rescanned" /\ r.state \in {MOVED, CONVERTED}
    /\ owner.at = r.to
    /\ arr.id >= owner.id
    /\ arr.id = owner.id => arr.at \in {None, r.from}
    /\ \/ Doomed(r)
       \/ disk[r.to] = "ours" /\ (arr.at = r.to => event = None \/ event.id # arr.id)
       \/ disk[r.to] # "ours" /\ HasFile /\ arr.at[1] > r.to[1]

LostToRow ==
    ~InSight => ToRescan /\ ~OwnEvent /\ pc # "forget" /\ \E r \in journal : Lost(r)

\* What is known of a row.
Worked == journal \cup {r \in {cur} : pc \in Unjournaled}

RowOf(r) ==
    /\ r.id \in Nat /\ r.id <= owner.id
    /\ r.id = owner.id \/ (r.state = CONVERTED /\ ~ToRescan)
    /\ r.owned = "rescanned" \/ pc = "list"
    /\ r.id = owner.id /\ InSight => r.from[2] = arr.at[2] /\ r.from[1] <= arr.at[1]
    /\ r.state < CONVERTED /\ InSight /\ arr.at = r.from =>
         /\ ~OwnEvent
         /\ \/ owner.at = r.to /\ ToRescan
            \/ owner.at = r.from /\ r.state # MOVED /\ pc # "moved"
         /\ r.state # INTENT \/ pc = "written" => disk[r.to] = "ours"

Fresh ==
    /\ pc \in (Unjournaled \cup RowSteps) \ {"removed"} /\ ~resumed => InSight
    /\ pc \in {"undo", "return"} /\ ~resumed => arr.at # cur.from
    /\ pc = "forget" => Behind

\* The answer to a rescan stays true until it is written.
Answer ==
    /\ pc = "settle" /\ (\E r \in rows : r.owned = "settled") =>
         /\ seen = arr.id /\ HasFile /\ seen >= owner.id
         /\ seen = owner.id => ~ToRescan
         /\ Behind
         /\ event # None /\ event.id = seen => event.to = arr.at /\ event.to[1] > owner.at[1]
    /\ pc = "back" /\ (\E r \in rows : r.owned = "settled") => ~ToRescan
    /\ pc \in {"settle", "back"} => \A r \in rows, q \in journal : r.id = q.id

\* The lists the pass and the reconciliation made.
Listed ==
    /\ pc \notin {"settle", "back", "finish", "done"} /\ job.files # None /\ InSight =>
         job.files.at # None /\ job.files.id = owner.id
    /\ check.at = "owners" => ~ToRescan
    /\ check.at \in {"library", "judge"} /\ check.owner # None =>
         /\ check.owner.id <= owner.id
         /\ check.owner.id = owner.id =>
              /\ InSight => check.owner.at[2] = arr.at[2]
              /\ ~InSight => check.owner.at[2] # owner.at[2]
              /\ check.at = "judge" /\ InSight => check.arr.at # None /\ check.arr.id = owner.id

Sees ==
    Followed /\ LostToRow /\ (\A r \in Worked : RowOf(r)) /\ Fresh /\ Answer /\ Listed

Sighted == Clean /\ owner # None => Sees

\* What a step relies on.
Sighting ==
    /\ ConvertTypeOK /\ Shaped /\ Led /\ OneRow /\ Doubled
    /\ Told /\ Crossing /\ Sighted

\* Places are told apart by their name and their form.
LEMMA PlacesDiffer ==
  /\ \A p \in Places : p[1] \in 1 .. Names /\ p[1] \in Nat /\ p[2] \in Sides
  /\ \A p, q \in Places : p[1] = q[1] /\ p[2] = q[2] => p = q
  BY ConversionAssumption DEF Places

\* An owner there is was there before, and nothing that happened is forgotten.
LEMMA CleanBefore ==
  ASSUME ConvertNext, Clean', owner' # None
  PROVE  Clean /\ owner # None /\ ~Deletes
<1>1. Clean
  BY PastGrows DEF Clean
<1>2. ~Deletes
  BY DEF Clean, Deletes, Note
<1>3. owner = None => owner' = None
  <2> USE DEF library, tables, users, said, others, task, InTables, OnDisk, Aside
  <2> SUFFICES ASSUME owner = None PROVE owner' = None
    OBVIOUS
  <2>1. CASE Works
    BY <2>1 DEF Works, Wake, ReadRun, Begin, Stopped, Walk, List, ListForAnother, Resume,
       WriteBack, Keep,
     Look, Intend, Advance, WriteTarget, Forget, Written, Owners, Moved, Remove, Removed, Undo,
     Return,
     Remap, Rescan, Settle, Rescanned, Finish, Done, MoveOwner
  <2>2. CASE BeginFails \/ Waits \/ WriteFails \/ RemoveFails \/ SettleFails \/ Crash
    BY <2>2 DEF BeginFails, Waits, WriteFails, RemoveFails, SettleFails, Crash
  <2>3. CASE Besides
    BY <2>3 DEF Besides, Confirm, Check, CancelRun, Preview, Serves, Store, Tell, Leaves, Asks, Deletes,
     Renames, Drops, Finds, Deliver, Occupies, Looks, Reads, Judges
  <2>4. QED
    BY <2>1, <2>2, <2>3 DEF ConvertNext, Besides
<1> QED
  BY <1>1, <1>2, <1>3

\* Steps that leave the library and the tables alone, and work on no row.
Apart ==
    \/ Wake \/ ReadRun \/ \E hour \in BOOLEAN : Begin(hour)
    \/ Stopped \/ BeginFails \/ Waits \/ Walk \/ \E p \in todo : Keep(p)
    \/ Remap \/ Rescanned \/ Finish \/ Done \/ SettleFails \/ Crash
Asked == Confirm \/ Check \/ CancelRun \/ Preview \/ Serves \/ (\E c \in calls : Leaves(c))

\* They leave the rows of the journal, and forget the Arr's list or keep it.
LEMMA ApartKeeps ==
  ASSUME Apart, ConvertTypeOK, Shaped
  PROVE  /\ UNCHANGED <<disk, arr, event, journal, owner>>
         /\ pc' \in {"rest", "read", "begin", "resume", "files", "rescan", "back", "finish",
                    "done"}
         /\ pc' = "back" => \A r \in rows' : r.owned = "rescanned"
         /\ pc' \in {"resume", "rescan"} => rows' \subseteq journal
         /\ job'.files = None \/ (job'.files = job.files /\ pc' \in {"back", "finish", "done"})
              \/ (job'.files = job.files /\ pc \notin {"settle", "back", "finish", "done"})
         /\ check' = Off \/ check' = check
<1> USE DEF library, tables, users, said, others, task, Resting
<1>1. CASE Wake \/ (\E hour \in BOOLEAN : Begin(hour)) \/ Stopped \/ BeginFails \/ Waits
  <2>1. CASE Wake
    BY <2>1 DEF Wake
  <2>2. CASE \E hour \in BOOLEAN : Begin(hour)
    <3>1. [job EXCEPT !.side = want].files = job.files
      BY DEF ConvertTypeOK, TaskTypes
    <3>2. PICK hour \in BOOLEAN : Begin(hour)
      BY <2>2
    <3>3. CASE job.run \/ Unfinished # {} \/ (hour /\ Unscanned(FALSE) # {})
      BY <3>1, <3>2, <3>3 DEF Begin, Unfinished
    <3>4. CASE ~(job.run \/ Unfinished # {} \/ (hour /\ Unscanned(FALSE) # {}))
      BY <3>2, <3>4 DEF Begin, Ends
    <3>5. QED
      BY <3>3, <3>4
  <2>3. CASE Stopped \/ BeginFails \/ Waits
    BY <2>3 DEF Stopped, BeginFails, Waits, EndsWaiting, Ends
  <2>4. QED
    BY <1>1, <2>1, <2>2, <2>3
<1>5. CASE ReadRun
  <2>1. \A b \in BOOLEAN : [job EXCEPT !.run = b].files = job.files
    BY DEF ConvertTypeOK, TaskTypes
  <2>2. (run = "due") \in BOOLEAN
    OBVIOUS
  <2>3. job'.files = job.files
    BY <1>5, <2>1, <2>2 DEF ReadRun
  <2>4. QED
    BY <1>5, <2>3 DEF ReadRun
<1>2. CASE Walk \/ (\E p \in todo : Keep(p)) \/ Remap
  BY <1>2 DEF Walk, Keep, Remap, Unscanned
<1>3. CASE Rescanned \/ Finish \/ Done \/ Crash
  BY <1>3 DEF Rescanned, EndsWaiting, Finish, Done, Crash, Ends, Goes
<1>4. CASE SettleFails
  BY <1>4, UnansweredRow DEF SettleFails, ConvertTypeOK, TaskTypes
<1> QED
  BY <1>1, <1>2, <1>3, <1>4, <1>5 DEF Apart

\* What users ask for touches none of this.
LEMMA AskedKeeps ==
  ASSUME Asked
  PROVE  UNCHANGED <<disk, arr, event, journal, owner, check, task>>
  BY DEF Asked, Confirm, Check, CancelRun, Preview, Serves, Store, Tell, Leaves, Asks, library, tables,
     users, said, others, task

\* The types, and that no deletion is under way.
LEMMA PlainTypes ==
  ASSUME Sighting, Clean, owner # None
  PROVE  /\ disk \in [Places -> {"ours", "foreign", None}]
         /\ owner.at \in Places /\ owner.id \in Nat /\ owner.pending \in BOOLEAN
         /\ owner \in [at : Places, id : Nat, pending : BOOLEAN]
         /\ arr.id \in Nat /\ (arr.at \in Places \/ arr.at = None)
         /\ arr \in Records
         /\ event # None => event.id \in Nat /\ event.id <= arr.id /\ event.to \in Places
         /\ None \notin Places /\ Sees
<1> USE ConversionAssumption DEF Sighting, ConvertTypeOK, LibraryTypes, TableTypes,
        Owned, Records
<1>1. Sees
  BY DEF Sighted
<1>2. event # None => event.id \in Nat /\ event.id <= arr.id /\ event.to \in Places
  BY DEF Told, Clean
<1> QED
  BY <1>1, <1>2

\* The row in hand is the only one, and the file was lost to it if at all.
LEMMA InHand ==
  ASSUME Sighting, Clean, owner # None, pc \in Unjournaled \cup RowSteps
  PROVE  /\ cur \in Rows /\ cur.from \in Places /\ cur.to \in Places /\ cur.from # cur.to
         /\ cur.to[1] = cur.from[1] /\ cur.to[2] # cur.from[2]
         /\ pc \in Unjournaled => journal = {} /\ InSight
         /\ pc \in RowSteps => journal = {cur} /\ (~InSight => Lost(cur))
         /\ ~InSight =>
              pc \notin {"list", "intend", "write", "forget", "written", "owners", "moved"}
         /\ rows = {} \/ pc \in Unjournaled
         /\ RowOf(cur)
<1>1. cur \in Rows /\ Across(cur)
  BY DEF Sighting, Shaped, Crossing
<1>2. cur.from \in Places /\ cur.to \in Places /\ cur.from # cur.to /\ cur.to[1] = cur.from[1]
      /\ cur.to[2] # cur.from[2]
  BY <1>1 DEF Rows, Across
<1>3. /\ pc \in Unjournaled => journal = {}
      /\ pc \in RowSteps => journal = {cur} /\ rows = {}
  BY DEF Sighting, OneRow, Clean
<1>4. Sees
  BY PlainTypes
<1>5. RowOf(cur)
  BY <1>3, <1>4 DEF Sees, Worked, Unjournaled, RowSteps
<1>6. pc \in RowSteps => (~InSight => Lost(cur))
  BY <1>3, <1>4 DEF Sees, LostToRow
<1>7. pc \in Unjournaled => InSight
  BY <1>3, <1>4 DEF Sees, LostToRow
<1>8. ~InSight => pc \notin {"list", "intend", "write", "forget", "written", "owners", "moved"}
  BY <1>4, <1>6, <1>7 DEF Sees, LostToRow, Lost, Sighting, Shaped, Unjournaled, RowSteps,
     INTENT, WRITTEN, MOVED,
     CONVERTED
<1> QED
  BY <1>1, <1>2, <1>3, <1>5, <1>6, <1>7, <1>8

\* The steps of a row keep the id it has.
LEMMA IdKept ==
  /\ \A r \in Rows, n \in INTENT .. CONVERTED : Reached(r, n).id = r.id
  /\ \A r \in Rows : Answered(r).id = r.id /\ Unanswered(r).id = r.id
  BY DEF Reached, Answered, Unanswered, Rows

----------------------------------------------------------------------------
(***************************************************************************)
(* Steps of the pass that touch neither the library nor the owner.         *)
(***************************************************************************)
\* A failed settlement keeps the ids, too.
LEMMA ApartIds ==
  ASSUME Apart, pc' = "back", ConvertTypeOK, Shaped,
         pc \in {"settle", "back"} => \A r \in rows, q \in journal : r.id = q.id
  PROVE  \A r \in rows', q \in journal : r.id = q.id
<1>1. SettleFails
  BY DEF Apart, Wake, ReadRun, Begin, Stopped, BeginFails, Waits, Walk, Keep, Remap, Rescanned, EndsWaiting,
     Finish, Done, Crash, Ends,
     Goes, task
<1>2. pc = "settle" /\ rows' = {Unanswered(r) : r \in rows} /\ rows \subseteq Rows
  BY <1>1 DEF SettleFails, ConvertTypeOK, TaskTypes
<1> QED
  BY <1>2, IdKept

LEMMA ApartSees ==
  ASSUME Sighting, Clean, owner # None, ConvertNext, Clean', owner' # None, Apart
  PROVE  Sees'
<1> USE PlacesDiffer, ConversionAssumption DEF Sees
<1>1. Sees
  BY PlainTypes
<1>2. UNCHANGED <<disk, arr, event, journal, owner>>
  BY ApartKeeps DEF Sighting
<1>3. (InSight' <=> InSight) /\ (OwnEvent' <=> OwnEvent) /\ (ToRescan' <=> ToRescan)
      /\ (Behind' <=> Behind) /\ (HasFile' <=> HasFile)
  BY <1>2 DEF Behind, InSight, OwnEvent, HasFile, ToRescan
<1>4. pc' \notin {"list", "intend", "settle"} \cup RowSteps
  BY ApartKeeps DEF Sighting, RowSteps
<1>5. \A r \in journal : r.owned = "rescanned"
  BY <1>1 DEF Worked, RowOf, Sighting, OneRow, Clean, Unjournaled
<1>6. Followed'
  BY <1>1, <1>2, <1>3, <1>4, <1>5 DEF Followed
<1>7. LostToRow'
  BY <1>1, <1>2, <1>3, <1>4, <1>5 DEF LostToRow, Lost, Doomed, RowSteps
<1>8. (\A x \in Worked : RowOf(x))'
  BY <1>1, <1>2, <1>3, <1>4, <1>5 DEF Worked, RowOf, Unjournaled, RowSteps
<1>9. Fresh'
  BY <1>1, <1>2, <1>3, <1>4, <1>5 DEF Fresh, Unjournaled, RowSteps
<1>10. Answer'
  <2>1. pc' = "back" => \A r \in rows' : r.owned = "rescanned"
    BY ApartKeeps DEF Sighting
  <2>2. pc' = "back" => \A r \in rows', q \in journal : r.id = q.id
    BY <1>1, ApartIds DEF Answer, Sighting
  <2> QED
    BY <1>1, <1>2, <1>4, <2>1, <2>2 DEF Answer
<1>11. Listed'
  <2>1. check' = Off \/ check' = check
    BY ApartKeeps DEF Sighting
  <2>2. job'.files = None \/ (job'.files = job.files /\ pc' \in {"back", "finish", "done"})
          \/ (job'.files = job.files /\ pc \notin {"settle", "back", "finish", "done"})
    BY ApartKeeps DEF Sighting
  <2> QED
    BY <1>1, <1>2, <1>3, <2>1, <2>2 DEF Listed, Off
<1> QED
  BY <1>6, <1>7, <1>8, <1>9, <1>10, <1>11

LEMMA AskedSees ==
  ASSUME Sighting, Clean, owner # None, ConvertNext, Clean', owner' # None, Asked
  PROVE  Sees'
<1> USE PlacesDiffer, ConversionAssumption DEF Sees
<1>1. Sees
  BY PlainTypes
<1>2. UNCHANGED <<disk, arr, event, journal, owner, check, task>>
  BY AskedKeeps
<1>3. (InSight' <=> InSight) /\ (OwnEvent' <=> OwnEvent) /\ (ToRescan' <=> ToRescan)
      /\ (Behind' <=> Behind) /\ (HasFile' <=> HasFile)
  BY <1>2 DEF Behind, InSight, OwnEvent, HasFile, ToRescan
<1>4. Followed'
  BY <1>1, <1>2, <1>3 DEF Followed, task
<1>5. LostToRow'
  BY <1>1, <1>2, <1>3 DEF LostToRow, Lost, Doomed, task
<1>6. (\A x \in Worked : RowOf(x))'
  BY <1>1, <1>2, <1>3 DEF Worked, RowOf, Unjournaled, task
<1>7. Fresh'
  BY <1>1, <1>2, <1>3 DEF Fresh, Unjournaled, RowSteps, task
<1>8. Answer'
  BY <1>1, <1>2, <1>3 DEF Answer, task
<1>9. Listed'
  BY <1>1, <1>2, <1>3 DEF Listed, task
<1> QED
  BY <1>4, <1>5, <1>6, <1>7, <1>8, <1>9

LEMMA ResumeSees ==
  ASSUME Sighting, Clean, owner # None, ConvertNext, Clean', owner' # None, NEW r \in rows,
         Resume(r)
  PROVE  Sees'
<1> USE PlacesDiffer, ConversionAssumption DEF Sees
<1>1. Sees
  BY PlainTypes
<1>2. UNCHANGED <<disk, arr, event, journal, owner, check, job>> /\ resumed'
  BY ResumeTo DEF Resume, Sighting, library, tables, users, said, others, task
<1>3. (InSight' <=> InSight) /\ (OwnEvent' <=> OwnEvent) /\ (ToRescan' <=> ToRescan)
      /\ (Behind' <=> Behind) /\ (HasFile' <=> HasFile)
  BY <1>2 DEF Behind, InSight, OwnEvent, HasFile, ToRescan
<1>4. pc = "resume" /\ pc' \in {"write", "owners", "remove"}
  BY ResumeTo DEF Sighting
<1>5. cur' = r /\ r \in journal
  BY <1>4, ResumeTo DEF Sighting, OneRow, Clean
<1>6. Followed'
  BY <1>1, <1>2, <1>3, <1>4, <1>5 DEF Followed
<1>7. LostToRow'
  BY <1>1, <1>2, <1>3, <1>4, <1>5 DEF LostToRow, Lost, Doomed
<1>8. (\A x \in Worked : RowOf(x))'
  BY <1>1, <1>2, <1>3, <1>4, <1>5 DEF Worked, RowOf, Unjournaled
<1>9. Fresh'
  BY <1>1, <1>2, <1>3, <1>4, <1>5 DEF Fresh, Unjournaled, RowSteps
<1>10. Answer'
  BY <1>1, <1>2, <1>3, <1>4, <1>5 DEF Answer
<1>11. Listed'
  BY <1>1, <1>2, <1>3, <1>4, <1>5 DEF Listed
<1> QED
  BY <1>6, <1>7, <1>8, <1>9, <1>10, <1>11

LEMMA LookSees ==
  ASSUME Sighting, Clean, owner # None, ConvertNext, Clean', owner' # None, NEW p \in todo,
         Look(p)
  PROVE  Sees'
<1> USE PlacesDiffer, ConversionAssumption DEF Sees
<1>1. Sees
  BY PlainTypes
<1>2. UNCHANGED <<disk, arr, event, journal, owner, check, job, resumed>>
  BY DEF Look, library, tables, users, said, others, task
<1>3. (InSight' <=> InSight) /\ (OwnEvent' <=> OwnEvent) /\ (ToRescan' <=> ToRescan)
      /\ (Behind' <=> Behind) /\ (HasFile' <=> HasFile)
  BY <1>2 DEF Behind, InSight, OwnEvent, HasFile, ToRescan
<1>4. pc = "files" /\ journal = {} /\ owner.at = p /\ p \in Places
  BY DEF Look, Clean, Sighting, ConvertTypeOK, TaskTypes
<1>5. pc' = "list"
      /\ cur' = [from |-> p, to |-> At(p, job.side), state |-> INTENT, missed |-> FALSE,
                   owned |-> "asked", id |-> owner.id]
  BY <1>4 DEF Look
<1>6. InSight /\ Behind
  BY <1>1, <1>4 DEF LostToRow, Followed
<1>7. owner.id \in Nat
  BY PlainTypes
<1>8. Followed'
  BY <1>1, <1>2, <1>3, <1>4, <1>5, <1>6, <1>7 DEF Followed
<1>9. LostToRow'
  BY <1>1, <1>2, <1>3, <1>4, <1>5, <1>6, <1>7 DEF LostToRow, Lost, Doomed
<1>10. (\A x \in Worked : RowOf(x))'
  <2>1. Worked' = {cur'}
    BY <1>2, <1>4, <1>5 DEF Worked, Unjournaled
  <2>2. OwnEvent => event.to[1] > owner.at[1] /\ event.to = arr.at
    BY <1>1, <1>6 DEF Followed
  <2>3. arr.at = p => ~OwnEvent
    BY <1>4, <2>2
  <2>4. RowOf(cur)'
    BY <1>2, <1>3, <1>4, <1>5, <1>6, <1>7, <2>3 DEF RowOf, Behind, INTENT, MOVED, CONVERTED
  <2> QED
    BY <2>1, <2>4
<1>11. Fresh'
  BY <1>1, <1>2, <1>3, <1>4, <1>5, <1>6, <1>7 DEF Fresh, Unjournaled, RowSteps
<1>12. Answer'
  BY <1>1, <1>2, <1>3, <1>4, <1>5, <1>6, <1>7 DEF Answer
<1>13. Listed'
  BY <1>1, <1>2, <1>3, <1>4, <1>5, <1>6, <1>7 DEF Listed
<1> QED
  BY <1>8, <1>9, <1>10, <1>11, <1>12, <1>13

LEMMA ListSees ==
  ASSUME Sighting, Clean, owner # None, ConvertNext, Clean', owner' # None, List
  PROVE  Sees'
<1> USE PlacesDiffer, ConversionAssumption DEF Sees
<1>1. Sees
  BY PlainTypes
<1>2. UNCHANGED <<disk, arr, event, journal, owner, check, resumed>> /\ pc = "list"
      /\ pc' = "intend"
  BY DEF List, library, tables, users, said, others, task
<1>3. (InSight' <=> InSight) /\ (OwnEvent' <=> OwnEvent) /\ (ToRescan' <=> ToRescan)
      /\ (Behind' <=> Behind) /\ (HasFile' <=> HasFile)
  BY <1>2 DEF Behind, InSight, OwnEvent, HasFile, ToRescan
<1>4. cur \in Rows /\ journal = {} /\ InSight /\ RowOf(cur)
  BY <1>2, InHand DEF Unjournaled
<1>5. ~resumed
  BY <1>2 DEF Sighting, Shaped, RowSteps
<1>6. cur.id = owner.id
  BY <1>2, <1>4 DEF RowOf, Sighting, Shaped, Unjournaled, INTENT, CONVERTED
<1>7. job'.files = (IF job.files = None THEN arr ELSE job.files)
  BY DEF List, Sighting, ConvertTypeOK, TaskTypes
<1>8. job'.files.at # None /\ job'.files.id = owner.id
  <2>1. arr.at # None /\ arr.id = owner.id
    BY <1>4, PlainTypes DEF InSight, HasFile
  <2> QED
    BY <1>1, <1>2, <1>4, <1>7, <2>1 DEF Listed
<1>9. cur' = [cur EXCEPT !.owned = "rescanned"]
  BY <1>6, <1>8 DEF List, Lists
<1>10. cur'.owned = "rescanned" /\ cur'.from = cur.from /\ cur'.to = cur.to
       /\ cur'.state = cur.state /\ cur'.id = cur.id
  BY <1>4, <1>9 DEF Rows
<1>11. Followed'
  BY <1>1, <1>2, <1>3, <1>4, <1>5, <1>6, <1>7, <1>8, <1>9, <1>10 DEF Followed
<1>12. LostToRow'
  BY <1>1, <1>2, <1>3, <1>4, <1>5, <1>6, <1>7, <1>8, <1>9, <1>10 DEF LostToRow, Lost, Doomed
<1>13. (\A x \in Worked : RowOf(x))'
  <2>1. Worked' = {cur'}
    BY <1>2, <1>4 DEF Worked, Unjournaled
  <2>2. RowOf(cur)'
    BY <1>2, <1>3, <1>4, <1>10 DEF RowOf
  <2> QED
    BY <2>1, <2>2
<1>14. Fresh'
  BY <1>1, <1>2, <1>3, <1>4, <1>5, <1>6, <1>7, <1>8, <1>9, <1>10 DEF Fresh, Unjournaled,
     RowSteps
<1>15. Answer'
  BY <1>1, <1>2, <1>3, <1>4, <1>5, <1>6, <1>7, <1>8, <1>9, <1>10 DEF Answer
<1>16. Listed'
  BY <1>1, <1>2, <1>3, <1>4, <1>5, <1>6, <1>7, <1>8, <1>9, <1>10 DEF Listed
<1> QED
  BY <1>11, <1>12, <1>13, <1>14, <1>15, <1>16

LEMMA ListForAnotherSees ==
  ASSUME Sighting, Clean, owner # None, ConvertNext, Clean', owner' # None, ListForAnother
  PROVE  Sees'
<1> USE PlacesDiffer, ConversionAssumption DEF Sees
<1>1. Sees
  BY PlainTypes
<1>2. UNCHANGED <<disk, arr, event, journal, owner, check, pc, rows, todo, cur, resumed, seen>>
  BY DEF ListForAnother, library, tables, users, said, others, task
<1>3. (InSight' <=> InSight) /\ (OwnEvent' <=> OwnEvent) /\ (ToRescan' <=> ToRescan)
      /\ (Behind' <=> Behind) /\ (HasFile' <=> HasFile)
  BY <1>2 DEF Behind, InSight, OwnEvent, HasFile, ToRescan
<1>4. job'.files = arr
  BY DEF ListForAnother, Sighting, ConvertTypeOK, TaskTypes
<1>5. InSight => arr.at # None /\ arr.id = owner.id
  BY PlainTypes DEF InSight, HasFile
<1>6. Followed'
  BY <1>1, <1>2, <1>3, <1>4, <1>5 DEF Followed
<1>7. LostToRow'
  BY <1>1, <1>2, <1>3, <1>4, <1>5 DEF LostToRow, Lost, Doomed
<1>8. (\A x \in Worked : RowOf(x))'
  BY <1>1, <1>2, <1>3, <1>4, <1>5 DEF Worked, RowOf, Unjournaled
<1>9. Fresh'
  BY <1>1, <1>2, <1>3, <1>4, <1>5 DEF Fresh, Unjournaled, RowSteps
<1>10. Answer'
  BY <1>1, <1>2, <1>3, <1>4, <1>5 DEF Answer
<1>11. Listed'
  BY <1>1, <1>2, <1>3, <1>4, <1>5 DEF Listed
<1> QED
  BY <1>6, <1>7, <1>8, <1>9, <1>10, <1>11

LEMMA RemoveFailsSees ==
  ASSUME Sighting, Clean, owner # None, ConvertNext, Clean', owner' # None, RemoveFails
  PROVE  Sees'
<1> USE PlacesDiffer, ConversionAssumption DEF Sees
<1>1. Sees
  BY PlainTypes
<1>2. UNCHANGED <<disk, arr, event, journal, owner, check, job, rows>> /\ ~resumed'
  BY DEF RemoveFails, Onward, OnDisk, library, tables, users, said, others, task
<1>3. (InSight' <=> InSight) /\ (OwnEvent' <=> OwnEvent) /\ (ToRescan' <=> ToRescan)
      /\ (Behind' <=> Behind) /\ (HasFile' <=> HasFile)
  BY <1>2 DEF Behind, InSight, OwnEvent, HasFile, ToRescan
<1>4. pc \in RowSteps /\ pc' \in {"resume", "files"}
  BY DEF RemoveFails, Onward, RowSteps
<1>5. \A r \in journal : r.owned = "rescanned"
  BY <1>1, <1>4 DEF Worked, RowOf, RowSteps
<1>6. Followed'
  BY <1>1, <1>2, <1>3, <1>4, <1>5 DEF Followed
<1>7. LostToRow'
  BY <1>1, <1>2, <1>3, <1>4, <1>5 DEF LostToRow, Lost, Doomed, RowSteps
<1>8. (\A x \in Worked : RowOf(x))'
  BY <1>1, <1>2, <1>3, <1>4, <1>5 DEF Worked, RowOf, Unjournaled
<1>9. Fresh'
  BY <1>1, <1>2, <1>3, <1>4, <1>5 DEF Fresh, Unjournaled, RowSteps
<1>10. Answer'
  BY <1>1, <1>2, <1>3, <1>4, <1>5 DEF Answer
<1>11. Listed'
  BY <1>1, <1>2, <1>3, <1>4, <1>5 DEF Listed, RowSteps
<1> QED
  BY <1>6, <1>7, <1>8, <1>9, <1>10, <1>11

----------------------------------------------------------------------------
(***************************************************************************)
(* A row is put, its target written, its owner moved.                      *)
(***************************************************************************)
\* A row that is put, further on, is the only one.
LEMMA AdvanceKeeps ==
  ASSUME Sighting, Clean, owner # None, NEW n \in INTENT .. CONVERTED, NEW to, Advance(n, to),
         pc \in Unjournaled \cup RowSteps
  PROVE  /\ UNCHANGED <<disk, arr, event, owner, check, job, rows, resumed>>
         /\ journal' = {cur'} /\ pc' = to
         /\ cur' \in Rows /\ cur'.from = cur.from /\ cur'.to = cur.to /\ cur'.owned = cur.owned
         /\ cur'.id = cur.id /\ cur'.state = n
<1>1. cur \in Rows /\ (journal = {cur} \/ journal = {})
  BY InHand
<1>2. OtherRows(cur) = {}
  BY <1>1, NoOthers
<1>3. cur' = Reached(cur, n)
  BY DEF Advance
<1>4. UNCHANGED <<arr, event>>
  BY DEF Advance, InTables, library
<1> QED
  BY <1>1, <1>2, <1>3, <1>4, AdvanceRow, IdKept

LEMMA IntendSees ==
  ASSUME Sighting, Clean, owner # None, ConvertNext, Clean', owner' # None, Intend
  PROVE  Sees'
<1> USE PlacesDiffer, ConversionAssumption DEF Sees
<1>1. Sees
  BY PlainTypes
<1>2. pc = "intend" /\ Advance(INTENT, "write")
  BY DEF Intend
<1>3. UNCHANGED <<disk, arr, event, owner, check, job, rows, resumed>>
      /\ journal' = {cur'} /\ pc' = "write" /\ cur' \in Rows /\ cur'.from = cur.from
         /\ cur'.to = cur.to
      /\ cur'.owned = cur.owned /\ cur'.id = cur.id /\ cur'.state = INTENT
  BY <1>2, StateRange, AdvanceKeeps DEF Unjournaled, RowSteps
<1>4. (InSight' <=> InSight) /\ (OwnEvent' <=> OwnEvent) /\ (ToRescan' <=> ToRescan)
      /\ (Behind' <=> Behind)
  BY <1>3 DEF Behind, InSight, OwnEvent, HasFile, ToRescan
<1>5. cur \in Rows /\ cur.from \in Places /\ cur.to \in Places /\ cur.from # cur.to
      /\ cur.to[1] = cur.from[1]
      /\ cur.to[2] # cur.from[2] /\ RowOf(cur) /\ InSight
  BY <1>2, InHand DEF Unjournaled, RowSteps
<1>6. journal = {}
  BY <1>2, InHand DEF Unjournaled, RowSteps
<1>7. cur.state = INTENT
  BY <1>2 DEF Sighting, Shaped, Unjournaled, RowSteps
<1>8. Followed'
  BY <1>1, <1>2, <1>3, <1>4, <1>5, <1>6, <1>7 DEF Followed, INTENT, WRITTEN, MOVED, CONVERTED
<1>9. LostToRow'
  BY <1>1, <1>2, <1>3, <1>4, <1>5, <1>6, <1>7 DEF LostToRow
<1>10. (\A x \in Worked : RowOf(x))'
  BY <1>1, <1>2, <1>3, <1>4, <1>5, <1>6, <1>7 DEF Worked, RowOf, INTENT, WRITTEN, MOVED,
     CONVERTED, Unjournaled, RowSteps
<1>11. Fresh'
  BY <1>1, <1>2, <1>3, <1>4, <1>5, <1>6, <1>7 DEF Fresh, Unjournaled, RowSteps
<1>12. Answer'
  BY <1>1, <1>2, <1>3, <1>4, <1>5, <1>6, <1>7 DEF Answer
<1>13. Listed'
  BY <1>1, <1>2, <1>3, <1>4, <1>5, <1>6, <1>7 DEF Listed
<1> QED
  BY <1>8, <1>9, <1>10, <1>11, <1>12, <1>13

LEMMA WrittenSees ==
  ASSUME Sighting, Clean, owner # None, ConvertNext, Clean', owner' # None, Written
  PROVE  Sees'
<1> USE PlacesDiffer, ConversionAssumption DEF Sees
<1>1. Sees
  BY PlainTypes
<1>2. pc = "written" /\ Advance(WRITTEN, "owners")
  BY DEF Written
<1>3. UNCHANGED <<disk, arr, event, owner, check, job, rows, resumed>>
      /\ journal' = {cur'} /\ pc' = "owners" /\ cur' \in Rows /\ cur'.from = cur.from
         /\ cur'.to = cur.to
      /\ cur'.owned = cur.owned /\ cur'.id = cur.id /\ cur'.state = WRITTEN
  BY <1>2, StateRange, AdvanceKeeps DEF Unjournaled, RowSteps
<1>4. (InSight' <=> InSight) /\ (OwnEvent' <=> OwnEvent) /\ (ToRescan' <=> ToRescan)
      /\ (Behind' <=> Behind)
  BY <1>3 DEF Behind, InSight, OwnEvent, HasFile, ToRescan
<1>5. cur \in Rows /\ cur.from \in Places /\ cur.to \in Places /\ cur.from # cur.to
      /\ cur.to[1] = cur.from[1]
      /\ cur.to[2] # cur.from[2] /\ RowOf(cur) /\ InSight
  BY <1>2, InHand DEF Unjournaled, RowSteps
<1>6. journal = {cur}
  BY <1>2, InHand DEF Unjournaled, RowSteps
<1>7. cur.state = INTENT
  BY <1>2 DEF Sighting, Shaped, Unjournaled, RowSteps
<1>8. Followed'
  BY <1>1, <1>2, <1>3, <1>4, <1>5, <1>6, <1>7 DEF Followed, INTENT, WRITTEN, MOVED, CONVERTED
<1>9. LostToRow'
  BY <1>1, <1>2, <1>3, <1>4, <1>5, <1>6, <1>7 DEF LostToRow
<1>10. (\A x \in Worked : RowOf(x))'
  BY <1>1, <1>2, <1>3, <1>4, <1>5, <1>6, <1>7 DEF Worked, RowOf, INTENT, WRITTEN, MOVED,
     CONVERTED, Unjournaled, RowSteps
<1>11. Fresh'
  BY <1>1, <1>2, <1>3, <1>4, <1>5, <1>6, <1>7 DEF Fresh, Unjournaled, RowSteps
<1>12. Answer'
  BY <1>1, <1>2, <1>3, <1>4, <1>5, <1>6, <1>7 DEF Answer
<1>13. Listed'
  BY <1>1, <1>2, <1>3, <1>4, <1>5, <1>6, <1>7 DEF Listed
<1> QED
  BY <1>8, <1>9, <1>10, <1>11, <1>12, <1>13

LEMMA MovedSees ==
  ASSUME Sighting, Clean, owner # None, ConvertNext, Clean', owner' # None, Moved
  PROVE  Sees'
<1> USE PlacesDiffer, ConversionAssumption DEF Sees
<1>1. Sees
  BY PlainTypes
<1>2. pc = "moved" /\ Advance(MOVED, "remove")
  BY DEF Moved
<1>3. UNCHANGED <<disk, arr, event, owner, check, job, rows, resumed>>
      /\ journal' = {cur'} /\ pc' = "remove" /\ cur' \in Rows /\ cur'.from = cur.from
         /\ cur'.to = cur.to
      /\ cur'.owned = cur.owned /\ cur'.id = cur.id /\ cur'.state = MOVED
  BY <1>2, StateRange, AdvanceKeeps DEF Unjournaled, RowSteps
<1>4. (InSight' <=> InSight) /\ (OwnEvent' <=> OwnEvent) /\ (ToRescan' <=> ToRescan)
      /\ (Behind' <=> Behind)
  BY <1>3 DEF Behind, InSight, OwnEvent, HasFile, ToRescan
<1>5. cur \in Rows /\ cur.from \in Places /\ cur.to \in Places /\ cur.from # cur.to
      /\ cur.to[1] = cur.from[1]
      /\ cur.to[2] # cur.from[2] /\ RowOf(cur) /\ InSight
  BY <1>2, InHand DEF Unjournaled, RowSteps
<1>6. journal = {cur}
  BY <1>2, InHand DEF Unjournaled, RowSteps
<1>7. cur.state = WRITTEN
  BY <1>2 DEF Sighting, Shaped, Unjournaled, RowSteps
<1>8. Followed'
  BY <1>1, <1>2, <1>3, <1>4, <1>5, <1>6, <1>7 DEF Followed, INTENT, WRITTEN, MOVED, CONVERTED
<1>9. LostToRow'
  BY <1>1, <1>2, <1>3, <1>4, <1>5, <1>6, <1>7 DEF LostToRow
<1>10. (\A x \in Worked : RowOf(x))'
  BY <1>1, <1>2, <1>3, <1>4, <1>5, <1>6, <1>7 DEF Worked, RowOf, INTENT, WRITTEN, MOVED,
     CONVERTED, Unjournaled, RowSteps
<1>11. Fresh'
  BY <1>1, <1>2, <1>3, <1>4, <1>5, <1>6, <1>7 DEF Fresh, Unjournaled, RowSteps
<1>12. Answer'
  BY <1>1, <1>2, <1>3, <1>4, <1>5, <1>6, <1>7 DEF Answer
<1>13. Listed'
  BY <1>1, <1>2, <1>3, <1>4, <1>5, <1>6, <1>7 DEF Listed
<1> QED
  BY <1>8, <1>9, <1>10, <1>11, <1>12, <1>13

LEMMA WriteSees ==
  ASSUME Sighting, Clean, owner # None, ConvertNext, Clean', owner' # None, WriteTarget \/
         WriteFails
  PROVE  Sees'
<1> USE PlacesDiffer, ConversionAssumption DEF Sees
<1>1. Sees
  BY PlainTypes
<1>2. pc = "write" /\ pc' \in {"written", "forget"}
  BY DEF WriteTarget, WriteFails, Goes
<1>3. UNCHANGED <<arr, event, journal, owner, check, job, rows, cur, resumed>>
  BY DEF WriteTarget, WriteFails, Goes, OnDisk, library, tables, users, said, others, task
<1>4. cur \in Rows /\ cur.from \in Places /\ cur.to \in Places /\ cur.from # cur.to
      /\ cur.to[1] = cur.from[1]
      /\ cur.to[2] # cur.from[2] /\ RowOf(cur) /\ InSight /\ journal = {cur}
  BY <1>2, InHand DEF Unjournaled, RowSteps
<1>5. disk \in [Places -> {"ours", "foreign", None}]
  BY PlainTypes
<1>6. disk' = disk \/ disk' = [disk EXCEPT ![cur.to] = "ours"]
  BY DEF WriteTarget, WriteFails
<1>7. pc' = "written" => disk'[cur.to] = "ours"
  BY <1>4, <1>5 DEF WriteTarget, WriteFails, Goes
<1>8. arr.at \in Places /\ disk'[arr.at] = "ours"
  BY <1>4, <1>5, <1>6, PlainTypes DEF InSight, HasFile
<1>9. InSight'
  BY <1>3, <1>4, <1>8, PlainTypes DEF InSight, HasFile
<1>10. (OwnEvent' <=> OwnEvent) /\ (ToRescan' <=> ToRescan) /\ (Behind' <=> Behind)
  BY <1>3 DEF Behind, InSight, OwnEvent, HasFile, ToRescan
<1>11. cur.state = INTENT
  BY <1>2 DEF Sighting, Shaped, Unjournaled, RowSteps
<1>12. Behind
  BY <1>1, <1>4, <1>11 DEF Followed
<1>13. Followed'
  BY <1>1, <1>2, <1>3, <1>4, <1>5, <1>6, <1>7, <1>8, <1>9, <1>10, <1>11, <1>12 DEF Followed,
     INTENT, WRITTEN, MOVED, CONVERTED
<1>14. LostToRow'
  BY <1>1, <1>2, <1>3, <1>4, <1>5, <1>6, <1>7, <1>8, <1>9, <1>10, <1>11, <1>12 DEF LostToRow
<1>15. (\A x \in Worked : RowOf(x))'
  BY <1>1, <1>2, <1>3, <1>4, <1>5, <1>6, <1>7, <1>8, <1>9, <1>10, <1>11, <1>12 DEF Worked,
     RowOf, INTENT, WRITTEN, MOVED, CONVERTED, Unjournaled, RowSteps
<1>16. Fresh'
  BY <1>1, <1>2, <1>3, <1>4, <1>5, <1>6, <1>7, <1>8, <1>9, <1>10, <1>11, <1>12 DEF Fresh,
     Unjournaled, RowSteps
<1>17. Answer'
  BY <1>1, <1>2, <1>3, <1>4, <1>5, <1>6, <1>7, <1>8, <1>9, <1>10, <1>11, <1>12 DEF Answer
<1>18. Listed'
  BY <1>1, <1>2, <1>3, <1>4, <1>5, <1>6, <1>7, <1>8, <1>9, <1>10, <1>11, <1>12 DEF Listed
<1> QED
  BY <1>13, <1>14, <1>15, <1>16, <1>17, <1>18

LEMMA ForgetSees ==
  ASSUME Sighting, Clean, owner # None, ConvertNext, Clean', owner' # None, Forget
  PROVE  Sees'
<1> USE PlacesDiffer, ConversionAssumption DEF Sees
<1>1. Sees
  BY PlainTypes
<1>2. pc = "forget" /\ pc' \in {"resume", "files"} /\ ~resumed'
  BY DEF Forget, Onward
<1>3. UNCHANGED <<disk, arr, event, owner, check, job, rows>>
  BY DEF Forget, Onward, InTables, library, tables, users, said, others, task
<1>4. (InSight' <=> InSight) /\ (OwnEvent' <=> OwnEvent) /\ (ToRescan' <=> ToRescan)
      /\ (Behind' <=> Behind)
  BY <1>3 DEF Behind, InSight, OwnEvent, HasFile, ToRescan
<1>5. InSight /\ journal = {cur}
  BY <1>2, InHand DEF Unjournaled, RowSteps
<1>6. journal' = {}
  BY <1>5, NoOthers DEF Forget
<1>7. Behind
  BY <1>1, <1>2 DEF Fresh
<1>8. Followed'
  BY <1>1, <1>2, <1>3, <1>4, <1>5, <1>6, <1>7 DEF Followed, INTENT, WRITTEN, MOVED, CONVERTED
<1>9. LostToRow'
  BY <1>1, <1>2, <1>3, <1>4, <1>5, <1>6, <1>7 DEF LostToRow
<1>10. (\A x \in Worked : RowOf(x))'
  BY <1>1, <1>2, <1>3, <1>4, <1>5, <1>6, <1>7 DEF Worked, RowOf, INTENT, WRITTEN, MOVED,
     CONVERTED, Unjournaled, RowSteps
<1>11. Fresh'
  BY <1>1, <1>2, <1>3, <1>4, <1>5, <1>6, <1>7 DEF Fresh, Unjournaled, RowSteps
<1>12. Answer'
  BY <1>1, <1>2, <1>3, <1>4, <1>5, <1>6, <1>7 DEF Answer
<1>13. Listed'
  BY <1>1, <1>2, <1>3, <1>4, <1>5, <1>6, <1>7 DEF Listed
<1> QED
  BY <1>8, <1>9, <1>10, <1>11, <1>12, <1>13

LEMMA OwnersSees ==
  ASSUME Sighting, Clean, owner # None, ConvertNext, Clean', owner' # None, Owners
  PROVE  Sees'
<1> USE PlacesDiffer, ConversionAssumption DEF Sees
<1>1. Sees
  BY PlainTypes
<1>2. pc = "owners" /\ pc' = "moved"
  BY DEF Owners, Goes
<1>3. UNCHANGED <<disk, arr, event, journal, check, job, rows, cur, resumed>>
  BY DEF Owners, Goes, InTables, library, tables, users, said, others, task
<1>4. cur \in Rows /\ cur.from \in Places /\ cur.to \in Places /\ cur.from # cur.to
      /\ cur.to[1] = cur.from[1]
      /\ cur.to[2] # cur.from[2] /\ RowOf(cur) /\ InSight /\ journal = {cur}
  BY <1>2, InHand DEF Unjournaled, RowSteps
<1>5. cur.state = WRITTEN
  BY <1>2 DEF Sighting, Shaped, Unjournaled, RowSteps
<1>6. cur.owned = "rescanned" /\ cur.id = owner.id
  BY <1>2, <1>4, <1>5 DEF RowOf, INTENT, WRITTEN, MOVED, CONVERTED
<1>7. owner' = owner \/ (owner.at = cur.from /\ owner'.at = cur.to /\ owner'.id = owner.id
      /\ owner'.pending)
  <2>1. [owner EXCEPT !.at = cur.to, !.pending = TRUE].at = cur.to
        /\ [owner EXCEPT !.at = cur.to, !.pending = TRUE].id = owner.id
        /\ [owner EXCEPT !.at = cur.to, !.pending = TRUE].pending
    BY PlainTypes
  <2>2. (cur.owned = "rescanned") = TRUE
    BY <1>6
  <2>3. MoveOwner(cur.from, cur.to, TRUE)
    BY <2>2 DEF Owners
  <2> QED
    BY <2>1, <2>3 DEF MoveOwner
<1>8. owner.at # cur.from => owner' = owner
  BY DEF Owners, MoveOwner
<1>9. owner.at = cur.from => owner'.at = cur.to /\ owner'.pending
  <2>1. SUFFICES ASSUME owner.at = cur.from PROVE owner'.at = cur.to /\ owner'.pending
    OBVIOUS
  <2>2. owner'.at = cur.to
    BY <1>6, <2>1, PlainTypes DEF Owners, MoveOwner
  <2> QED
    BY <1>4, <1>7, <2>1, <2>2
<1>10. InSight' /\ (OwnEvent' <=> OwnEvent)
  BY <1>3, <1>4, <1>7 DEF InSight, OwnEvent, HasFile
<1>11. check.at = "owners" => owner' = owner
  BY DEF Owners, Note, Clean
<1>12. owner'.id = owner.id
  BY <1>7
<1>13. owner'.at[1] = owner.at[1]
  BY <1>4, <1>7
<1>14. Followed'
  BY <1>1, <1>2, <1>3, <1>4, <1>5, <1>6, <1>7, <1>8, <1>9, <1>10, <1>11, <1>12, <1>13 DEF
     Followed, Behind, ToRescan, INTENT, WRITTEN, MOVED, CONVERTED
<1>15. LostToRow'
  BY <1>1, <1>2, <1>3, <1>4, <1>5, <1>6, <1>7, <1>8, <1>9, <1>10, <1>11, <1>12, <1>13 DEF
     LostToRow
<1>16. (\A x \in Worked : RowOf(x))'
  BY <1>1, <1>2, <1>3, <1>4, <1>5, <1>6, <1>7, <1>8, <1>9, <1>10, <1>11, <1>12, <1>13 DEF
     Worked, RowOf, ToRescan, INTENT, WRITTEN, MOVED, CONVERTED, Unjournaled, RowSteps
<1>17. Fresh'
  BY <1>1, <1>2, <1>3, <1>4, <1>5, <1>6, <1>7, <1>8, <1>9, <1>10, <1>11, <1>12, <1>13 DEF Fresh,
     Unjournaled, RowSteps
<1>18. Answer'
  BY <1>1, <1>2, <1>3, <1>4, <1>5, <1>6, <1>7, <1>8, <1>9, <1>10, <1>11, <1>12, <1>13 DEF Answer
<1>19. Listed'
  BY <1>1, <1>2, <1>3, <1>4, <1>5, <1>6, <1>7, <1>8, <1>9, <1>10, <1>11, <1>12, <1>13 DEF
     Listed, ToRescan
<1> QED
  BY <1>14, <1>15, <1>16, <1>17, <1>18, <1>19

----------------------------------------------------------------------------
(***************************************************************************)
(* Its source goes, or it is undone.                                       *)
(***************************************************************************)
LEMMA RemoveSees ==
  ASSUME Sighting, Clean, owner # None, ConvertNext, Clean', owner' # None, Remove
  PROVE  Sees'
<1> USE PlacesDiffer, ConversionAssumption DEF Sees
<1>1. Sees
  BY PlainTypes
<1>2. pc = "remove" /\ pc' \in {"removed", "undo"} /\ (pc' = "undo" => ~Removable)
  BY DEF Remove, Goes
<1>3. UNCHANGED <<arr, event, journal, owner, check, job, rows, cur, resumed>>
  BY DEF Remove, Goes, OnDisk, library, tables, users, said, others, task
<1>4. cur \in Rows /\ cur.from \in Places /\ cur.to \in Places /\ cur.from # cur.to
      /\ cur.to[1] = cur.from[1]
      /\ cur.to[2] # cur.from[2] /\ RowOf(cur) /\ journal = {cur} /\ (~InSight => Lost(cur))
  BY <1>2, InHand DEF Unjournaled, RowSteps
<1>5. cur.state = MOVED
  BY <1>2 DEF Sighting, Shaped, Unjournaled, RowSteps
<1>6. cur.owned = "rescanned"
  BY <1>2, <1>4 DEF RowOf
<1>7. cur.id = owner.id
  BY <1>4, <1>5 DEF RowOf, INTENT, WRITTEN, MOVED, CONVERTED
<1>8. disk \in [Places -> {"ours", "foreign", None}] /\ (arr.at = None \/ arr.at \in Places)
      /\ None \notin Places
      /\ arr.id \in Nat /\ owner.id \in Nat
  BY PlainTypes
<1>9. \/ disk[cur.from] = "ours" /\ disk' = [disk EXCEPT ![cur.from] = None] /\ pc' = "removed"
      \/ disk[cur.from] # "ours" /\ disk' = disk
  BY <1>2 DEF Remove, Removable, Source
<1>10. /\ \A p \in Places : p # cur.from => disk'[p] = disk[p]
       /\ disk[cur.from] = "foreign" => disk'[cur.from] = "foreign" /\ pc' = "undo"
  <2>1. disk[cur.from] = "foreign" => ~Removable
    BY ConversionAssumption DEF Removable, Source
  <2>2. disk[cur.from] = "foreign" => pc' = "undo"
    BY <2>1 DEF Remove, Goes
  <2> QED
    BY <1>4, <1>8, <1>9, <2>2
<1>11. (OwnEvent' <=> OwnEvent) /\ (ToRescan' <=> ToRescan) /\ (Behind' <=> Behind)
       /\ (HasFile' => HasFile) /\ (InSight' => InSight)
  BY <1>3, <1>4, <1>8, <1>9, <1>10 DEF Behind, InSight, OwnEvent, HasFile, ToRescan
<1>12. arr.at # cur.from => (HasFile' <=> HasFile) /\ (InSight' <=> InSight)
  <2>1. CASE arr.at = None
    BY <1>3, <1>4, <2>1 DEF Behind, InSight, OwnEvent, HasFile, ToRescan
  <2>2. CASE arr.at \in Places
    BY <1>3, <1>4, <1>10, <2>2 DEF Behind, InSight, OwnEvent, HasFile, ToRescan
  <2> QED
    BY <1>8, <2>1, <2>2
<1>13. InSight /\ ~InSight' =>
         /\ arr.at = cur.from /\ disk'[cur.from] = None /\ pc' = "removed"
         /\ owner.at = cur.to /\ ToRescan /\ ~OwnEvent /\ disk[cur.to] = "ours"
            /\ arr.id = owner.id
  <2>1. SUFFICES ASSUME InSight, ~InSight'
                 PROVE  /\ arr.at = cur.from /\ disk'[cur.from] = None /\ pc' = "removed"
        /\ owner.at = cur.to /\ ToRescan /\ ~OwnEvent /\ disk[cur.to] = "ours"
           /\ arr.id = owner.id
    OBVIOUS
  <2>2. arr.at = cur.from /\ arr.id = owner.id
    BY <1>12, <2>1 DEF InSight
  <2>3. owner.at = cur.to /\ ToRescan /\ ~OwnEvent /\ disk[cur.to] = "ours"
    BY <1>4, <1>5, <2>1, <2>2 DEF RowOf, INTENT, WRITTEN, MOVED, CONVERTED
  <2>4. disk' # disk
    BY <1>3, <2>1 DEF InSight, HasFile
  <2> QED
    BY <1>4, <1>8, <1>9, <2>2, <2>3, <2>4
<1>14. disk[cur.from] # "ours" => disk' = disk
  BY <1>9
<1>15. InSight => arr.at \in Places /\ disk[arr.at] = "ours" /\ arr.id = owner.id
  BY <1>8 DEF InSight, HasFile
<1>16. Followed'
  BY <1>1, <1>2, <1>3, <1>4, <1>5, <1>6, <1>7, <1>8, <1>9, <1>10, <1>11, <1>12, <1>13, <1>14,
     <1>15 DEF Followed, INTENT, WRITTEN, MOVED, CONVERTED
<1>17. LostToRow'
  <2>1. SUFFICES ASSUME ~InSight' PROVE ToRescan /\ ~OwnEvent /\ Lost(cur)'
    BY <1>2, <1>3, <1>4, <1>11 DEF LostToRow
  <2>2. CASE InSight
    BY <1>2, <1>3, <1>4, <1>5, <1>6, <1>8, <1>10, <1>13, <2>1, <2>2 DEF Lost, Doomed
  <2>3. CASE ~InSight
    <3>1. ToRescan /\ ~OwnEvent /\ Lost(cur)
      BY <1>1, <1>4, <2>3 DEF LostToRow
    <3>2. CASE Doomed(cur)
      BY <1>3, <1>4, <1>10, <3>1, <3>2 DEF Lost, Doomed
    <3>3. CASE ~Doomed(cur)
      <4>1. disk'[cur.to] = disk[cur.to]
        BY <1>4, <1>10
      <4>2. disk[cur.to] # "ours" => HasFile'
        <5>1. SUFFICES ASSUME disk[cur.to] # "ours" PROVE HasFile'
          OBVIOUS
        <5>2. HasFile /\ arr.at[1] > cur.to[1]
          BY <3>1, <3>3, <5>1 DEF Lost
        <5>3. arr.at # cur.from
          BY <1>4, <1>8, <5>2
        <5> QED
          BY <1>12, <5>2, <5>3
      <4> QED
        BY <1>3, <3>1, <3>3, <4>1, <4>2 DEF Lost
    <3> QED
      BY <3>1, <3>2, <3>3
  <2> QED
    BY <2>2, <2>3
<1>18. (\A x \in Worked : RowOf(x))'
  BY <1>1, <1>2, <1>3, <1>4, <1>5, <1>6, <1>7, <1>8, <1>9, <1>10, <1>11, <1>12, <1>13, <1>14,
     <1>15 DEF Worked, RowOf, INTENT, WRITTEN, MOVED, CONVERTED, Unjournaled, RowSteps
<1>19. Fresh'
  BY <1>1, <1>2, <1>3, <1>4, <1>5, <1>6, <1>7, <1>8, <1>9, <1>10, <1>11, <1>12, <1>13, <1>14,
     <1>15 DEF Fresh, Unjournaled, RowSteps
<1>20. Answer'
  BY <1>1, <1>2, <1>3, <1>4, <1>5, <1>6, <1>7, <1>8, <1>9, <1>10, <1>11, <1>12, <1>13, <1>14,
     <1>15 DEF Answer
<1>21. Listed'
  BY <1>1, <1>2, <1>3, <1>4, <1>5, <1>6, <1>7, <1>8, <1>9, <1>10, <1>11, <1>12, <1>13, <1>14,
     <1>15 DEF Listed
<1> QED
  BY <1>16, <1>17, <1>18, <1>19, <1>20, <1>21

LEMMA RemovedSees ==
  ASSUME Sighting, Clean, owner # None, ConvertNext, Clean', owner' # None, Removed
  PROVE  Sees'
<1> USE PlacesDiffer, ConversionAssumption DEF Sees
<1>1. Sees
  BY PlainTypes
<1>2. pc = "removed" /\ pc' \in {"resume", "files"} /\ ~resumed'
  BY DEF Removed, Onward
<1>3. UNCHANGED <<disk, arr, event, owner, check, job, rows>>
  BY DEF Removed, Onward, InTables, library, tables, users, said, others, task
<1>4. (InSight' <=> InSight) /\ (OwnEvent' <=> OwnEvent) /\ (ToRescan' <=> ToRescan)
      /\ (Behind' <=> Behind)
  BY <1>3 DEF Behind, InSight, OwnEvent, HasFile, ToRescan
<1>5. cur \in Rows /\ cur.from \in Places /\ cur.to \in Places /\ cur.from # cur.to
      /\ cur.to[1] = cur.from[1]
      /\ cur.to[2] # cur.from[2] /\ RowOf(cur) /\ journal = {cur} /\ (~InSight => Lost(cur))
  BY <1>2, InHand DEF Unjournaled, RowSteps
<1>6. cur.state = MOVED
  BY <1>2 DEF Sighting, Shaped, Unjournaled, RowSteps
<1>7. cur.owned = "rescanned"
  BY <1>2, <1>5 DEF RowOf
<1>8. journal' = {Reached(cur, CONVERTED)}
  <2>1. Reached(cur, CONVERTED).from = cur.from
    BY <1>5, ReachedRow, StateRange
  <2>2. OtherRows(Reached(cur, CONVERTED)) = {}
    BY <1>5, <2>1, NoOthers
  <2> QED
    BY <1>7, <2>2 DEF Removed, Kept, Put
<1>9. PICK row : journal' = {row} /\ row.from = cur.from /\ row.to = cur.to
      /\ row.owned = cur.owned
      /\ row.state = CONVERTED /\ row.id = cur.id /\ row \in Rows
  BY <1>5, <1>8, ReachedRow, StateRange, IdKept
<1>10. (HasFile' <=> HasFile) /\ Lost(cur)' = Lost(cur)'
  BY <1>3 DEF HasFile
<1>11. ~InSight => Lost(row)'
  <2>1. SUFFICES ASSUME ~InSight PROVE Lost(row)'
    OBVIOUS
  <2>2. Lost(cur) /\ ~Doomed(cur)
    BY <1>2, <1>5, <2>1 DEF Doomed
  <2> QED
    BY <1>3, <1>9, <1>10, <2>2 DEF Lost, Doomed
<1>12. Followed'
  BY <1>1, <1>2, <1>3, <1>4, <1>5, <1>6, <1>7, <1>8, <1>9, <1>10, <1>11 DEF Followed, INTENT,
     WRITTEN, MOVED, CONVERTED
<1>13. LostToRow'
  BY <1>1, <1>2, <1>3, <1>4, <1>5, <1>6, <1>7, <1>8, <1>9, <1>10, <1>11 DEF LostToRow
<1>14. (\A x \in Worked : RowOf(x))'
  BY <1>1, <1>2, <1>3, <1>4, <1>5, <1>6, <1>7, <1>8, <1>9, <1>10, <1>11 DEF Worked, RowOf,
     INTENT, WRITTEN, MOVED, CONVERTED, Unjournaled, RowSteps
<1>15. Fresh'
  BY <1>1, <1>2, <1>3, <1>4, <1>5, <1>6, <1>7, <1>8, <1>9, <1>10, <1>11 DEF Fresh, Unjournaled,
     RowSteps
<1>16. Answer'
  BY <1>1, <1>2, <1>3, <1>4, <1>5, <1>6, <1>7, <1>8, <1>9, <1>10, <1>11 DEF Answer
<1>17. Listed'
  BY <1>1, <1>2, <1>3, <1>4, <1>5, <1>6, <1>7, <1>8, <1>9, <1>10, <1>11 DEF Listed
<1> QED
  BY <1>12, <1>13, <1>14, <1>15, <1>16, <1>17

LEMMA UndoSees ==
  ASSUME Sighting, Clean, owner # None, ConvertNext, Clean', owner' # None, Undo
  PROVE  Sees'
<1> USE PlacesDiffer, ConversionAssumption DEF Sees
<1>1. Sees
  BY PlainTypes
<1>2. pc = "undo" /\ pc' = "return"
  BY DEF Undo, Goes
<1>3. UNCHANGED <<arr, event, journal, owner, check, job, rows, cur, resumed>>
  BY DEF Undo, Goes, OnDisk, library, tables, users, said, others, task
<1>4. cur \in Rows /\ cur.from \in Places /\ cur.to \in Places /\ cur.from # cur.to
      /\ cur.to[1] = cur.from[1]
      /\ cur.to[2] # cur.from[2] /\ RowOf(cur) /\ journal = {cur} /\ (~InSight => Lost(cur))
  BY <1>2, InHand DEF Unjournaled, RowSteps
<1>5. cur.state = MOVED
  BY <1>2 DEF Sighting, Shaped, Unjournaled, RowSteps
<1>6. cur.owned = "rescanned" /\ cur.id = owner.id
  BY <1>2, <1>4, <1>5 DEF RowOf, INTENT, WRITTEN, MOVED, CONVERTED
<1>7. disk \in [Places -> {"ours", "foreign", None}] /\ (arr.at = None \/ arr.at \in Places)
      /\ None \notin Places
      /\ arr.id \in Nat /\ owner.id \in Nat
  BY PlainTypes
<1>8. disk' = disk \/ disk' = [disk EXCEPT ![cur.to] = None]
  BY DEF Undo
<1>9. InSight => arr.at \in Places /\ arr.at # cur.to
  <2>1. InSight => arr.at \in Places
    BY <1>7 DEF InSight, HasFile
  <2> QED
    BY <1>4, <1>6, <2>1 DEF RowOf
<1>10. (InSight' <=> InSight) /\ (OwnEvent' <=> OwnEvent) /\ (ToRescan' <=> ToRescan)
       /\ (Behind' <=> Behind) /\ disk'[cur.from] = disk[cur.from]
  BY <1>3, <1>4, <1>7, <1>8, <1>9 DEF Behind, InSight, OwnEvent, HasFile, ToRescan
<1>11. resumed => disk[cur.from] = "foreign"
  BY <1>2 DEF Sighting, Doubled, Source
<1>12. ~resumed => InSight /\ arr.at # cur.from
  BY <1>1, <1>2 DEF Fresh, Unjournaled, RowSteps
<1>13. InSight => arr.at # cur.from
  BY <1>7, <1>11, <1>12, ConversionAssumption DEF InSight, HasFile
<1>14. Followed'
  BY <1>1, <1>2, <1>3, <1>4, <1>5, <1>6, <1>7, <1>8, <1>9, <1>10, <1>11, <1>12, <1>13 DEF
     Followed, INTENT, WRITTEN, MOVED, CONVERTED
<1>15. LostToRow'
  <2>1. SUFFICES ASSUME ~InSight PROVE ToRescan /\ ~OwnEvent /\ Lost(cur)'
    BY <1>2, <1>3, <1>4, <1>10 DEF LostToRow
  <2>2. ToRescan /\ ~OwnEvent /\ Lost(cur)
    BY <1>1, <1>4, <2>1 DEF LostToRow
  <2> QED
    BY <1>2, <1>3, <1>4, <1>5, <1>10, <1>11, <1>12, <2>1, <2>2 DEF Lost, Doomed
<1>16. (\A x \in Worked : RowOf(x))'
  BY <1>1, <1>2, <1>3, <1>4, <1>5, <1>6, <1>7, <1>8, <1>9, <1>10, <1>11, <1>12, <1>13 DEF
     Worked, RowOf, INTENT, WRITTEN, MOVED, CONVERTED, Unjournaled, RowSteps
<1>17. Fresh'
  BY <1>1, <1>2, <1>3, <1>4, <1>5, <1>6, <1>7, <1>8, <1>9, <1>10, <1>11, <1>12, <1>13 DEF Fresh,
     Unjournaled, RowSteps
<1>18. Answer'
  BY <1>1, <1>2, <1>3, <1>4, <1>5, <1>6, <1>7, <1>8, <1>9, <1>10, <1>11, <1>12, <1>13 DEF Answer
<1>19. Listed'
  BY <1>1, <1>2, <1>3, <1>4, <1>5, <1>6, <1>7, <1>8, <1>9, <1>10, <1>11, <1>12, <1>13 DEF Listed
<1> QED
  BY <1>14, <1>15, <1>16, <1>17, <1>18, <1>19

LEMMA ReturnSees ==
  ASSUME Sighting, Clean, owner # None, ConvertNext, Clean', owner' # None, Return
  PROVE  Sees'
<1> USE PlacesDiffer, ConversionAssumption DEF Sees
<1>1. Sees
  BY PlainTypes
<1>2. pc = "return" /\ pc' = "forget"
  BY DEF Return, Goes
<1>3. UNCHANGED <<disk, arr, event, journal, check, job, rows, cur, resumed>>
  BY DEF Return, Goes, InTables, library, tables, users, said, others, task
<1>4. cur \in Rows /\ cur.from \in Places /\ cur.to \in Places /\ cur.from # cur.to
      /\ cur.to[1] = cur.from[1]
      /\ cur.to[2] # cur.from[2] /\ RowOf(cur) /\ journal = {cur} /\ (~InSight => Lost(cur))
  BY <1>2, InHand DEF Unjournaled, RowSteps
<1>5. cur.state = MOVED
  BY <1>2 DEF Sighting, Shaped, Unjournaled, RowSteps
<1>6. cur.owned = "rescanned" /\ cur.id = owner.id
  BY <1>2, <1>4, <1>5 DEF RowOf, INTENT, WRITTEN, MOVED, CONVERTED
<1>7. owner.at # cur.to => owner' = owner
  BY DEF Return, MoveOwner
<1>8. owner.at = cur.to => owner'.at = cur.from /\ owner'.id = owner.id /\ ~owner'.pending
  <2>1. SUFFICES ASSUME owner.at = cur.to
                 PROVE  owner' = [owner EXCEPT !.at = cur.from, !.pending = FALSE]
    BY PlainTypes
  <2> QED
    BY <1>6, <2>1 DEF Return, MoveOwner
<1>9. resumed => owner' = owner
  BY DEF Return, Note, Clean
<1>10. InSight
  <2>1. SUFFICES ASSUME ~InSight PROVE FALSE
    OBVIOUS
  <2>2. owner.at = cur.to
    BY <1>4, <2>1 DEF Lost
  <2>3. resumed
    BY <1>1, <1>2, <2>1 DEF Fresh, Unjournaled, RowSteps
  <2> QED
    BY <1>4, <1>8, <1>9, <2>2, <2>3
<1>11. owner'.id = owner.id /\ owner'.at[1] = owner.at[1]
  BY <1>4, <1>7, <1>8
<1>12. InSight' /\ (OwnEvent' <=> OwnEvent)
  BY <1>3, <1>10, <1>11 DEF InSight, OwnEvent, HasFile
<1>13. cur.from[2] = arr.at[2] /\ cur.from[1] <= arr.at[1]
  BY <1>4, <1>6, <1>10 DEF RowOf
<1>14. ~resumed => arr.at # cur.from
  BY <1>1, <1>2 DEF Fresh
<1>15. owner.at # cur.to => Behind
  BY <1>1, <1>4, <1>10 DEF Followed
<1>16. Behind'
  <2>1. CASE owner.at = cur.to
    BY <1>3, <1>8, <1>13, <2>1 DEF Behind
  <2>2. CASE owner.at # cur.to
    BY <1>3, <1>7, <1>15, <2>2 DEF Behind
  <2> QED
    BY <2>1, <2>2
<1>17. ToRescan' => ToRescan
  BY <1>7, <1>8 DEF ToRescan
<1>18. owner.at # cur.to => (ToRescan' <=> ToRescan)
  BY <1>7 DEF ToRescan
<1>19. Followed'
  BY <1>1, <1>2, <1>3, <1>4, <1>5, <1>6, <1>7, <1>8, <1>9, <1>10, <1>11, <1>12, <1>13, <1>14,
     <1>15, <1>16, <1>17, <1>18 DEF Followed, INTENT, WRITTEN, MOVED, CONVERTED
<1>20. LostToRow'
  BY <1>1, <1>2, <1>3, <1>4, <1>5, <1>6, <1>7, <1>8, <1>9, <1>10, <1>11, <1>12, <1>13, <1>14,
     <1>15, <1>16, <1>17, <1>18 DEF LostToRow
<1>21. (\A x \in Worked : RowOf(x))'
  BY <1>1, <1>2, <1>3, <1>4, <1>5, <1>6, <1>7, <1>8, <1>9, <1>10, <1>11, <1>12, <1>13, <1>14,
     <1>15, <1>16, <1>17, <1>18 DEF Worked, RowOf, INTENT, WRITTEN, MOVED, CONVERTED,
     Unjournaled, RowSteps
<1>22. Fresh'
  BY <1>1, <1>2, <1>3, <1>4, <1>5, <1>6, <1>7, <1>8, <1>9, <1>10, <1>11, <1>12, <1>13, <1>14,
     <1>15, <1>16, <1>17, <1>18 DEF Fresh, Unjournaled, RowSteps
<1>23. Answer'
  BY <1>1, <1>2, <1>3, <1>4, <1>5, <1>6, <1>7, <1>8, <1>9, <1>10, <1>11, <1>12, <1>13, <1>14,
     <1>15, <1>16, <1>17, <1>18 DEF Answer
<1>24. Listed'
  BY <1>1, <1>2, <1>3, <1>4, <1>5, <1>6, <1>7, <1>8, <1>9, <1>10, <1>11, <1>12, <1>13, <1>14,
     <1>15, <1>16, <1>17, <1>18 DEF Listed
<1> QED
  BY <1>19, <1>20, <1>21, <1>22, <1>23, <1>24

----------------------------------------------------------------------------
(***************************************************************************)
(* Rescans.                                                                *)
(***************************************************************************)
LEMMA RescanSees ==
  ASSUME Sighting, Clean, owner # None, ConvertNext, Clean', owner' # None, Rescan
  PROVE  Sees'
<1> USE PlacesDiffer, ConversionAssumption DEF Sees
<1>1. Sees
  BY PlainTypes
<1>2. pc = "rescan" /\ pc' \in {"back", "settle"}
  BY DEF Rescan
<1>3. UNCHANGED <<disk, arr, event, journal, owner, check, job, resumed>>
  BY DEF Rescan, library, tables, users, said, others, task
<1>4. (InSight' <=> InSight) /\ (OwnEvent' <=> OwnEvent) /\ (ToRescan' <=> ToRescan)
      /\ (Behind' <=> Behind)
  BY <1>3 DEF Behind, InSight, OwnEvent, HasFile, ToRescan
<1>5. disk \in [Places -> {"ours", "foreign", None}] /\ (arr.at = None \/ arr.at \in Places)
      /\ None \notin Places
      /\ arr.id \in Nat /\ owner.id \in Nat /\ owner.at \in Places
  BY PlainTypes
<1>6. rows \subseteq journal /\ (\A r, q \in journal : r = q) /\ \A r \in journal : RowOf(r)
  BY <1>1, <1>2 DEF Sighting, OneRow, Clean, Worked
<1>7. \A r \in rows : r \in Rows /\ r.owned # "settled" /\ r.state = CONVERTED
      /\ r.to[2] # r.from[2]
      /\ r.to \in Places
  BY <1>2 DEF Sighting, Led, Leads, Shaped, Crossing, Across, ConvertTypeOK, TaskTypes, Rows,
     Unjournaled, RowSteps
<1>8. rows' = rows \/ (pc' = "settle" /\ seen' = arr.id /\ rows' = {Answered(r) : r \in rows})
  BY DEF Rescan
<1>9. pc' = "back" => rows' = rows
  BY DEF Rescan
<1>10. \A r \in rows', q \in journal : r.id = q.id
  BY <1>6, <1>7, <1>8, IdKept
<1>11. pc' = "settle" => seen' = arr.id /\ rows' = {Answered(r) : r \in rows}
  BY DEF Rescan
<1>12. \A r \in journal : Lost(r) => Lost(r)'
  BY <1>2, <1>3, <1>4 DEF Lost, Doomed, HasFile
<1>13. Followed'
  BY <1>1, <1>2, <1>3, <1>4, <1>5, <1>6, <1>7, <1>8, <1>9, <1>10, <1>11, <1>12 DEF Followed
<1>14. LostToRow'
  BY <1>1, <1>2, <1>3, <1>4, <1>5, <1>6, <1>7, <1>8, <1>9, <1>10, <1>11, <1>12 DEF LostToRow
<1>15. (\A x \in Worked : RowOf(x))'
  BY <1>1, <1>2, <1>3, <1>4, <1>5, <1>6, <1>7, <1>8, <1>9, <1>10, <1>11, <1>12 DEF Worked,
     RowOf, Unjournaled, RowSteps
<1>16. Fresh'
  BY <1>1, <1>2, <1>3, <1>4, <1>5, <1>6, <1>7, <1>8, <1>9, <1>10, <1>11, <1>12 DEF Fresh,
     Unjournaled, RowSteps
<1>17. Answer'
  <2>1. SUFFICES ASSUME pc' = "settle", NEW a \in rows', a.owned = "settled"
                 PROVE  /\ seen' = arr.id /\ HasFile /\ arr.id >= owner.id
                        /\ arr.id = owner.id => ~ToRescan
                        /\ Behind
                        /\ event # None /\ event.id = arr.id =>
                             event.to = arr.at /\ event.to[1] > owner.at[1]
    BY <1>3, <1>4, <1>7, <1>9, <1>10, <1>11 DEF Answer, HasFile
  <2>2. PICK r \in rows : a = Answered(r)
    BY <1>11, <2>1
  <2>3. arr.at = r.to /\ r \in journal /\ r.state = CONVERTED /\ r.to[2] # r.from[2]
        /\ r.to \in Places
    <3>1. r \in Rows /\ r \in journal /\ r.owned # "settled" /\ r.state = CONVERTED
          /\ r.to[2] # r.from[2]
          /\ r.to \in Places
      BY <1>6, <1>7
    <3>2. a.owned = IF arr.at = r.to THEN "settled" ELSE r.owned
      BY <2>2, <3>1, AnsweredRow
    <3> QED
      BY <2>1, <3>1, <3>2
  <2>4. CASE InSight
    <3>1. HasFile /\ arr.id = owner.id
      BY <2>4 DEF InSight
    <3>2. ~ToRescan
      BY <1>6, <2>3, <2>4 DEF RowOf
    <3>3. Behind /\ (OwnEvent => event.to = arr.at /\ event.to[1] > owner.at[1])
      BY <1>1, <2>4, <3>2 DEF Followed
    <3> QED
      BY <1>5, <1>11, <2>1, <3>1, <3>2, <3>3 DEF OwnEvent
  <2>5. CASE ~InSight
    <3>1. PICK q \in journal : Lost(q)
      BY <1>1, <2>5 DEF LostToRow
    <3>2. Lost(r)
      BY <1>6, <2>3, <3>1
    <3>3. owner.at = arr.at /\ arr.id >= owner.id
      BY <2>3, <3>2 DEF Lost
    <3>4. HasFile /\ (event # None => event.id # arr.id)
      BY <1>5, <2>3, <3>2 DEF Lost, Doomed, HasFile, MOVED, CONVERTED
    <3>5. Behind
      BY <1>5, <3>3 DEF Behind
    <3>6. arr.id # owner.id
      BY <2>5, <3>4 DEF InSight
    <3> QED
      BY <1>11, <2>1, <3>3, <3>4, <3>5, <3>6
  <2> QED
    BY <2>4, <2>5
<1>18. Listed'
  BY <1>1, <1>2, <1>3, <1>4, <1>5, <1>6, <1>7, <1>8, <1>9, <1>10, <1>11, <1>12 DEF Listed
<1> QED
  BY <1>13, <1>14, <1>15, <1>16, <1>17, <1>18

LEMMA SettleSees ==
  ASSUME Sighting, Clean, owner # None, ConvertNext, Clean', owner' # None, Settle
  PROVE  Sees'
<1> USE PlacesDiffer, ConversionAssumption DEF Sees
<1>1. Sees
  BY PlainTypes
<1>2. pc = "settle" /\ pc' = "back"
  BY DEF Settle, Goes
<1>3. UNCHANGED <<disk, arr, event, journal, check, job, rows, cur, resumed>>
  BY DEF Settle, Goes, InTables, library, tables, users, said, others, task
<1>4. disk \in [Places -> {"ours", "foreign", None}] /\ (arr.at = None \/ arr.at \in Places)
      /\ None \notin Places
      /\ arr.id \in Nat /\ owner.id \in Nat /\ owner.at \in Places /\ owner.pending \in BOOLEAN
  BY PlainTypes
<1>5. \A r, q \in journal : r = q
  BY <1>1, <1>2 DEF Sighting, OneRow, Clean, Worked
<1>6. (\E r \in rows : r.owned = "settled") \/ owner' = owner
  BY DEF Settle
<1>7. \A r \in rows : r \in Rows /\ r.state = CONVERTED /\ Stored(r)
  BY <1>2 DEF Sighting, Shaped, OneRow, Clean, ConvertTypeOK, TaskTypes, Unjournaled, RowSteps
<1>8. \A r \in journal : RowOf(r)
  BY <1>1 DEF Worked
<1>9. seen \in Nat
  BY <1>2 DEF Sighting, Shaped
<1>10. CASE owner' = owner
  <2>1. (InSight' <=> InSight) /\ (OwnEvent' <=> OwnEvent) /\ (ToRescan' <=> ToRescan)
        /\ (Behind' <=> Behind)
        /\ (HasFile' <=> HasFile)
    BY <1>3, <1>10 DEF Behind, InSight, OwnEvent, HasFile, ToRescan
  <2>2. Followed'
    BY <1>1, <1>3, <1>10, <2>1 DEF Followed
  <2>3. LostToRow'
    BY <1>1, <1>2, <1>3, <1>10, <2>1 DEF LostToRow, Lost, Doomed
  <2>4. (\A r \in Worked : RowOf(r))'
    BY <1>1, <1>2, <1>3, <1>10, <2>1 DEF Worked, RowOf, Unjournaled
  <2>5. Fresh'
    BY <1>2 DEF Fresh, Unjournaled, RowSteps
  <2>6. Answer'
    <3>1. (\E r \in rows : r.owned = "settled") => ~owner'.pending
      BY <1>4 DEF Settle
    <3> QED
      BY <1>1, <1>2, <1>3, <3>1 DEF Answer, ToRescan
  <2>7. Listed'
    BY <1>1, <1>2, <1>3, <1>10, <2>1 DEF Listed
  <2> QED
    BY <2>2, <2>3, <2>4, <2>5, <2>6, <2>7
<1>11. CASE \E r \in rows : r.owned = "settled"
  <2>1. owner'.at = owner.at /\ owner'.id = seen /\ ~owner'.pending
    <3>1. owner' = [owner EXCEPT !.id = seen, !.pending = FALSE]
      BY <1>11 DEF Settle
    <3> QED
      BY <3>1, PlainTypes
  <2>2. /\ seen = arr.id /\ HasFile /\ seen >= owner.id
        /\ seen = owner.id => ~ToRescan
        /\ Behind
        /\ event # None /\ event.id = seen => event.to = arr.at /\ event.to[1] > owner.at[1]
        /\ \A r \in rows, q \in journal : r.id = q.id
    BY <1>1, <1>2, <1>11 DEF Answer
  <2>3. InSight' /\ ~ToRescan' /\ Behind' /\ HasFile'
    BY <1>3, <2>1, <2>2 DEF InSight, HasFile, ToRescan, Behind
  <2>4. OwnEvent' => event # None /\ event.id = seen
    BY <1>3, <2>1 DEF OwnEvent
  <2>5. \A q \in journal : q.state = CONVERTED
    BY <1>5, <1>7, <1>11 DEF Stored
  <2>6. seen = owner.id => InSight /\ ~ToRescan
    BY <2>2 DEF InSight
  <2>7. Followed'
    BY <1>3, <2>1, <2>2, <2>3, <2>4 DEF Followed
  <2>8. LostToRow'
    BY <2>3 DEF LostToRow
  <2>9. ASSUME NEW q \in journal PROVE RowOf(q)'
    <3>1. q.id \in Nat /\ q.id <= owner.id /\ (q.owned = "rescanned" \/ pc = "list")
      BY <1>8, <2>9 DEF RowOf
    <3>2. q.id <= seen /\ q.state = CONVERTED
      BY <1>4, <1>9, <2>2, <2>5, <3>1
    <3>3. q.id = seen => q.from[2] = arr.at[2] /\ q.from[1] <= arr.at[1]
      <4>1. SUFFICES ASSUME q.id = seen PROVE q.from[2] = arr.at[2] /\ q.from[1] <= arr.at[1]
        OBVIOUS
      <4>2. seen = owner.id
        BY <1>4, <1>9, <2>2, <3>1, <4>1
      <4> QED
        BY <1>8, <2>6, <2>9, <4>1, <4>2 DEF RowOf
    <3> QED
      BY <1>2, <1>3, <2>1, <2>3, <3>1, <3>2, <3>3 DEF RowOf, CONVERTED
  <2>10. (\A r \in Worked : RowOf(r))'
    BY <1>2, <1>3, <2>9 DEF Worked, Unjournaled
  <2>11. Fresh'
    BY <1>2 DEF Fresh, Unjournaled, RowSteps
  <2>12. Answer'
    BY <1>2, <1>3, <2>2, <2>3 DEF Answer
  <2>13. Listed'
    <3>1. check.at \in {"library", "judge"} /\ check.owner # None =>
            check.owner.id \in Nat /\ check.owner.id <= owner.id
      BY <1>1 DEF Listed, Sighting, ConvertTypeOK, OtherTypes, Owned
    <3>2. check.at \in {"library", "judge"} /\ check.owner # None /\ check.owner.id = seen =>
            seen = owner.id
      BY <1>4, <1>9, <2>2, <3>1
    <3>3. check.at \in {"library", "judge"} /\ check.owner # None => check.owner.id <= seen
      BY <1>4, <1>9, <2>2, <3>1
    <3> QED
      BY <1>1, <1>2, <1>3, <2>1, <2>3, <2>6, <3>2, <3>3 DEF Listed
  <2> QED
    BY <2>7, <2>8, <2>10, <2>11, <2>12, <2>13
<1> QED
  BY <1>6, <1>10, <1>11

LEMMA WriteBackSees ==
  ASSUME Sighting, Clean, owner # None, ConvertNext, Clean', owner' # None, NEW r \in rows,
         WriteBack(r)
  PROVE  Sees'
<1> USE PlacesDiffer, ConversionAssumption DEF Sees
<1>1. Sees
  BY PlainTypes
<1>2. pc = "back" /\ pc' = "back" /\ rows' = rows \ {r}
  BY DEF WriteBack
<1>3. UNCHANGED <<disk, arr, event, owner, check, job, cur, resumed>>
  BY DEF WriteBack, InTables, library, tables, users, said, others, task
<1>4. (InSight' <=> InSight) /\ (OwnEvent' <=> OwnEvent) /\ (ToRescan' <=> ToRescan)
      /\ (Behind' <=> Behind)
  BY <1>3 DEF Behind, InSight, OwnEvent, HasFile, ToRescan
<1>5. rows' = {}
  BY <1>2 DEF Sighting, OneRow, Clean
<1>6. PICK q : q \in journal /\ q.from = r.from /\ q.to = r.to /\ q.state = r.state
      /\ r.owned \in {q.owned, "settled"}
  BY <1>2 DEF Sighting, OneRow, Clean, Stored
<1>7. journal = {q} /\ RowOf(q) /\ r.state = CONVERTED /\ r.id = q.id
  BY <1>1, <1>2, <1>6 DEF Sighting, OneRow, Clean, Shaped, Worked, Answer
<1>8. q.owned = "rescanned"
  BY <1>2, <1>7 DEF RowOf
<1>9. journal' = IF r.owned = "rescanned" THEN {r} ELSE {}
  BY <1>6, <1>7, NoOthers DEF WriteBack, Kept, Put
<1>10. r.owned = "settled" => ~ToRescan
  BY <1>1, <1>2 DEF Answer
<1>11. HasFile' <=> HasFile
  BY <1>3 DEF HasFile
<1>12. ~InSight => Lost(q) /\ r.owned = "rescanned"
  BY <1>1, <1>6, <1>7, <1>8, <1>10 DEF LostToRow
<1>13. Lost(q) /\ r.owned = "rescanned" => Lost(r)'
  BY <1>2, <1>3, <1>6, <1>7, <1>11 DEF Lost, Doomed
<1>14. Followed'
  BY <1>1, <1>2, <1>3, <1>4, <1>5, <1>6, <1>7, <1>8, <1>9, <1>10, <1>11, <1>12, <1>13 DEF
     Followed, INTENT, CONVERTED
<1>15. LostToRow'
  BY <1>1, <1>2, <1>3, <1>4, <1>5, <1>6, <1>7, <1>8, <1>9, <1>10, <1>11, <1>12, <1>13 DEF
     LostToRow
<1>16. (\A x \in Worked : RowOf(x))'
  BY <1>1, <1>2, <1>3, <1>4, <1>5, <1>6, <1>7, <1>8, <1>9, <1>10, <1>11, <1>12, <1>13 DEF
     Worked, RowOf, Unjournaled, RowSteps, CONVERTED
<1>17. Fresh'
  BY <1>1, <1>2, <1>3, <1>4, <1>5, <1>6, <1>7, <1>8, <1>9, <1>10, <1>11, <1>12, <1>13 DEF Fresh,
     Unjournaled, RowSteps
<1>18. Answer'
  BY <1>1, <1>2, <1>3, <1>4, <1>5, <1>6, <1>7, <1>8, <1>9, <1>10, <1>11, <1>12, <1>13 DEF Answer
<1>19. Listed'
  BY <1>1, <1>2, <1>3, <1>4, <1>5, <1>6, <1>7, <1>8, <1>9, <1>10, <1>11, <1>12, <1>13 DEF Listed
<1> QED
  BY <1>14, <1>15, <1>16, <1>17, <1>18, <1>19

----------------------------------------------------------------------------
(***************************************************************************)
(* The Arr, its deliveries and the reconciliation.                         *)
(***************************************************************************)
\* Rows lead from a name to its other form.
LEMMA WorkedRows ==
  ASSUME Sighting
  PROVE  \A r \in Worked : /\ r \in Rows /\ r.from \in Places /\ r.to \in Places
                           /\ r.to[1] = r.from[1] /\ r.to[2] # r.from[2] /\ r.from # r.to
<1>1. \A r \in Worked : r \in Rows /\ Across(r)
  BY DEF Sighting, Worked, ConvertTypeOK, TableTypes, Shaped, Crossing
<1> QED
  BY <1>1 DEF Rows, Across

\* The reconciliation finds the owner that it read listed, under the id it has.
LEMMA JudgedKept ==
  ASSUME Sighting, Clean, owner # None, Judges
  PROVE  owner' = owner /\ item' = item
<1>1. check.at = "judge" /\ Sees
  BY PlainTypes DEF Judges
<1>2. check.owner \in Owned
  BY DEF Sighting, ConvertTypeOK, OtherTypes
<1> DEFINE o == check.owner
           same == o # None /\ owner # None /\ owner.at = o.at /\ owner.id = o.id
<1>3. same => check.arr.at # None /\ check.arr.id = owner.id
  <2>1. SUFFICES ASSUME same PROVE check.arr.at # None /\ check.arr.id = owner.id
    OBVIOUS
  <2>2. InSight
    BY <1>1, <2>1 DEF Sees, Listed
  <2> QED
    BY <1>1, <2>1, <2>2 DEF Sees, Listed
<1>4. same => Lists(check.arr, o.at, o.id)
  BY <1>3 DEF Lists
<1>5. item' = item
  BY <1>4, PlainTypes DEF Judges, Sighting, ConvertTypeOK, TableTypes
<1>6. owner' = IF same /\ check.arr.at = o.at THEN [owner EXCEPT !.id = check.arr.id] ELSE owner
  BY <1>4 DEF Judges
<1>7. [owner EXCEPT !.id = owner.id] = owner
  BY PlainTypes
<1> QED
  BY <1>3, <1>5, <1>6, <1>7

LEMMA RenamesSees ==
  ASSUME Sighting, Clean, owner # None, ConvertNext, Clean', owner' # None, Renames
  PROVE  Sees'
<1> USE PlacesDiffer, ConversionAssumption DEF Sees
<1>1. Sees
  BY PlainTypes
<1>2. UNCHANGED <<journal, job, rows, cur, resumed, pc, seen>> /\ UNCHANGED <<owner, check>>
  BY DEF Renames, Aside, library, tables, users, said, others, task
<1>3. disk \in [Places -> {"ours", "foreign", None}] /\ (arr.at = None \/ arr.at \in Places)
      /\ None \notin Places
      /\ arr.id \in Nat /\ owner.id \in Nat /\ owner.at \in Places /\ arr \in Records
  BY PlainTypes
<1>4. arr.at \in Places /\ disk[arr.at] = "ours" /\ HasFile
  BY <1>3 DEF Renames, HasFile
<1>5. PICK to : /\ to = <<arr.at[1] + 1, arr.at[2]>> /\ disk[to] = None
               /\ disk' = [disk EXCEPT ![arr.at] = None, ![to] = "ours"]
               /\ arr' = [arr EXCEPT !.at = to] /\ event' = [id |-> arr.id, to |-> to]
  BY DEF Renames
<1>6. to \in Places /\ to[1] = arr.at[1] + 1 /\ to[2] = arr.at[2] /\ to # arr.at
  <2>1. arr.at[1] \in 1 .. Names /\ arr.at[2] \in Sides /\ arr.at[1] < Names
        /\ arr.at[1] \in Nat
    BY <1>4 DEF Renames
  <2> QED
    BY <1>5, <2>1, ConversionAssumption DEF Places
<1>7. arr'.at = to /\ arr'.id = arr.id /\ event'.id = arr.id /\ event'.to = to
  BY <1>3, <1>5 DEF Records
<1>8. disk'[to] = "ours" /\ disk'[arr.at] = None /\ \A p \in Places : p # to /\ p # arr.at =>
        disk'[p] = disk[p]
  BY <1>3, <1>4, <1>5, <1>6
<1>9. HasFile' /\ (InSight' <=> InSight) /\ (ToRescan' <=> ToRescan)
      /\ (InSight <=> arr.id = owner.id)
  BY <1>2, <1>4, <1>6, <1>7, <1>8 DEF InSight, HasFile, ToRescan
<1>10. OwnEvent' => InSight
  BY <1>2, <1>7, <1>9 DEF OwnEvent
<1>11. Behind => Behind' /\ to[1] > owner.at[1]
  BY <1>2, <1>3, <1>4, <1>6, <1>7 DEF Behind
<1>12. \A r \in Worked : r \in Rows /\ r.from \in Places /\ r.to \in Places
       /\ r.to[1] = r.from[1]
       /\ r.to[2] # r.from[2] /\ r.from # r.to /\ RowOf(r)
  BY <1>1, WorkedRows
<1>13. \A r \in Worked : r.id = owner.id /\ InSight => r.from[1] <= arr.at[1]
       /\ r.to[1] <= arr.at[1] /\ to # r.from
  <2>1. SUFFICES ASSUME NEW r \in Worked, r.id = owner.id, InSight
                 PROVE  r.from[1] <= arr.at[1] /\ r.to[1] <= arr.at[1] /\ to # r.from
    OBVIOUS
  <2>2. r.from[1] <= arr.at[1] /\ r.to[1] = r.from[1]
    BY <1>12, <2>1 DEF RowOf
  <2> QED
    BY <1>4, <1>6, <2>2
<1>14. Worked' = Worked /\ journal \subseteq Worked
  BY <1>2 DEF Worked, Unjournaled
<1>15. Followed'
  <2>1. CASE Behind
    BY <1>2, <1>7, <1>9, <1>10, <1>11, <2>1 DEF Followed
  <2>2. CASE ~Behind /\ InSight
    <3>1. PICK r \in journal : r.state # INTENT /\ owner.at = r.to /\ ToRescan
      BY <1>1, <2>2 DEF Followed
    <3>2. r.id = owner.id
      BY <1>12, <1>14, <3>1 DEF RowOf
    <3>3. owner.at[1] <= arr.at[1] /\ owner.at[1] \in Nat
      BY <1>3, <1>13, <1>14, <2>2, <3>1, <3>2
    <3>4. to[1] > owner.at[1]
      BY <1>4, <1>6, <3>3
    <3> QED
      BY <1>2, <1>7, <1>9, <3>1, <3>4 DEF Followed
  <2> QED
    BY <1>9, <2>1, <2>2 DEF Followed
<1>16. LostToRow'
  <2>1. SUFFICES ASSUME ~InSight'
                 PROVE  ToRescan' /\ ~OwnEvent' /\ pc' # "forget"
                        /\ \E r \in journal' : Lost(r)'
    BY DEF LostToRow
  <2>2. PICK r \in journal : Lost(r)
    BY <1>1, <1>9, <2>1 DEF LostToRow
  <2>3. ToRescan' /\ ~OwnEvent' /\ pc' # "forget" /\ ~InSight
    BY <1>1, <1>2, <1>9, <1>10, <2>1 DEF LostToRow
  <2>4. r.to \in Places /\ r.from \in Places /\ r.to[1] = r.from[1]
    BY <1>12, <1>14
  <2>5. Doomed(r) => Doomed(r)'
    BY <1>2, <1>4, <1>5, <1>6, <1>8, <2>4 DEF Doomed
  <2>6. arr.id # owner.id
    BY <1>9, <2>3
  <2>7. CASE disk[r.to] = "ours" /\ r.to = arr.at
    <3>1. disk'[r.to] # "ours" /\ arr'.at[1] > r.to[1]
      BY <1>4, <1>6, <1>7, <1>8, <2>7
    <3> QED
      BY <1>2, <1>7, <1>9, <2>2, <2>3, <2>6, <3>1 DEF Lost
  <2>8. CASE disk[r.to] = "ours" /\ r.to # arr.at
    <3>1. disk'[r.to] = "ours" /\ arr'.at # r.to
      BY <1>3, <1>5, <1>7, <1>8, <2>4, <2>8
    <3> QED
      BY <1>2, <1>7, <2>2, <2>3, <2>6, <3>1 DEF Lost
  <2>9. CASE disk[r.to] # "ours" /\ ~Doomed(r)
    <3>1. arr.at[1] > r.to[1]
      BY <2>2, <2>9 DEF Lost
    <3>2. to # r.to /\ arr.at # r.to /\ to[1] > r.to[1]
      BY <1>4, <1>6, <2>4, <3>1
    <3>3. disk'[r.to] # "ours"
      BY <1>8, <2>4, <2>9, <3>2
    <3> QED
      BY <1>2, <1>7, <1>9, <2>2, <2>3, <2>6, <3>2, <3>3 DEF Lost
  <2>10. CASE Doomed(r)
    BY <1>2, <1>7, <2>2, <2>3, <2>5, <2>6, <2>10 DEF Lost
  <2> QED
    BY <2>7, <2>8, <2>9, <2>10
<1>17. (\A x \in Worked : RowOf(x))'
  <2>1. SUFFICES ASSUME NEW r \in Worked PROVE RowOf(r)'
    BY <1>14
  <2>2. RowOf(r) /\ r \in Rows
    BY <1>12
  <2>3. r.id = owner.id /\ InSight => r.from[2] = arr'.at[2] /\ r.from[1] <= arr'.at[1]
        /\ to # r.from
    BY <1>4, <1>6, <1>7, <1>12, <1>13, <2>2 DEF RowOf
  <2>4. r.state < CONVERTED => r.id = owner.id
    BY <2>2 DEF RowOf, CONVERTED
  <2> QED
    BY <1>2, <1>7, <1>9, <2>2, <2>3, <2>4 DEF RowOf
<1>18. Fresh'
  <2>1. pc \in {"undo", "return"} /\ ~resumed => to # cur.from
    <3>1. SUFFICES ASSUME pc \in {"undo", "return"}, ~resumed PROVE to # cur.from
      OBVIOUS
    <3>2. cur \in Worked /\ cur.state = MOVED
      BY <3>1, InHand DEF Worked, Unjournaled, RowSteps, Sighting, Shaped
    <3>3. InSight
      BY <1>1, <3>1 DEF Fresh, Unjournaled, RowSteps
    <3>4. cur.id = owner.id
      BY <1>12, <3>2 DEF RowOf, INTENT, WRITTEN, MOVED, CONVERTED
    <3> QED
      BY <1>13, <3>2, <3>3, <3>4
  <2> QED
    BY <1>1, <1>2, <1>7, <1>9, <1>11, <2>1 DEF Fresh
<1>19. Answer'
  BY <1>1, <1>2, <1>7, <1>9, <1>11 DEF Answer
<1>20. Listed'
  BY <1>1, <1>2, <1>6, <1>7, <1>9 DEF Listed
<1> QED
  BY <1>15, <1>16, <1>17, <1>18, <1>19, <1>20

LEMMA DropsSees ==
  ASSUME Sighting, Clean, owner # None, ConvertNext, Clean', owner' # None, Drops
  PROVE  Sees'
<1> USE PlacesDiffer, ConversionAssumption DEF Sees
<1>1. Sees
  BY PlainTypes
<1>2. UNCHANGED <<journal, job, rows, cur, resumed, pc, seen>>
      /\ UNCHANGED <<owner, check, disk, event>>
  BY DEF Drops, Aside, library, tables, users, said, others, task
<1>3. disk \in [Places -> {"ours", "foreign", None}] /\ (arr.at = None \/ arr.at \in Places)
      /\ None \notin Places
      /\ arr.id \in Nat /\ owner.id \in Nat /\ owner.at \in Places /\ arr \in Records
  BY PlainTypes
<1>4. ~HasFile
  BY DEF Drops
<1>5. arr'.at = None /\ arr'.id = arr.id
  BY <1>3 DEF Drops, Records
<1>6. ~InSight /\ ~InSight' /\ ~HasFile'
  BY <1>4, <1>5 DEF InSight, HasFile
<1>7. (ToRescan' <=> ToRescan) /\ (OwnEvent' <=> OwnEvent)
  BY <1>2 DEF ToRescan, OwnEvent
<1>8. \A r \in journal : Lost(r) => Lost(r)'
  BY <1>2, <1>3, <1>4, <1>5, WorkedRows DEF Lost, Doomed, Worked
<1>9. pc # "forget" /\ ~(pc \in (Unjournaled \cup RowSteps) \ {"removed"} /\ ~resumed)
  BY <1>1, <1>6 DEF LostToRow, Fresh
<1>10. Followed'
  BY <1>1, <1>2, <1>3, <1>4, <1>5, <1>6, <1>7, <1>8, <1>9 DEF Followed
<1>11. LostToRow'
  BY <1>1, <1>2, <1>3, <1>4, <1>5, <1>6, <1>7, <1>8, <1>9 DEF LostToRow
<1>12. (\A x \in Worked : RowOf(x))'
  BY <1>1, <1>2, <1>3, <1>4, <1>5, <1>6, <1>7, <1>8, <1>9 DEF Worked, RowOf
<1>13. Fresh'
  BY <1>1, <1>2, <1>3, <1>4, <1>5, <1>6, <1>7, <1>8, <1>9 DEF Fresh, Unjournaled, RowSteps
<1>14. Answer'
  BY <1>1, <1>2, <1>3, <1>4, <1>5, <1>6, <1>7, <1>8, <1>9 DEF Answer
<1>15. Listed'
  BY <1>1, <1>2, <1>3, <1>4, <1>5, <1>6, <1>7, <1>8, <1>9 DEF Listed
<1> QED
  BY <1>10, <1>11, <1>12, <1>13, <1>14, <1>15

LEMMA FindsSees ==
  ASSUME Sighting, Clean, owner # None, ConvertNext, Clean', owner' # None, Finds
  PROVE  Sees'
<1> USE PlacesDiffer, ConversionAssumption DEF Sees
<1>1. Sees
  BY PlainTypes
<1>2. UNCHANGED <<journal, job, rows, cur, resumed, pc, seen>>
      /\ UNCHANGED <<owner, check, disk, event>>
  BY DEF Finds, Aside, library, tables, users, said, others, task
<1>3. disk \in [Places -> {"ours", "foreign", None}] /\ (arr.at = None \/ arr.at \in Places)
      /\ None \notin Places
      /\ arr.id \in Nat /\ owner.id \in Nat /\ owner.at \in Places
  BY PlainTypes
<1>4. event # None => event.id \in Nat /\ event.id <= arr.id
  BY PlainTypes
<1>5. arr.at = None /\ arr'.at \in Places /\ arr'.id = arr.id + 1
  BY DEF Finds
<1>6. ~InSight /\ ~HasFile
  BY <1>5 DEF InSight, HasFile
<1>7. PICK r \in journal : Lost(r)
  BY <1>1, <1>6 DEF LostToRow
<1>8. arr.id >= owner.id /\ owner.id # arr.id + 1
  BY <1>3, <1>7 DEF Lost
<1>9. ~InSight'
  BY <1>2, <1>5, <1>8 DEF InSight
<1>10. (ToRescan' <=> ToRescan) /\ (OwnEvent' <=> OwnEvent)
  BY <1>2 DEF ToRescan, OwnEvent
<1>11. Lost(r)'
  <2>1. arr'.id >= owner.id /\ arr'.id # owner.id /\ (event = None \/ event.id # arr'.id)
    BY <1>3, <1>4, <1>5, <1>8
  <2>2. Doomed(r) => Doomed(r)'
    BY <1>2 DEF Doomed
  <2>3. Doomed(r) \/ disk[r.to] = "ours"
    BY <1>6, <1>7 DEF Lost
  <2> QED
    BY <1>2, <1>7, <2>1, <2>2, <2>3 DEF Lost
<1>12. pc # "forget" /\ ~(pc \in (Unjournaled \cup RowSteps) \ {"removed"} /\ ~resumed)
  BY <1>1, <1>6 DEF LostToRow, Fresh
<1>13. Followed'
  BY <1>1, <1>2, <1>3, <1>4, <1>5, <1>6, <1>7, <1>8, <1>9, <1>10, <1>11, <1>12 DEF Followed
<1>14. LostToRow'
  BY <1>1, <1>2, <1>3, <1>4, <1>5, <1>6, <1>7, <1>8, <1>9, <1>10, <1>11, <1>12 DEF LostToRow
<1>15. (\A x \in Worked : RowOf(x))'
  BY <1>1, <1>2, <1>3, <1>4, <1>5, <1>6, <1>7, <1>8, <1>9, <1>10, <1>11, <1>12 DEF Worked, RowOf
<1>16. Fresh'
  BY <1>1, <1>2, <1>3, <1>4, <1>5, <1>6, <1>7, <1>8, <1>9, <1>10, <1>11, <1>12 DEF Fresh,
     Unjournaled, RowSteps
<1>17. Answer'
  BY <1>1, <1>2, <1>3, <1>4, <1>5, <1>6, <1>7, <1>8, <1>9, <1>10, <1>11, <1>12 DEF Answer
<1>18. Listed'
  BY <1>1, <1>2, <1>3, <1>4, <1>5, <1>6, <1>7, <1>8, <1>9, <1>10, <1>11, <1>12 DEF Listed
<1> QED
  BY <1>13, <1>14, <1>15, <1>16, <1>17, <1>18

LEMMA OccupiesSees ==
  ASSUME Sighting, Clean, owner # None, ConvertNext, Clean', owner' # None, NEW p \in Places,
         Occupies(p)
  PROVE  Sees'
<1> USE PlacesDiffer, ConversionAssumption DEF Sees
<1>1. Sees
  BY PlainTypes
<1>2. UNCHANGED <<journal, job, rows, cur, resumed, pc, seen>>
      /\ UNCHANGED <<owner, check, arr, event>>
  BY DEF Occupies, Aside, library, tables, users, said, others, task
<1>3. disk \in [Places -> {"ours", "foreign", None}] /\ (arr.at = None \/ arr.at \in Places)
      /\ None \notin Places
      /\ arr.id \in Nat /\ owner.id \in Nat /\ owner.at \in Places
  BY PlainTypes
<1>4. disk[p] = None /\ disk' = [disk EXCEPT ![p] = "foreign"]
  BY DEF Occupies
<1>5. \A q \in Places : (disk'[q] = "ours" <=> disk[q] = "ours") /\ (disk[q] = "foreign" =>
        disk'[q] = "foreign")
  BY <1>3, <1>4, ConversionAssumption
<1>6. (InSight' <=> InSight) /\ (OwnEvent' <=> OwnEvent) /\ (ToRescan' <=> ToRescan)
      /\ (Behind' <=> Behind) /\ (HasFile' <=> HasFile)
  <2>1. CASE arr.at = None
    BY <1>2, <2>1 DEF Behind, InSight, OwnEvent, HasFile, ToRescan
  <2>2. CASE arr.at \in Places
    BY <1>2, <1>5, <2>2 DEF Behind, InSight, OwnEvent, HasFile, ToRescan
  <2> QED
    BY <1>3, <2>1, <2>2
<1>7. \A r \in Worked : r.to \in Places /\ r.from \in Places
  BY WorkedRows
<1>8. \A r \in journal : Lost(r) => Lost(r)'
  BY <1>2, <1>5, <1>6, <1>7 DEF Lost, Doomed, Worked
<1>9. Followed'
  BY <1>1, <1>2, <1>3, <1>4, <1>5, <1>6, <1>7, <1>8 DEF Followed
<1>10. LostToRow'
  BY <1>1, <1>2, <1>3, <1>4, <1>5, <1>6, <1>7, <1>8 DEF LostToRow
<1>11. (\A x \in Worked : RowOf(x))'
  BY <1>1, <1>2, <1>3, <1>4, <1>5, <1>6, <1>7, <1>8 DEF Worked, RowOf
<1>12. Fresh'
  BY <1>1, <1>2, <1>3, <1>4, <1>5, <1>6, <1>7, <1>8 DEF Fresh, Unjournaled, RowSteps
<1>13. Answer'
  BY <1>1, <1>2, <1>3, <1>4, <1>5, <1>6, <1>7, <1>8 DEF Answer
<1>14. Listed'
  BY <1>1, <1>2, <1>3, <1>4, <1>5, <1>6, <1>7, <1>8 DEF Listed
<1> QED
  BY <1>9, <1>10, <1>11, <1>12, <1>13, <1>14

LEMMA DeliverSees ==
  ASSUME Sighting, Clean, owner # None, ConvertNext, Clean', owner' # None, Deliver
  PROVE  Sees'
<1> USE PlacesDiffer, ConversionAssumption DEF Sees
<1>1. Sees
  BY PlainTypes
<1>2. UNCHANGED <<journal, job, rows, cur, resumed, pc, seen>>
      /\ UNCHANGED <<disk, check, arr>> /\ event # None /\ event' = None
  BY DEF Deliver, library, tables, users, said, others, task
<1>3. disk \in [Places -> {"ours", "foreign", None}] /\ (arr.at = None \/ arr.at \in Places)
      /\ None \notin Places
      /\ arr.id \in Nat /\ owner.id \in Nat /\ owner.at \in Places /\ event.to \in Places
  BY <1>2, PlainTypes
<1>4. OwnEvent => InSight /\ event.to = arr.at /\ event.to[1] > owner.at[1] /\ arr.at \in Places
  BY <1>1, <1>3 DEF LostToRow, Followed
<1>5. ~OwnEvent => owner' = owner
  BY <1>2 DEF Deliver, OwnEvent
<1>6. OwnEvent => owner'.at = arr.at /\ owner'.id = owner.id /\ owner'.pending = owner.pending
  <2>1. SUFFICES ASSUME OwnEvent PROVE owner' = [owner EXCEPT !.at = event.to]
    BY <1>4, PlainTypes
  <2> QED
    BY <1>3, <2>1 DEF Deliver, OwnEvent
<1>7. owner'.id = owner.id /\ owner'.pending = owner.pending /\ ~OwnEvent'
  BY <1>2, <1>5, <1>6 DEF OwnEvent
<1>8. (InSight' <=> InSight) /\ (HasFile' <=> HasFile) /\ (ToRescan' <=> ToRescan)
  BY <1>2, <1>7 DEF InSight, HasFile, ToRescan
<1>9. (Behind => Behind') /\ (OwnEvent => Behind')
  BY <1>2, <1>4, <1>5, <1>6 DEF Behind
<1>10. Followed'
  BY <1>1, <1>2, <1>3, <1>4, <1>5, <1>6, <1>7, <1>8, <1>9 DEF Followed
<1>11. LostToRow'
  BY <1>1, <1>2, <1>3, <1>4, <1>5, <1>6, <1>7, <1>8, <1>9 DEF LostToRow, Lost, Doomed
<1>12. (\A x \in Worked : RowOf(x))'
  BY <1>1, <1>2, <1>3, <1>4, <1>5, <1>6, <1>7, <1>8, <1>9 DEF Worked, RowOf
<1>13. Fresh'
  BY <1>1, <1>2, <1>3, <1>4, <1>5, <1>6, <1>7, <1>8, <1>9 DEF Fresh, Unjournaled, RowSteps
<1>14. Answer'
  BY <1>1, <1>2, <1>3, <1>4, <1>5, <1>6, <1>7, <1>8, <1>9 DEF Answer, OwnEvent
<1>15. Listed'
  BY <1>1, <1>2, <1>3, <1>4, <1>5, <1>6, <1>7, <1>8, <1>9 DEF Listed
<1> QED
  BY <1>10, <1>11, <1>12, <1>13, <1>14, <1>15

LEMMA LooksSees ==
  ASSUME Sighting, Clean, owner # None, ConvertNext, Clean', owner' # None, Looks
  PROVE  Sees'
<1> USE PlacesDiffer, ConversionAssumption DEF Sees
<1>1. Sees
  BY PlainTypes
<1>2. UNCHANGED <<journal, job, rows, cur, resumed, pc, seen>>
      /\ UNCHANGED <<disk, arr, event, owner>>
  BY DEF Looks, library, tables, users, said, others, task
<1>3. (InSight' <=> InSight) /\ (OwnEvent' <=> OwnEvent) /\ (ToRescan' <=> ToRescan)
      /\ (Behind' <=> Behind)
  BY <1>2 DEF Behind, InSight, OwnEvent, HasFile, ToRescan
<1>4. check'.at = "owners" /\ ~ToRescan
  BY DEF Looks, Off
<1>5. HasFile' <=> HasFile
  BY <1>2 DEF HasFile
<1>6. Followed'
  BY <1>1, <1>2, <1>3, <1>4, <1>5 DEF Followed
<1>7. LostToRow'
  BY <1>1, <1>2, <1>3, <1>4, <1>5 DEF LostToRow, Lost, Doomed
<1>8. (\A x \in Worked : RowOf(x))'
  BY <1>1, <1>2, <1>3, <1>4, <1>5 DEF Worked, RowOf, Unjournaled
<1>9. Fresh'
  BY <1>1, <1>2, <1>3, <1>4, <1>5 DEF Fresh, Unjournaled, RowSteps
<1>10. Answer'
  BY <1>1, <1>2, <1>3, <1>4, <1>5 DEF Answer
<1>11. Listed'
  BY <1>1, <1>2, <1>3, <1>4, <1>5 DEF Listed
<1> QED
  BY <1>6, <1>7, <1>8, <1>9, <1>10, <1>11

LEMMA ReadsSees ==
  ASSUME Sighting, Clean, owner # None, ConvertNext, Clean', owner' # None, Reads
  PROVE  Sees'
<1> USE PlacesDiffer, ConversionAssumption DEF Sees
<1>1. Sees
  BY PlainTypes
<1>2. UNCHANGED <<journal, job, rows, cur, resumed, pc, seen>>
      /\ UNCHANGED <<disk, arr, event, owner>>
  BY DEF Reads, library, tables, users, said, others, task
<1>3. (InSight' <=> InSight) /\ (OwnEvent' <=> OwnEvent) /\ (ToRescan' <=> ToRescan)
      /\ (Behind' <=> Behind)
  BY <1>2 DEF Behind, InSight, OwnEvent, HasFile, ToRescan
<1>4. disk \in [Places -> {"ours", "foreign", None}] /\ (arr.at = None \/ arr.at \in Places)
      /\ None \notin Places
      /\ arr.id \in Nat /\ owner.id \in Nat /\ owner.at \in Places
  BY PlainTypes
<1>5. check \in [at : {"off", "owners", "library", "judge"}, owner : Owned,
                arr : Records \cup {None}]
  BY DEF Sighting, ConvertTypeOK, OtherTypes
<1>6. \/ check.at = "owners" /\ check'.at = "library" /\ check'.owner = owner
      \/ check.at = "library" /\ check'.at = "judge" /\ check'.owner = check.owner
         /\ check'.arr = arr
  BY <1>5 DEF Reads
<1>7. check.at = "owners" => ~ToRescan /\ InSight /\ owner.at[2] = arr.at[2]
  BY <1>1 DEF Listed, LostToRow, Followed, Behind
<1>8. InSight => arr.at # None /\ arr.id = owner.id
  BY <1>4 DEF InSight, HasFile
<1>9. HasFile' <=> HasFile
  BY <1>2 DEF HasFile
<1>10. Followed'
  BY <1>1, <1>2, <1>3, <1>4, <1>5, <1>6, <1>7, <1>8, <1>9 DEF Followed
<1>11. LostToRow'
  BY <1>1, <1>2, <1>3, <1>4, <1>5, <1>6, <1>7, <1>8, <1>9 DEF LostToRow, Lost, Doomed
<1>12. (\A x \in Worked : RowOf(x))'
  BY <1>1, <1>2, <1>3, <1>4, <1>5, <1>6, <1>7, <1>8, <1>9 DEF Worked, RowOf, Unjournaled
<1>13. Fresh'
  BY <1>1, <1>2, <1>3, <1>4, <1>5, <1>6, <1>7, <1>8, <1>9 DEF Fresh, Unjournaled, RowSteps
<1>14. Answer'
  BY <1>1, <1>2, <1>3, <1>4, <1>5, <1>6, <1>7, <1>8, <1>9 DEF Answer
<1>15. Listed'
  BY <1>1, <1>2, <1>3, <1>4, <1>5, <1>6, <1>7, <1>8, <1>9 DEF Listed
<1> QED
  BY <1>10, <1>11, <1>12, <1>13, <1>14, <1>15

LEMMA JudgesSees ==
  ASSUME Sighting, Clean, owner # None, ConvertNext, Clean', owner' # None, Judges
  PROVE  Sees'
<1> USE PlacesDiffer, ConversionAssumption DEF Sees
<1>1. Sees
  BY PlainTypes
<1>2. UNCHANGED <<journal, job, rows, cur, resumed, pc, seen>>
      /\ UNCHANGED <<disk, arr, event>> /\ check.at = "judge" /\ check' = Off
  BY DEF Judges, library, tables, users, said, others, task
<1>3. owner' = owner
  BY <1>1, <1>2, JudgedKept DEF Judges
<1>4. UNCHANGED <<disk, arr, event, owner>>
  BY <1>2, <1>3
<1>5. (InSight' <=> InSight) /\ (OwnEvent' <=> OwnEvent) /\ (ToRescan' <=> ToRescan)
      /\ (Behind' <=> Behind)
  BY <1>4 DEF Behind, InSight, OwnEvent, HasFile, ToRescan
<1>6. HasFile' <=> HasFile
  BY <1>2 DEF HasFile
<1>7. Followed'
  BY <1>1, <1>2, <1>3, <1>4, <1>5, <1>6 DEF Followed
<1>8. LostToRow'
  BY <1>1, <1>2, <1>3, <1>4, <1>5, <1>6 DEF LostToRow, Lost, Doomed
<1>9. (\A x \in Worked : RowOf(x))'
  BY <1>1, <1>2, <1>3, <1>4, <1>5, <1>6 DEF Worked, RowOf, Unjournaled
<1>10. Fresh'
  BY <1>1, <1>2, <1>3, <1>4, <1>5, <1>6 DEF Fresh, Unjournaled, RowSteps
<1>11. Answer'
  BY <1>1, <1>2, <1>3, <1>4, <1>5, <1>6 DEF Answer
<1>12. Listed'
  BY <1>1, <1>2, <1>3, <1>4, <1>5, <1>6 DEF Listed, Off
<1> QED
  BY <1>7, <1>8, <1>9, <1>10, <1>11, <1>12

----------------------------------------------------------------------------
(***************************************************************************)
(* The invariant and what it is for.                                       *)
(***************************************************************************)
\* Rows lead to the other form of their name.
LEMMA CrossingStep ==
  ASSUME ConvertTypeOK, Shaped, OneRow, Crossing, ConvertNext
  PROVE  Crossing'
<1> USE DEF library, tables, users, said, others, task, Crossing, Unjournaled, RowSteps
<1>1. CASE Apart
  <2>1. UNCHANGED journal /\ pc' \notin Unjournaled \cup RowSteps
    BY <1>1, ApartKeeps
  <2>2. \A r \in rows' : Across(r)
    <3>1. CASE SettleFails
      <4>1. rows' = {Unanswered(r) : r \in rows} /\ rows \subseteq Rows
        BY <3>1 DEF SettleFails, ConvertTypeOK, TaskTypes
      <4>2. \A r \in rows : Across(Unanswered(r))
        BY <4>1, UnansweredRow DEF Across
      <4> QED
        BY <4>1, <4>2
    <3>2. CASE Begin(TRUE) \/ Begin(FALSE) \/ Remap
      BY <3>2 DEF Begin, Ends, Unfinished, Remap, Unscanned
    <3>3. CASE Wake \/ ReadRun \/ Walk \/ (\E p \in todo : Keep(p))
      BY <3>3 DEF Wake, ReadRun, Walk, Keep
    <3>4. CASE Stopped \/ BeginFails \/ Waits \/ Rescanned \/ Finish \/ Done \/ Crash
      BY <3>4 DEF Stopped, BeginFails, Waits, EndsWaiting, Rescanned, Finish, Done, Crash, Ends, Goes
    <3> QED
      BY <1>1, <3>1, <3>2, <3>3, <3>4 DEF Apart
  <2> QED
    BY <2>1, <2>2
<1>2. CASE Besides
  BY <1>2, BesidesKeeps
<1>3. ASSUME NEW r \in rows, Resume(r)
      PROVE  Crossing'
  <2>1. UNCHANGED journal
    BY <1>3 DEF Resume
  <2> QED
    BY <1>3, <2>1, ResumeTo
<1>4. ASSUME NEW r \in rows, WriteBack(r)
      PROVE  Crossing'
  <2>1. journal' \subseteq journal \cup {r} /\ rows' \subseteq rows /\ pc' = pc
        /\ cur' = cur /\ pc = "back"
    BY <1>4 DEF WriteBack, Put, OtherRows
  <2> QED
    BY <1>4, <2>1
<1>5. ASSUME NEW p \in todo, Look(p)
      PROVE  Crossing'
  <2>1. p \in Places /\ job.side # p[2] /\ UNCHANGED <<journal, rows>>
    BY <1>5 DEF Look, ConvertTypeOK, TaskTypes
  <2>2. At(p, job.side) = <<p[1], job.side>> /\ cur'.from = p /\ cur'.to = At(p, job.side)
    BY <1>5 DEF Look, At
  <2> QED
    BY <2>1, <2>2 DEF Across
<1>6. CASE List \/ ListForAnother
  <2>1. pc = "list" => cur \in Rows
    BY DEF Shaped
  <2>2. CASE List
    <3>1. cur'.from = cur.from /\ cur'.to = cur.to
      BY <2>1, <2>2 DEF List, Rows
    <3> QED
      BY <2>2, <3>1 DEF List, Across
  <2>3. CASE ListForAnother
    BY <2>3 DEF ListForAnother
  <2> QED
    BY <1>6, <2>2, <2>3
<1>7. CASE Intend \/ Written \/ Moved
  <2>1. PICK n \in INTENT .. CONVERTED, to \in {"write", "owners", "remove"} : Advance(n, to)
    BY <1>7, StateRange DEF Intend, Written, Moved
  <2>2. cur \in Rows /\ Across(cur)
    BY <1>7 DEF Intend, Written, Moved, Shaped
  <2>3. cur'.from = cur.from /\ cur'.to = cur.to /\ journal' \subseteq journal \cup {cur'}
        /\ rows' = rows
    BY <2>1, <2>2, AdvanceRow DEF OtherRows
  <2>4. Across(cur')
    BY <2>2, <2>3 DEF Across
  <2> QED
    BY <2>3, <2>4
<1>8. CASE WriteTarget \/ WriteFails \/ Remove \/ Undo
  BY <1>8 DEF WriteTarget, WriteFails, Remove, Undo, Goes, OnDisk
<1>9. CASE Owners \/ Return \/ Settle
  BY <1>9 DEF Owners, Return, Settle, Goes, InTables
<1>10. CASE Forget \/ RemoveFails
  BY <1>10 DEF Forget, RemoveFails, Onward, OnDisk, OtherRows
<1>11. CASE Removed
  <2>1. cur \in Rows /\ Across(cur)
    BY <1>11 DEF Removed, Shaped
  <2>2. Across(Reached(cur, CONVERTED))
    BY <2>1, ReachedRow, StateRange DEF Across
  <2>3. journal' \subseteq journal \cup {Reached(cur, CONVERTED)}
    BY <1>11 DEF Removed, Put, OtherRows
  <2>4. rows' = rows /\ pc' \in {"resume", "files"}
    BY <1>11 DEF Removed, Onward
  <2> QED
    BY <2>2, <2>3, <2>4
<1>12. CASE Rescan
  <2>1. UNCHANGED journal /\ pc' \in {"back", "settle"} /\ (rows' = rows
        \/ rows' = {Answered(r) : r \in rows})
    BY <1>12 DEF Rescan
  <2>2. \A r \in rows : Across(Answered(r))
    BY AnsweredRow DEF Across, ConvertTypeOK, TaskTypes
  <2> QED
    BY <2>1, <2>2
<1> QED
  BY <1>1, <1>2, <1>3, <1>4, <1>5, <1>6, <1>7, <1>8, <1>9, <1>10, <1>11, <1>12
     DEF ConvertNext, Works, Apart, Besides

\* Events are of files the Arr had.
LEMMA ToldStep ==
  ASSUME ConvertTypeOK, Told, ConvertNext
  PROVE  Told'
<1> USE ConversionAssumption DEF library, tables, users, said, others, task, Told
<1>1. arr \in Records /\ arr.id \in Nat
  BY DEF ConvertTypeOK, LibraryTypes, Records
<1>2. CASE Deletes
  <2>1. arr'.id = arr.id /\ "deleted" \in past' /\ event' = [id |-> arr.id, to |-> None]
    BY <1>1, <1>2 DEF Deletes, Note, Records
  <2> QED
    BY <1>1, <2>1
<1>3. CASE Renames
  <2>1. PICK to \in Places : arr' = [arr EXCEPT !.at = to]
        /\ event' = [id |-> arr.id, to |-> to]
    BY <1>3, RenamesTo
  <2>2. arr'.id = arr.id /\ event'.id = arr.id /\ event'.to # None
    BY <1>1, <2>1 DEF Records
  <2> QED
    BY <1>1, <2>2
<1>4. CASE Drops \/ Finds \/ Deliver
  <2>1. event' = event \/ event' = None
    BY <1>4 DEF Drops, Finds, Deliver
  <2>2. arr'.id \in Nat /\ arr'.id >= arr.id
    BY <1>1, <1>4 DEF Drops, Finds, Deliver, Records
  <2>3. event # None => event.id \in Nat
    BY DEF ConvertTypeOK, LibraryTypes
  <2> QED
    BY <1>1, <2>1, <2>2, <2>3, PastGrows
<1>5. CASE UNCHANGED <<arr, event>>
  BY <1>5, PastGrows
<1>6. CASE ~(Deletes \/ Renames \/ Drops \/ Finds \/ Deliver)
  <2>1. UNCHANGED <<arr, event>>
    <3>1. CASE Besides
      BY <1>6, <3>1 DEF Besides, Confirm, Check, CancelRun, Preview, Serves, Store, Tell, Leaves, Asks,
         Aside, Occupies, Looks, Reads, Judges
    <3>2. CASE Works
      BY <3>2 DEF Works, Wake, ReadRun, Begin, Stopped, Walk, List, ListForAnother, Resume,
         WriteBack, Keep, Look, Intend, Advance, WriteTarget, Forget, Written, Owners, Moved,
         Remove, Removed, Undo, Return, Remap, Rescan, Settle, Rescanned, Finish, Done,
         InTables,
         OnDisk
    <3>3. CASE BeginFails \/ Waits \/ WriteFails \/ RemoveFails \/ SettleFails \/ Crash
      BY <3>3 DEF BeginFails, Waits, WriteFails, RemoveFails, SettleFails, Crash, OnDisk
    <3>4. QED
      BY <3>1, <3>2, <3>3 DEF ConvertNext, Besides
  <2>2. QED
    BY <1>5, <2>1
<1> QED
  BY <1>2, <1>3, <1>4, <1>6

\* Every step keeps the file in sight, or its row.
LEMMA SightedStep ==
  ASSUME Sighting, ConvertNext
  PROVE  Sighted'
<1>1. SUFFICES ASSUME Clean', owner' # None
               PROVE  Sees'
  BY DEF Sighted
<1>2. Clean /\ owner # None /\ ~Deletes
  BY <1>1, CleanBefore
<1>3. CASE Apart \/ Asked
  BY <1>1, <1>2, <1>3, ApartSees, AskedSees
<1>4. CASE Intend \/ Written \/ Moved \/ WriteTarget \/ WriteFails \/ Forget \/ Owners
  BY <1>1, <1>2, <1>4, IntendSees, WrittenSees, MovedSees, WriteSees, ForgetSees, OwnersSees
<1>5. CASE Remove \/ Removed \/ Undo \/ Return \/ RemoveFails
  BY <1>1, <1>2, <1>5, RemoveSees, RemovedSees, UndoSees, ReturnSees, RemoveFailsSees
<1>6. CASE List \/ ListForAnother \/ Rescan \/ Settle
  BY <1>1, <1>2, <1>6, ListSees, ListForAnotherSees, RescanSees, SettleSees
<1>7. CASE (\E r \in rows : Resume(r) \/ WriteBack(r)) \/ (\E p \in todo : Look(p))
  BY <1>1, <1>2, <1>7, ResumeSees, WriteBackSees, LookSees
<1>8. CASE Renames \/ Drops \/ Finds \/ Deliver \/ (\E p \in Places : Occupies(p))
  BY <1>1, <1>2, <1>8, RenamesSees, DropsSees, FindsSees, DeliverSees, OccupiesSees
<1>9. CASE Looks \/ Reads \/ Judges
  BY <1>1, <1>2, <1>9, LooksSees, ReadsSees, JudgesSees
<1> QED
  BY <1>2, <1>3, <1>4, <1>5, <1>6, <1>7, <1>8, <1>9 DEF ConvertNext, Works, Apart, Asked

\* The inductive invariant for ItemKept.
SightInv == ConvertInv /\ Told /\ Crossing /\ Sighted

LEMMA SightInit == ConvertInit => SightInv
<1> SUFFICES ASSUME ConvertInit
             PROVE  SightInv
  OBVIOUS
<1> USE DEF ConvertInit
<1>1. ConvertInv
  BY ConvertInitInv
<1>2. Told /\ Crossing
  BY DEF Told, Crossing, Unjournaled, RowSteps
<1>3. <<1, want>> \in Places
  BY ConversionAssumption DEF Places, Sides
<1>4. InSight /\ Behind /\ ~OwnEvent
  <2>1. arr.at = <<1, want>> /\ arr.id = 1 /\ owner.at = <<1, want>> /\ owner.id = 1
        /\ event = None
    OBVIOUS
  <2>2. arr.at # None /\ disk[arr.at] = "ours"
    BY <1>3, <2>1, ConversionAssumption
  <2>3. owner.at[1] <= arr.at[1] /\ owner.at[2] = arr.at[2]
    BY <2>1
  <2> QED
    BY <2>1, <2>2, <2>3 DEF InSight, HasFile, Behind, OwnEvent
<1>5. Followed /\ LostToRow
  BY <1>4 DEF Followed, LostToRow
<1>6. Worked = {}
  BY DEF Worked, Unjournaled
<1>7. Fresh /\ Answer /\ Listed
  BY DEF Fresh, Answer, Listed, Unjournaled, RowSteps, Resting, Off
<1> QED
  BY <1>1, <1>2, <1>5, <1>6, <1>7 DEF SightInv, Sighted, Sees

LEMMA SightStutter ==
  ASSUME Told, Crossing, Sighted, UNCHANGED convertVars
  PROVE  Told' /\ Crossing' /\ Sighted'
<1> USE DEF convertVars, library, tables, users, said, others, task
<1>1. Told' /\ Crossing'
  BY DEF Told, Crossing
<1>2. UNCHANGED <<disk, arr, event, journal, owner, check, past>>
      /\ UNCHANGED <<pc, job, rows, cur, resumed, seen>>
  OBVIOUS
<1>3. (HasFile' <=> HasFile) /\ (InSight' <=> InSight) /\ (OwnEvent' <=> OwnEvent)
      /\ (ToRescan' <=> ToRescan) /\ (Behind' <=> Behind) /\ (Clean' <=> Clean)
  BY <1>2 DEF HasFile, InSight, OwnEvent, ToRescan, Behind, Clean
<1>4. SUFFICES ASSUME Sees
               PROVE  Sees'
  BY <1>1, <1>2, <1>3 DEF Sighted
<1>5. Followed' /\ Fresh' /\ Answer' /\ Listed'
  BY <1>2, <1>3, <1>4 DEF Sees, Followed, Fresh, Answer, Listed
<1>6. LostToRow'
  BY <1>2, <1>3, <1>4 DEF Sees, LostToRow, Lost, Doomed
<1>7. (\A r \in Worked : RowOf(r))'
  BY <1>2, <1>3, <1>4 DEF Sees, Worked, RowOf
<1> QED
  BY <1>5, <1>6, <1>7 DEF Sees

LEMMA SightInvariance == ConvertSpec => []SightInv
<1>1. ConvertInit => SightInv
  BY SightInit
<1>2. SightInv /\ [ConvertNext]_convertVars => SightInv'
  <2>1. CASE UNCHANGED convertVars
    BY <2>1, ConvertStutter, SightStutter DEF SightInv
  <2>2. CASE SightInv /\ ConvertNext
    <3>1. ConvertTypeOK /\ Shaped /\ Led /\ OneRow /\ Remembered /\ Doubled /\ RunStands /\ Calm
      BY <2>2 DEF SightInv, ConvertInv
    <3>2. Sighting
      BY <2>2, <3>1 DEF SightInv, Sighting
    <3>3. ConvertInv'
      BY <2>2, <3>1, ConvertTypeStep, ShapedStep, LedStep, OneRowStep, RememberedStep,
         DoubledStep, RunStandsStep, CalmHolds DEF ConvertInv
    <3>4. Told' /\ Crossing' /\ Sighted'
      BY <2>2, <3>1, <3>2, ToldStep, CrossingStep, SightedStep DEF Sighting
    <3> QED
      BY <3>3, <3>4 DEF SightInv
  <2> QED
    BY <2>1, <2>2
<1> QED
  BY <1>1, <1>2, PTL DEF ConvertSpec

\* No step deletes the item of a file that the Arr still has.
LEMMA ItemStays ==
  ASSUME Sighting, ConvertNext, item, ~item'
  PROVE  ~Clean'
<1>1. SUFFICES ASSUME Clean'
               PROVE  FALSE
  OBVIOUS
<1>2. Clean
  BY <1>1, PastGrows DEF Clean
<1> USE DEF library, tables, users, said, others, task
<1>3. CASE Deliver
  BY <1>2, <1>3 DEF Deliver, Sighting, Told, Clean
<1>4. CASE Judges
  <2>1. owner # None
    BY <1>4 DEF Judges
  <2> QED
    BY <1>2, <1>4, <2>1, JudgedKept
<1>5. CASE Works
  BY <1>5 DEF Works, Wake, ReadRun, Begin, Stopped, Walk, List, ListForAnother, Resume,
     WriteBack, Keep, Look, Intend, Advance, WriteTarget, Forget, Written, Owners, Moved, Remove, Removed,
     Undo, Return, Remap, Rescan, Settle, Rescanned, Finish, Done, InTables, OnDisk
<1>6. CASE BeginFails \/ Waits \/ WriteFails \/ RemoveFails \/ SettleFails \/ Crash
  BY <1>6 DEF BeginFails, Waits, WriteFails, RemoveFails, SettleFails, Crash, OnDisk
<1>7. CASE Confirm \/ Check \/ CancelRun \/ Preview \/ Serves \/ (\E c \in calls : Leaves(c)) \/ Looks \/ Reads
  BY <1>7 DEF Confirm, Check, CancelRun, Preview, Serves, Store, Tell, Leaves, Asks, Looks, Reads
<1>8. CASE Deletes \/ Renames \/ Drops \/ Finds \/ (\E p \in Places : Occupies(p))
  BY <1>8 DEF Deletes, Renames, Drops, Finds, Occupies, Aside
<1> QED
  BY <1>3, <1>4, <1>5, <1>6, <1>7, <1>8 DEF ConvertNext

\* While the Arr does not see the file, neither its deliveries nor the reconciliation delete the
\* item for that (reconcile.rs:210-218, webhook.rs:321-328), but for what ItemKept names.
THEOREM ItemIsKept == ConvertSpec => ItemKept
<1>1. SightInv /\ [ConvertNext]_convertVars =>
        [item /\ ~item' =>
           past' \cap {"deleted", "slipped", "stray", "again", "undone"} # {}]_convertVars
  <2>1. SightInv => Sighting
    BY DEF SightInv, ConvertInv, Sighting
  <2> QED
    BY <2>1, ItemStays DEF Clean
<1> QED
  BY <1>1, SightInvariance, PTL DEF ConvertSpec, ItemKept
=============================================================================
