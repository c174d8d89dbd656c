---------------------------- MODULE HandoffProofs ----------------------------
(***************************************************************************)
(* Proofs about Handoff, for any number of publishes, folder names and     *)
(* mishaps.  The invariant says what its parts rely on: that the gate is   *)
(* with the thread that works and with no other, that a publish only ever  *)
(* touches its own name, which no item has yet, and that a thread knows    *)
(* which of the files at its paths it has still to remove.                 *)
(***************************************************************************)
EXTENDS Handoff, TLAPS

\* Publishes whose thread writes or removes files, or whose caller has still to
\* decide about what is written.
Active(n) == work[n] \in {"write", "undo"} \/ (n = latest /\ at \in {"written",
   "discarding"})

\* A thread works exactly while it holds the gate, and a publish that got its answer
\* left the gate open.
Gated ==
    /\ \A n \in Numbers : work[n] # "none" <=> gate = n
    /\ at = "looking" => work[latest] = "look"
    /\ at = "writing" => work[latest] \in {"write", "undo"}
    /\ at \in {"named", "written", "discarding"} => gate \notin Numbers
    /\ at = "naming" => gate # latest

\* Publishes to come, and the one that has not written or not completed yet.
Unwritten(n) == n > latest \/ (n = latest /\ at \in {"naming", "looking", "named"})
Unfinished(n) ==
    n > latest \/ (n = latest /\ at \in {"naming", "looking", "named", "writing",
       "written"})

\* They have no files, and nothing of theirs is stored.
Unused ==
    /\ \A n \in Numbers : n > latest => gate # n
    /\ \A n \in Numbers : Unwritten(n) => done[n] = {} /\ \A p \in Paths : disk[p] # n
    /\ \A n \in Numbers : Unfinished(n) =>
         /\ n \notin history
         /\ \A p \in Paths : rows[p] # n /\ <<p, n>> \notin seen
         /\ \A h \in hand : h.row # n
         /\ \A f \in Names : tree[f] # n

\* No item has the name a publish works on, unless its commit was unsure; and a look
\* that found the name free was right.
Named ==
    /\ at \in {"looking", "named", "writing", "written"} => tree[name[latest]] = Nobody
    /\ at = "discarding" =>
         tree[name[latest]] = Nobody \/ (tree[name[latest]] = latest /\ latest \in spoiled)
    /\ \A n \in Numbers : work[n] \in {"write", "undo"} => tree[name[n]] = Nobody
    /\ at = "named" /\ latest \notin blind => name[latest] \notin dirs

\* Files are under the name of their publish, in a folder that is there; and while a
\* publish is active nobody else has files at its paths.
Placed ==
    /\ \A p \in Paths : disk[p] # Nobody => p[1] = name[disk[p]] /\ p[1] \in dirs
    /\ \A n \in Numbers : Active(n) => \A k \in Kinds :
         n \notin blind \/ k \in done[n] => disk[Path(n, k)] \in {Nobody, n}

\* A publish knows which files it wrote, and which it has still to remove.
Known ==
    \A n \in Numbers : \A p \in Paths : disk[p] = n =>
        /\ work[n] = "write" \/ (n = latest /\ at = "written") => p[2] \in done[n]
        /\ work[n] = "undo" \/ (n = latest /\ at = "discarding") =>
             p[2] \in todo[n] \/ n \in lost

\* What it wrote is there until it completes.
Whole ==
    at = "written" \/ (at = "writing" /\ work[latest] = "write") =>
        \A k \in done[latest] : disk[Path(latest, k)] = latest \/ latest \in spoiled

\* The rows a sweep read are of jobs that nothing makes current again.
SeenStale ==
    /\ \A s \in seen : tree[s[1][1]] # s[2] \/ s[2] \notin history
    /\ \A h \in hand : tree[h.path[1]] # h.row \/ h.row \notin history

\* The sweep removes what it found to be the row's, but for subtitles.
HandOurs == \A h \in hand : Outdated(h)

Inv ==
    /\ TypeOK /\ Gated /\ Unused /\ Named /\ Placed /\ Known /\ Whole /\ SeenStale
    /\ HandOurs /\ NothingLeftBehind /\ KeptForTheArr

----------------------------------------------------------------------------
LEMMA Nums ==
    /\ Nobody \notin Numbers /\ Probe \notin Numbers /\ Probe # Nobody
    /\ \A n \in Numbers : n \in Nat /\ n # Nobody
BY HandoffAssumption DEF Nobody, Numbers, Probe

LEMMA PathsAre ==
    /\ \A p \in Paths : p = <<p[1], p[2]>> /\ p[1] \in Names /\ p[2] \in Kinds
    /\ \A f \in Names, k \in Kinds : <<f, k>> \in Paths
    /\ \A p, q \in Paths : p[1] = q[1] /\ p[2] = q[2] => p = q
BY DEF Paths

LEMMA PathIs ==
    ASSUME TypeOK, NEW n \in Numbers, NEW k \in Kinds
    PROVE  Path(n, k) \in Paths /\ Path(n, k)[1] = name[n] /\ Path(n, k)[2] = k
BY PathsAre DEF Path, TypeOK

LEMMA HandIs ==
    ASSUME TypeOK, NEW h \in hand
    PROVE  h.path \in Paths /\ h.row \in Numbers /\ h.found \in Numbers
BY DEF TypeOK

\* `remove` takes one file, and its folder only when that is empty.
LEMMA Removed ==
    ASSUME TypeOK, NEW p \in Paths, Remove(p)
    PROVE  /\ disk' = [disk EXCEPT ![p] = Nobody]
           /\ disk' \in [Paths -> {Nobody} \cup Numbers]
           /\ dirs' \subseteq dirs /\ dirs' \subseteq Names
           /\ \A q \in Paths : disk'[q] = IF q = p THEN Nobody ELSE disk[q]
           /\ \A q \in Paths : disk'[q] # Nobody /\ q[1] \in dirs => q[1] \in dirs'
<1>1. /\ disk' = [disk EXCEPT ![p] = Nobody]
      /\ disk' \in [Paths -> {Nobody} \cup Numbers]
      /\ \A q \in Paths : disk'[q] = IF q = p THEN Nobody ELSE disk[q]
  BY DEF Remove, TypeOK
<1>2. dirs' \subseteq dirs /\ dirs' \subseteq Names
  BY DEF Remove, TypeOK
<1>3. ASSUME NEW q \in Paths, disk'[q] # Nobody, q[1] \in dirs PROVE q[1] \in dirs'
  <2>1. CASE q[1] = p[1]
    <3>1. q = <<p[1], q[2]>> /\ q[2] \in Kinds
      BY <2>1, PathsAre
    <3> QED
      BY <1>3, <3>1 DEF Remove
  <2>2. CASE q[1] # p[1]
    BY <1>3, <2>2 DEF Remove
  <2> QED
    BY <2>1, <2>2
<1> QED
  BY <1>1, <1>2, <1>3

LEMMA InitInv == Init => Inv
BY HandoffAssumption, PathsAre DEF Init, Inv, TypeOK, Gated, Unused, Unwritten,
   Unfinished, Named,
   Placed, Active, Known, Whole, SeenStale, HandOurs, NothingLeftBehind, KeptForTheArr, Names,
      Numbers,
   Nobody, Probe

----------------------------------------------------------------------------
(* Every step keeps each part.                                             *)

\* Types.
LEMMA TypeStep ==
    ASSUME Inv, Next
    PROVE  TypeOK'
<1> USE HandoffAssumption, Nums, PathsAre DEF Inv, vars, files, db, publish, thread,
   sweeper, ghosts, TypeOK
<1>1. CASE Look \/ Refused \/ GiveUp \/ StartProbe \/ EndProbe \/ ForgetFails
  BY <1>1 DEF Look, Refused, GiveUp, StartProbe, EndProbe, ForgetFails, Mishap
<1>2. ASSUME NEW n \in Numbers, Finished(n) \/ DeleteHistory(n)
      PROVE  TypeOK'
  BY <1>2 DEF Finished, DeleteHistory, Ends, Waited
<1>3. ASSUME NEW f \in Names, DeleteItems(f)
      PROVE  TypeOK'
  BY <1>3 DEF DeleteItems
<1>4. CASE Begin
  BY <1>4, HandoffAssumption DEF Begin, Numbers
<1>5. CASE PassName
  <2>1. latest \in Numbers /\ name[latest] \in Names
    BY <1>5 DEF PassName
  <2>2. name[latest] < Folders => name[latest] + 1 \in Names
    BY <2>1, HandoffAssumption DEF Names
  <2> QED
    BY <1>5, <2>1, <2>2 DEF NextName, PassName
<1>6. CASE Looked
  <2>1. latest \in Numbers /\ name[latest] \in Names
    BY <1>6 DEF Looked
  <2>2. name[latest] < Folders => name[latest] + 1 \in Names
    BY <2>1, HandoffAssumption DEF Names
  <2> QED
    BY <1>6, <2>1, <2>2 DEF NextName, Looked, Ends
<1>7. CASE LookFails
  BY <1>7 DEF LookFails, Ends, Mishap
<1>8. CASE StartWrite
  BY <1>8 DEF StartWrite, Kinds
<1>9. ASSUME NEW n \in Numbers, NEW k \in Kinds, WriteFile(n, k)
      PROVE  TypeOK'
  BY <1>9 DEF WriteFile, Path
<1>10. ASSUME NEW n \in Numbers, NEW k \in Kinds, WriteFails(n, k)
      PROVE  TypeOK'
  BY <1>10 DEF WriteFails, Path, Mishap
<1>11. ASSUME NEW n \in Numbers, Written(n)
      PROVE  TypeOK'
  BY <1>11 DEF Written, Ends, Waited
<1>12. ASSUME NEW n \in Numbers, NEW k \in Kinds, Undo(n, k)
      PROVE  TypeOK'
  BY <1>12, Removed, PathIs DEF Undo, Mishap
<1>13. CASE Finish
  BY <1>13 DEF Finish, Stored
<1>14. CASE NotFinished
  BY <1>14 DEF NotFinished, ToDiscard
<1>15. CASE FinishUnsure
  BY <1>15 DEF FinishUnsure, Stored, ToDiscard, Mishap
<1>16. CASE Discard
  <2>1. /\ latest \in Numbers /\ at = "discarding" /\ todo[latest] \subseteq Kinds
        /\ UNCHANGED <<latest, name, gate, work, done, rows, tree, history, sweep, seen,
                       checked, hand, blind, spoiled, taken>>
    BY <1>16 DEF Discard
  <2>2. CASE todo[latest] = {}
    BY <1>16, <2>2 DEF Discard
  <2>3. CASE todo[latest] # {}
    <3>1. PICK k \in todo[latest] :
            /\ todo' = [todo EXCEPT ![latest] = todo[latest] \ {k}]
            /\ \/ Remove(Path(latest, k)) /\ UNCHANGED <<mishaps, lost>>
               \/ Mishap /\ lost' = lost \cup {latest} /\ UNCHANGED files
            /\ UNCHANGED at
      BY <1>16, <2>3 DEF Discard
    <3>2. CASE Remove(Path(latest, k)) /\ UNCHANGED <<mishaps, lost>>
      BY <2>1, <3>1, <3>2, Removed, PathIs
    <3>3. CASE Mishap /\ lost' = lost \cup {latest} /\ UNCHANGED files
      BY <2>1, <3>1, <3>3 DEF Mishap
    <3> QED
      BY <3>1, <3>2, <3>3
  <2> QED
    BY <2>2, <2>3
<1>17. ASSUME NEW p \in Paths, Collect(p)
      PROVE  TypeOK'
  BY <1>17, Removed, PathIs DEF Collect
<1>18. CASE StartSweep
  BY <1>18 DEF StartSweep, Stale
<1>19. ASSUME NEW s \in seen, SweepLook(s[1], s[2])
      PROVE  TypeOK'
  BY <1>19, PathsAre DEF SweepLook, Ours, Mishap
<1>20. CASE Forget
  BY <1>20 DEF Forget
<1>21. CASE Crash
  BY <1>21 DEF Crash, Mishap
<1>22. ASSUME NEW h \in hand, SweepRemove(h)
      PROVE  TypeOK'
  BY <1>22, Removed, HandIs DEF SweepRemove, Outdated, HandOurs, Mishap
<1> QED
  BY <1>1, <1>2, <1>3, <1>4, <1>5, <1>6, <1>7, <1>8, <1>9, <1>10, <1>11, <1>12, <1>13,
     <1>14, <1>15, <1>16, <1>17, <1>18, <1>19, <1>20, <1>21, <1>22 DEF Next, Threads, Publisher,
     Others

\* Whoever works holds the gate, and ends with it.
LEMMA GatedStep ==
    ASSUME Inv, Next
    PROVE  Gated'
<1> USE Nums DEF Inv, vars, files, db, publish, thread, sweeper, ghosts, TypeOK, Gated
<1>1. CASE Refused \/ StartProbe \/ EndProbe \/ Finish \/ NotFinished \/ FinishUnsure \/
           StartSweep \/ Forget \/ ForgetFails
  BY <1>1 DEF Refused, StartProbe, EndProbe, Finish, NotFinished, FinishUnsure,
     StartSweep, Forget, ForgetFails, Mishap, Stale, Stored, ToDiscard
<1>2. ASSUME NEW n \in Numbers, DeleteHistory(n)
      PROVE  Gated'
  BY <1>2 DEF DeleteHistory
<1>3. ASSUME NEW p \in Paths, Collect(p)
      PROVE  Gated'
  BY <1>3 DEF Collect
<1>4. ASSUME NEW f \in Names, DeleteItems(f)
      PROVE  Gated'
  BY <1>4 DEF DeleteItems
<1>5. ASSUME NEW n \in Numbers, NEW k \in Kinds, WriteFile(n, k) \/ WriteFails(n, k) \/
             Undo(n, k)
      PROVE  Gated'
  BY <1>5 DEF WriteFile, WriteFails, Undo, Mishap, Path
<1>6. ASSUME NEW s \in seen, SweepLook(s[1], s[2])
      PROVE  Gated'
  BY <1>6, PathsAre DEF SweepLook, Ours, Mishap
<1>7. CASE Begin
  BY <1>7, HandoffAssumption DEF Begin, Numbers, Unused
<1>8. CASE PassName
  BY <1>8 DEF PassName, NextName
<1>9. CASE Look
  BY <1>9 DEF Look
<1>10. CASE Looked
  BY <1>10 DEF Looked, NextName, Ends
<1>11. CASE LookFails
  BY <1>11 DEF LookFails, Ends, Mishap
<1>12. CASE StartWrite
  BY <1>12 DEF StartWrite
<1>13. CASE GiveUp
  BY <1>13 DEF GiveUp
<1>14. ASSUME NEW n \in Numbers, Written(n)
      PROVE  Gated'
  BY <1>14 DEF Written, Ends, Waited
<1>15. ASSUME NEW n \in Numbers, Finished(n)
      PROVE  Gated'
  BY <1>15 DEF Finished, Ends, Waited
<1>16. CASE Discard
  BY <1>16, Removed, PathIs DEF Discard, Mishap
<1>17. CASE Crash
  BY <1>17 DEF Crash, Mishap
<1>18. ASSUME NEW h \in hand, SweepRemove(h)
      PROVE  Gated'
  BY <1>18, Removed, HandIs DEF SweepRemove, Outdated, HandOurs, Mishap
<1> QED
  BY <1>1, <1>2, <1>3, <1>4, <1>5, <1>6, <1>7, <1>8, <1>9, <1>10, <1>11, <1>12, <1>13,
     <1>14, <1>15, <1>16, <1>17, <1>18 DEF Next, Threads, Publisher, Others

\* Numbers are taken in turn, and a job is stored once.
LEMMA UnusedStep ==
    ASSUME Inv, Next
    PROVE  Unused'
<1> USE Nums DEF Inv, vars, files, db, publish, thread, sweeper, ghosts, TypeOK, Gated,
   Unused, Unwritten, Unfinished
<1>1. CASE Look \/ LookFails \/ StartWrite \/ Refused \/ GiveUp \/ StartProbe \/ EndProbe
           \/ NotFinished \/ ForgetFails
  BY <1>1 DEF Look, LookFails, StartWrite, Refused, GiveUp, StartProbe, EndProbe,
     NotFinished, ForgetFails, Ends, Mishap, ToDiscard
<1>2. ASSUME NEW n \in Numbers, Finished(n) \/ DeleteHistory(n)
      PROVE  Unused'
  BY <1>2 DEF Finished, DeleteHistory, Ends, Waited
<1>3. ASSUME NEW f \in Names, DeleteItems(f)
      PROVE  Unused'
  BY <1>3 DEF DeleteItems
<1>4. CASE Begin
  BY <1>4 DEF Begin
<1>5. CASE PassName
  BY <1>5 DEF PassName, NextName
<1>6. CASE Looked
  BY <1>6 DEF Looked, NextName, Ends
<1>7. ASSUME NEW n \in Numbers, NEW k \in Kinds, WriteFile(n, k)
      PROVE  Unused'
  BY <1>7 DEF WriteFile, Path
<1>8. ASSUME NEW n \in Numbers, NEW k \in Kinds, WriteFails(n, k)
      PROVE  Unused'
  BY <1>8 DEF WriteFails, Path, Mishap
<1>9. ASSUME NEW n \in Numbers, Written(n)
      PROVE  Unused'
  BY <1>9 DEF Written, Ends, Waited
<1>10. ASSUME NEW n \in Numbers, NEW k \in Kinds, Undo(n, k)
      PROVE  Unused'
  BY <1>10, Removed, PathIs DEF Undo, Mishap
<1>11. CASE Finish
  BY <1>11 DEF Finish, Stored
<1>12. CASE FinishUnsure
  BY <1>12 DEF FinishUnsure, Stored, ToDiscard, Mishap
<1>13. CASE Discard
  BY <1>13, Removed, PathIs DEF Discard, Mishap
<1>14. ASSUME NEW p \in Paths, Collect(p)
      PROVE  Unused'
  BY <1>14, Removed, PathIs DEF Collect
<1>15. CASE StartSweep
  <2>1. ASSUME NEW n \in Numbers, NEW p \in Paths, <<p, n>> \in seen' PROVE rows[p] = n
    <3>1. PICK q \in Paths : <<p, n>> = <<q, rows[q]>>
      BY <1>15, <2>1 DEF StartSweep
    <3> QED
      BY <3>1
  <2> QED
    BY <1>15, <2>1 DEF StartSweep
<1>16. ASSUME NEW s \in seen, SweepLook(s[1], s[2])
      PROVE  Unused'
  BY <1>16, PathsAre DEF SweepLook, Ours, Mishap
<1>17. CASE Forget
  BY <1>17 DEF Forget
<1>18. CASE Crash
  BY <1>18 DEF Crash, Mishap
<1>19. ASSUME NEW h \in hand, SweepRemove(h)
      PROVE  Unused'
  BY <1>19, Removed, HandIs DEF SweepRemove, Outdated, HandOurs, Mishap
<1> QED
  BY <1>1, <1>2, <1>3, <1>4, <1>5, <1>6, <1>7, <1>8, <1>9, <1>10, <1>11, <1>12, <1>13,
     <1>14, <1>15, <1>16, <1>17, <1>18, <1>19 DEF Next, Threads, Publisher, Others

\* Only the publish that completes gives its name to an item.
LEMMA NamedStep ==
    ASSUME Inv, Next
    PROVE  Named'
<1> USE Nums DEF Inv, vars, files, db, publish, thread, sweeper, ghosts, TypeOK, Gated,
   Unused, Unwritten, Unfinished, Named
<1>1. CASE StartWrite \/ Refused \/ GiveUp \/ StartProbe \/ EndProbe \/ StartSweep \/
           Forget \/ ForgetFails
  BY <1>1 DEF StartWrite, Refused, GiveUp, StartProbe, EndProbe, StartSweep, Forget,
     ForgetFails, Mishap, Stale
<1>2. ASSUME NEW n \in Numbers, Finished(n) \/ DeleteHistory(n)
      PROVE  Named'
  BY <1>2 DEF Finished, DeleteHistory, Ends, Waited
<1>3. ASSUME NEW f \in Names, DeleteItems(f)
      PROVE  Named'
  BY <1>3 DEF DeleteItems
<1>4. CASE Begin
  BY <1>4 DEF Begin
<1>5. CASE PassName
  BY <1>5 DEF PassName, NextName
<1>6. CASE Look
  BY <1>6 DEF Look
<1>7. CASE Looked
  BY <1>7 DEF Looked, NextName, Ends
<1>8. CASE LookFails
  BY <1>8 DEF LookFails, Ends, Mishap
<1>9. ASSUME NEW n \in Numbers, NEW k \in Kinds, WriteFile(n, k)
      PROVE  Named'
  BY <1>9 DEF WriteFile, Path
<1>10. ASSUME NEW n \in Numbers, NEW k \in Kinds, WriteFails(n, k)
      PROVE  Named'
  BY <1>10 DEF WriteFails, Path, Mishap
<1>11. ASSUME NEW n \in Numbers, Written(n)
      PROVE  Named'
  BY <1>11 DEF Written, Ends, Waited
<1>12. ASSUME NEW n \in Numbers, NEW k \in Kinds, Undo(n, k)
      PROVE  Named'
  BY <1>12, Removed, PathIs DEF Undo, Mishap
<1>13. CASE Finish
  BY <1>13 DEF Finish, Stored
<1>14. CASE NotFinished
  BY <1>14 DEF NotFinished, ToDiscard
<1>15. CASE FinishUnsure
  BY <1>15 DEF FinishUnsure, Stored, ToDiscard, Mishap
<1>16. CASE Discard
  BY <1>16, Removed, PathIs DEF Discard, Mishap
<1>17. ASSUME NEW p \in Paths, Collect(p)
      PROVE  Named'
  BY <1>17, Removed, PathIs DEF Collect
<1>18. ASSUME NEW s \in seen, SweepLook(s[1], s[2])
      PROVE  Named'
  BY <1>18, PathsAre DEF SweepLook, Ours, Mishap
<1>19. CASE Crash
  BY <1>19 DEF Crash, Mishap
<1>20. ASSUME NEW h \in hand, SweepRemove(h)
      PROVE  Named'
  BY <1>20, Removed, HandIs DEF SweepRemove, Outdated, HandOurs, Mishap
<1> QED
  BY <1>1, <1>2, <1>3, <1>4, <1>5, <1>6, <1>7, <1>8, <1>9, <1>10, <1>11, <1>12, <1>13,
     <1>14, <1>15, <1>16, <1>17, <1>18, <1>19, <1>20 DEF Next, Threads, Publisher, Others

\* Only the holder of the gate writes files, and below its own name.
LEMMA PlacedStep ==
    ASSUME Inv, Next
    PROVE  Placed'
<1> USE Nums, PathsAre DEF Inv, vars, files, db, publish, thread, sweeper, ghosts, TypeOK,
   Gated, Unused, Unwritten, Unfinished, Named, Placed, Active, Path
<1>1. CASE Look \/ Refused \/ GiveUp \/ StartProbe \/ EndProbe \/ StartSweep \/ Forget \/
           ForgetFails
  BY <1>1 DEF Look, Refused, GiveUp, StartProbe, EndProbe, StartSweep, Forget,
     ForgetFails, Mishap, Stale
<1>2. ASSUME NEW n \in Numbers, Finished(n) \/ DeleteHistory(n)
      PROVE  Placed'
  BY <1>2 DEF Finished, DeleteHistory, Ends, Waited
<1>3. ASSUME NEW f \in Names, DeleteItems(f)
      PROVE  Placed'
  BY <1>3 DEF DeleteItems
<1>4. CASE Begin
  BY <1>4 DEF Begin
<1>5. CASE PassName
  BY <1>5 DEF PassName, NextName
<1>6. CASE Looked
  BY <1>6 DEF Looked, NextName, Ends
<1>7. CASE LookFails
  BY <1>7 DEF LookFails, Ends, Mishap
<1>8. CASE StartWrite
  BY <1>8 DEF StartWrite
<1>9. ASSUME NEW n \in Numbers, NEW k \in Kinds, WriteFile(n, k)
      PROVE  Placed'
  BY <1>9 DEF WriteFile, Path
<1>10. ASSUME NEW n \in Numbers, NEW k \in Kinds, WriteFails(n, k)
      PROVE  Placed'
  BY <1>10 DEF WriteFails, Path, Mishap
<1>11. ASSUME NEW n \in Numbers, Written(n)
      PROVE  Placed'
  BY <1>11 DEF Written, Ends, Waited
<1>12. ASSUME NEW n \in Numbers, NEW k \in Kinds, Undo(n, k)
      PROVE  Placed'
  BY <1>12, Removed, PathIs DEF Undo, Mishap
<1>13. CASE Finish
  BY <1>13 DEF Finish, Stored
<1>14. CASE NotFinished
  BY <1>14 DEF NotFinished, ToDiscard
<1>15. CASE FinishUnsure
  BY <1>15 DEF FinishUnsure, Stored, ToDiscard, Mishap
<1>16. CASE Discard
  <2>1. /\ latest \in Numbers /\ at = "discarding" /\ todo[latest] \subseteq Kinds
        /\ UNCHANGED <<latest, name, gate, work, done, rows, tree, history, sweep, seen,
                       checked, hand, blind, spoiled, taken>>
    BY <1>16 DEF Discard
  <2>2. CASE todo[latest] = {}
    BY <1>16, <2>2 DEF Discard
  <2>3. CASE todo[latest] # {}
    <3>1. PICK k \in todo[latest] :
            /\ todo' = [todo EXCEPT ![latest] = todo[latest] \ {k}]
            /\ \/ Remove(Path(latest, k)) /\ UNCHANGED <<mishaps, lost>>
               \/ Mishap /\ lost' = lost \cup {latest} /\ UNCHANGED files
            /\ UNCHANGED at
      BY <1>16, <2>3 DEF Discard
    <3>2. CASE Remove(Path(latest, k)) /\ UNCHANGED <<mishaps, lost>>
      BY <2>1, <3>1, <3>2, Removed, PathIs
    <3>3. CASE Mishap /\ lost' = lost \cup {latest} /\ UNCHANGED files
      BY <2>1, <3>1, <3>3 DEF Mishap
    <3> QED
      BY <3>1, <3>2, <3>3
  <2> QED
    BY <2>2, <2>3
<1>17. ASSUME NEW p \in Paths, Collect(p)
      PROVE  Placed'
  BY <1>17, Removed, PathIs DEF Collect
<1>18. ASSUME NEW s \in seen, SweepLook(s[1], s[2])
      PROVE  Placed'
  BY <1>18, PathsAre DEF SweepLook, Ours, Mishap
<1>19. CASE Crash
  BY <1>19 DEF Crash, Mishap
<1>20. ASSUME NEW h \in hand, SweepRemove(h)
      PROVE  Placed'
  BY <1>20, Removed, HandIs DEF SweepRemove, Outdated, HandOurs, Mishap
<1> QED
  BY <1>1, <1>2, <1>3, <1>4, <1>5, <1>6, <1>7, <1>8, <1>9, <1>10, <1>11, <1>12, <1>13,
     <1>14, <1>15, <1>16, <1>17, <1>18, <1>19, <1>20 DEF Next, Threads, Publisher, Others

\* What is written is noted, and what is removed struck off.
LEMMA KnownStep ==
    ASSUME Inv, Next
    PROVE  Known'
<1> USE Nums, PathsAre DEF Inv, vars, files, db, publish, thread, sweeper, ghosts, TypeOK,
   Gated, Unused, Unwritten, Unfinished, Placed, Active, Known
<1>1. CASE Look \/ Refused \/ GiveUp \/ StartProbe \/ EndProbe \/ StartSweep \/ Forget \/
           ForgetFails
  BY <1>1 DEF Look, Refused, GiveUp, StartProbe, EndProbe, StartSweep, Forget,
     ForgetFails, Mishap, Stale
<1>2. ASSUME NEW n \in Numbers, Finished(n) \/ DeleteHistory(n)
      PROVE  Known'
  BY <1>2 DEF Finished, DeleteHistory, Ends, Waited
<1>3. ASSUME NEW f \in Names, DeleteItems(f)
      PROVE  Known'
  BY <1>3 DEF DeleteItems
<1>4. CASE Begin
  BY <1>4 DEF Begin
<1>5. CASE PassName
  BY <1>5 DEF PassName, NextName
<1>6. CASE Looked
  BY <1>6 DEF Looked, NextName, Ends
<1>7. CASE LookFails
  BY <1>7 DEF LookFails, Ends, Mishap
<1>8. CASE StartWrite
  BY <1>8 DEF StartWrite
<1>9. ASSUME NEW n \in Numbers, NEW k \in Kinds, WriteFile(n, k)
      PROVE  Known'
  BY <1>9 DEF WriteFile, Path
<1>10. ASSUME NEW n \in Numbers, NEW k \in Kinds, WriteFails(n, k)
      PROVE  Known'
  BY <1>10 DEF WriteFails, Path, Mishap
<1>11. ASSUME NEW n \in Numbers, Written(n)
      PROVE  Known'
  BY <1>11 DEF Written, Ends, Waited
<1>12. ASSUME NEW n \in Numbers, NEW k \in Kinds, Undo(n, k)
      PROVE  Known'
  BY <1>12, Removed, PathIs DEF Undo, Mishap
<1>13. CASE Finish
  BY <1>13 DEF Finish, Stored
<1>14. CASE NotFinished
  BY <1>14 DEF NotFinished, ToDiscard
<1>15. CASE FinishUnsure
  BY <1>15 DEF FinishUnsure, Stored, ToDiscard, Mishap
<1>16. CASE Discard
  BY <1>16, Removed, PathIs DEF Discard, Mishap
<1>17. ASSUME NEW p \in Paths, Collect(p)
      PROVE  Known'
  BY <1>17, Removed, PathIs DEF Collect
<1>18. ASSUME NEW s \in seen, SweepLook(s[1], s[2])
      PROVE  Known'
  BY <1>18, PathsAre DEF SweepLook, Ours, Mishap
<1>19. CASE Crash
  BY <1>19 DEF Crash, Mishap
<1>20. ASSUME NEW h \in hand, SweepRemove(h)
      PROVE  Known'
  BY <1>20, Removed, HandIs DEF SweepRemove, Outdated, HandOurs, Mishap
<1> QED
  BY <1>1, <1>2, <1>3, <1>4, <1>5, <1>6, <1>7, <1>8, <1>9, <1>10, <1>11, <1>12, <1>13,
     <1>14, <1>15, <1>16, <1>17, <1>18, <1>19, <1>20 DEF Next, Threads, Publisher, Others

\* Before it completes, only a sweep may take a file of its away.
LEMMA WholeStep ==
    ASSUME Inv, Next
    PROVE  Whole'
<1> USE Nums, PathsAre DEF Inv, vars, files, db, publish, thread, sweeper, ghosts, TypeOK,
   Gated, Unused, Unwritten, Unfinished, Placed, Active, Whole, Path
<1>1. CASE Look \/ Refused \/ GiveUp \/ StartProbe \/ EndProbe \/ NotFinished \/
           FinishUnsure \/ StartSweep \/ Forget \/ ForgetFails
  BY <1>1 DEF Look, Refused, GiveUp, StartProbe, EndProbe, NotFinished, FinishUnsure,
     StartSweep, Forget, ForgetFails, Mishap, Stale, Stored, ToDiscard
<1>2. ASSUME NEW n \in Numbers, Finished(n) \/ DeleteHistory(n)
      PROVE  Whole'
  BY <1>2 DEF Finished, DeleteHistory, Ends, Waited
<1>3. ASSUME NEW f \in Names, DeleteItems(f)
      PROVE  Whole'
  BY <1>3 DEF DeleteItems
<1>4. CASE Begin
  BY <1>4 DEF Begin
<1>5. CASE PassName
  BY <1>5 DEF PassName, NextName
<1>6. CASE Looked
  BY <1>6 DEF Looked, NextName, Ends
<1>7. CASE LookFails
  BY <1>7 DEF LookFails, Ends, Mishap
<1>8. CASE StartWrite
  BY <1>8 DEF StartWrite
<1>9. ASSUME NEW n \in Numbers, NEW k \in Kinds, WriteFile(n, k)
      PROVE  Whole'
  BY <1>9 DEF WriteFile, Path
<1>10. ASSUME NEW n \in Numbers, NEW k \in Kinds, WriteFails(n, k)
      PROVE  Whole'
  BY <1>10 DEF WriteFails, Path, Mishap
<1>11. ASSUME NEW n \in Numbers, Written(n)
      PROVE  Whole'
  BY <1>11 DEF Written, Ends, Waited
<1>12. ASSUME NEW n \in Numbers, NEW k \in Kinds, Undo(n, k)
      PROVE  Whole'
  BY <1>12, Removed, PathIs DEF Undo, Mishap
<1>13. CASE Finish
  BY <1>13 DEF Finish, Stored
<1>14. CASE Discard
  BY <1>14, Removed, PathIs DEF Discard, Mishap
<1>15. ASSUME NEW p \in Paths, Collect(p)
      PROVE  Whole'
  BY <1>15, Removed, PathIs DEF Collect
<1>16. ASSUME NEW s \in seen, SweepLook(s[1], s[2])
      PROVE  Whole'
  BY <1>16, PathsAre DEF SweepLook, Ours, Mishap
<1>17. CASE Crash
  BY <1>17 DEF Crash, Mishap
<1>18. ASSUME NEW h \in hand, SweepRemove(h)
      PROVE  Whole'
  BY <1>18, Removed, HandIs DEF SweepRemove, Outdated, HandOurs, Mishap
<1> QED
  BY <1>1, <1>2, <1>3, <1>4, <1>5, <1>6, <1>7, <1>8, <1>9, <1>10, <1>11, <1>12, <1>13,
     <1>14, <1>15, <1>16, <1>17, <1>18 DEF Next, Threads, Publisher, Others

\* Only the publish under way stores anything, and no sweep has read a row of its.
LEMMA SeenStep ==
    ASSUME Inv, Next
    PROVE  SeenStale'
<1> USE Nums, PathsAre DEF Inv, vars, files, db, publish, thread, sweeper, ghosts, TypeOK,
   Unused, Unfinished, SeenStale
<1>1. CASE Begin \/ PassName \/ Look \/ Looked \/ LookFails \/ StartWrite \/ Refused \/
           GiveUp \/ StartProbe \/ EndProbe \/ NotFinished \/ Discard \/ Forget \/
           ForgetFails \/ Crash
  BY <1>1 DEF Begin, PassName, Look, Looked, LookFails, StartWrite, Refused, GiveUp,
     StartProbe, EndProbe, NotFinished, Discard, Forget, ForgetFails, Crash, Ends, Mishap,
     NextName, Path, ToDiscard
<1>2. ASSUME NEW n \in Numbers, Written(n) \/ Finished(n) \/ DeleteHistory(n)
      PROVE  SeenStale'
  BY <1>2 DEF Written, Finished, DeleteHistory, Ends, Waited
<1>3. ASSUME NEW p \in Paths, Collect(p)
      PROVE  SeenStale'
  BY <1>3 DEF Collect
<1>4. ASSUME NEW n \in Numbers, NEW k \in Kinds, WriteFile(n, k) \/ WriteFails(n, k) \/
             Undo(n, k)
      PROVE  SeenStale'
  BY <1>4 DEF WriteFile, WriteFails, Undo, Mishap, Path
<1>5. CASE Finish
  BY <1>5 DEF Finish, Stored
<1>6. CASE FinishUnsure
  BY <1>6 DEF FinishUnsure, Stored, ToDiscard, Mishap
<1>7. CASE StartSweep
  BY <1>7 DEF StartSweep, Stale
<1>8. ASSUME NEW s \in seen, SweepLook(s[1], s[2])
      PROVE  SeenStale'
  BY <1>8, PathsAre DEF SweepLook, Ours, Mishap
<1>9. ASSUME NEW f \in Names, DeleteItems(f)
      PROVE  SeenStale'
  BY <1>9 DEF DeleteItems
<1>10. ASSUME NEW h \in hand, SweepRemove(h)
      PROVE  SeenStale'
  BY <1>10, Removed, HandIs DEF SweepRemove, Outdated, HandOurs, Mishap
<1> QED
  BY <1>1, <1>2, <1>3, <1>4, <1>5, <1>6, <1>7, <1>8, <1>9, <1>10 DEF Next, Threads, Publisher,
     Others

\* Only a look puts a file into the sweep's hand.
LEMMA HandStep ==
    ASSUME Inv, Next
    PROVE  HandOurs'
<1> USE DEF HandOurs, Outdated, sweeper
<1>1. ASSUME UNCHANGED hand PROVE HandOurs'
  BY <1>1 DEF Inv
<1>2. CASE Crash
  BY <1>2 DEF Crash
<1>3. ASSUME NEW s \in seen, SweepLook(s[1], s[2])
      PROVE  HandOurs'
  BY <1>3 DEF Inv, SweepLook, Ours
<1>4. ASSUME NEW h \in hand, SweepRemove(h)
      PROVE  HandOurs'
  BY <1>4 DEF SweepRemove
<1>5. CASE Threads
  BY <1>1, <1>5 DEF Threads, Looked, EndProbe, WriteFile, WriteFails, Undo, Written, Finished
<1>6. CASE Publisher
  BY <1>1, <1>6 DEF Publisher, PassName, Look, StartWrite, Refused, GiveUp, Finish,
     NotFinished, FinishUnsure, Discard
<1>7. CASE Begin \/ LookFails \/ StartProbe \/ StartSweep \/ Forget \/ ForgetFails
  BY <1>1, <1>7 DEF Begin, LookFails, StartProbe, StartSweep, Forget, ForgetFails
<1>8. ASSUME NEW p \in Paths, Collect(p)
      PROVE  HandOurs'
  BY <1>1, <1>8 DEF Collect
<1>9. ASSUME NEW n \in Numbers, DeleteHistory(n)
      PROVE  HandOurs'
  BY <1>1, <1>9 DEF DeleteHistory
<1>10. ASSUME NEW f \in Names, DeleteItems(f)
      PROVE  HandOurs'
  BY <1>1, <1>10 DEF DeleteItems
<1> QED
  BY <1>2, <1>3, <1>4, <1>5, <1>6, <1>7, <1>8, <1>9, <1>10 DEF Next, Others

\* Whoever ends has removed its files, named them in a row, or lost track of them.
LEMMA LeftStep ==
    ASSUME Inv, Next
    PROVE  NothingLeftBehind'
<1> USE Nums, PathsAre DEF Inv, vars, files, db, publish, thread, sweeper, ghosts, TypeOK,
   Gated, Unused, Unwritten, Unfinished, Placed, Active, Known, Whole, NothingLeftBehind
<1>1. CASE PassName \/ Look \/ Looked \/ LookFails \/ StartWrite \/ Refused \/ GiveUp \/
           StartProbe \/ EndProbe \/ StartSweep \/ ForgetFails
  BY <1>1 DEF PassName, Look, Looked, LookFails, StartWrite, Refused, GiveUp, StartProbe,
     EndProbe, StartSweep, ForgetFails, Ends, Mishap, NextName, Stale
<1>2. ASSUME NEW n \in Numbers, DeleteHistory(n)
      PROVE  NothingLeftBehind'
  BY <1>2 DEF DeleteHistory
<1>3. ASSUME NEW f \in Names, DeleteItems(f)
      PROVE  NothingLeftBehind'
  BY <1>3 DEF DeleteItems
<1>4. CASE Begin
  BY <1>4 DEF Begin
<1>5. ASSUME NEW n \in Numbers, Written(n)
      PROVE  NothingLeftBehind'
  BY <1>5 DEF Written, Ends, Waited
<1>6. ASSUME NEW n \in Numbers, NEW k \in Kinds, WriteFile(n, k)
      PROVE  NothingLeftBehind'
  BY <1>6 DEF WriteFile, Path
<1>7. ASSUME NEW n \in Numbers, NEW k \in Kinds, WriteFails(n, k)
      PROVE  NothingLeftBehind'
  BY <1>7 DEF WriteFails, Path, Mishap
<1>8. ASSUME NEW n \in Numbers, NEW k \in Kinds, Undo(n, k)
      PROVE  NothingLeftBehind'
  BY <1>8, Removed, PathIs DEF Undo, Mishap
<1>9. ASSUME NEW n \in Numbers, Finished(n)
      PROVE  NothingLeftBehind'
  BY <1>9 DEF Finished, Ends, Waited
<1>10. CASE Finish
  <2>1. latest \in Numbers /\ at = "written"
    BY <1>10 DEF Finish
  <2>2. ASSUME NEW p \in Paths, p[1] = name[latest], p[2] \in done[latest]
        PROVE  disk[p] \in {Nobody, latest} /\ rows'[p] = latest
    <3>1. p = Path(latest, p[2]) /\ p[2] \in Kinds
      BY <2>2, PathsAre DEF Path
    <3>2. disk[Path(latest, p[2])] \in {Nobody, latest}
      BY <2>1, <2>2, <3>1 DEF Inv, Placed, Active
    <3> QED
      BY <1>10, <2>2, <3>1, <3>2 DEF Finish, Stored
  <2>3. ASSUME NEW p \in Paths, ~(p[1] = name[latest] /\ p[2] \in done[latest])
        PROVE  disk[p] # latest /\ rows'[p] = rows[p]
    BY <1>10, <2>1, <2>3 DEF Finish, Stored
  <2>4. UNCHANGED <<disk, work, latest, lost>>
    BY <1>10 DEF Finish
  <2> QED
    BY <2>1, <2>2, <2>3, <2>4
<1>11. CASE NotFinished
  BY <1>11 DEF NotFinished, ToDiscard
<1>12. CASE FinishUnsure
  <2>1. latest \in Numbers /\ at = "written"
    BY <1>12 DEF FinishUnsure
  <2>2. ASSUME NEW p \in Paths, p[1] = name[latest], p[2] \in done[latest]
        PROVE  disk[p] \in {Nobody, latest} /\ rows'[p] = latest
    <3>1. p = Path(latest, p[2]) /\ p[2] \in Kinds
      BY <2>2, PathsAre DEF Path
    <3>2. disk[Path(latest, p[2])] \in {Nobody, latest}
      BY <2>1, <2>2, <3>1 DEF Inv, Placed, Active
    <3> QED
      BY <1>12, <2>2, <3>1, <3>2 DEF FinishUnsure, Stored
  <2>3. ASSUME NEW p \in Paths, ~(p[1] = name[latest] /\ p[2] \in done[latest])
        PROVE  disk[p] # latest /\ rows'[p] = rows[p]
    BY <1>12, <2>1, <2>3 DEF FinishUnsure, Stored
  <2>4. UNCHANGED <<disk, work, latest, lost>>
    BY <1>12 DEF FinishUnsure, ToDiscard
  <2> QED
    BY <2>1, <2>2, <2>3, <2>4
<1>13. CASE Discard
  BY <1>13, Removed, PathIs DEF Discard, Mishap
<1>14. ASSUME NEW p \in Paths, Collect(p)
      PROVE  NothingLeftBehind'
  BY <1>14, Removed, PathIs DEF Collect
<1>15. ASSUME NEW s \in seen, SweepLook(s[1], s[2])
      PROVE  NothingLeftBehind'
  BY <1>15, PathsAre DEF SweepLook, Ours, Mishap
<1>16. CASE Forget
  BY <1>16 DEF Forget
<1>17. CASE Crash
  BY <1>17 DEF Crash, Mishap
<1>18. ASSUME NEW h \in hand, SweepRemove(h)
      PROVE  NothingLeftBehind'
  BY <1>18, Removed, HandIs DEF SweepRemove, Outdated, HandOurs, Mishap
<1> QED
  BY <1>1, <1>2, <1>3, <1>4, <1>5, <1>6, <1>7, <1>8, <1>9, <1>10, <1>11, <1>12, <1>13,
     <1>14, <1>15, <1>16, <1>17, <1>18 DEF Next, Threads, Publisher, Others

\* A file that goes is taken, or its job is not current.
LEMMA KeptStep ==
    ASSUME Inv, Next
    PROVE  KeptForTheArr'
<1> USE Nums, PathsAre DEF Inv, vars, files, db, publish, thread, sweeper, ghosts, TypeOK,
   Gated, Unused, Unwritten, Unfinished, Named, Placed, Active, Whole, SeenStale,
   KeptForTheArr
<1>1. CASE Begin \/ PassName \/ Look \/ Looked \/ LookFails \/ StartWrite \/ Refused \/
           GiveUp \/ StartProbe \/ EndProbe \/ NotFinished \/ StartSweep \/ ForgetFails \/
           Crash
  BY <1>1 DEF Begin, PassName, Look, Looked, LookFails, StartWrite, Refused, GiveUp,
     StartProbe, EndProbe, NotFinished, StartSweep, ForgetFails, Crash, Ends, Mishap,
     NextName, Stale, ToDiscard
<1>2. ASSUME NEW n \in Numbers, Written(n) \/ Finished(n)
      PROVE  KeptForTheArr'
  BY <1>2 DEF Written, Finished, Ends, Waited
<1>3. ASSUME NEW n \in Numbers, NEW k \in Kinds, WriteFile(n, k)
      PROVE  KeptForTheArr'
  BY <1>3 DEF WriteFile, Path
<1>4. ASSUME NEW n \in Numbers, NEW k \in Kinds, WriteFails(n, k)
      PROVE  KeptForTheArr'
  BY <1>4 DEF WriteFails, Path, Mishap
<1>5. ASSUME NEW n \in Numbers, NEW k \in Kinds, Undo(n, k)
      PROVE  KeptForTheArr'
  BY <1>5, Removed, PathIs DEF Undo, Mishap
<1>6. CASE Finish
  <2>1. latest \in Numbers /\ at = "written"
    BY <1>6 DEF Finish
  <2>2. ASSUME NEW p \in Paths, p[1] = name[latest], p[2] \in done[latest]
        PROVE  rows'[p] = latest /\ (disk[p] = latest \/ latest \in spoiled)
    <3>1. p = Path(latest, p[2]) /\ p[2] \in Kinds
      BY <2>2, PathsAre DEF Path
    <3>2. disk[Path(latest, p[2])] = latest \/ latest \in spoiled
      BY <2>1, <2>2 DEF Inv, Whole
    <3> QED
      BY <1>6, <2>2, <3>1, <3>2 DEF Finish, Stored
  <2>3. ASSUME NEW p \in Paths, ~(p[1] = name[latest] /\ p[2] \in done[latest])
        PROVE  /\ rows'[p] = rows[p] /\ rows[p] # latest
               /\ tree'[p[1]] = tree[p[1]] \/ tree'[p[1]] = latest
               /\ p \in taken => p \in taken'
    BY <1>6, <2>1, <2>3, PathsAre DEF Finish, Stored
  <2>4. disk' = disk /\ spoiled' = spoiled /\ history' = history \cup {latest}
    BY <1>6 DEF Finish, Stored
  <2> QED
    BY <2>1, <2>2, <2>3, <2>4
<1>7. CASE FinishUnsure
  BY <1>7 DEF FinishUnsure, Stored, ToDiscard, Mishap
<1>8. CASE Discard
  BY <1>8, Removed, PathIs DEF Discard, Mishap
<1>9. ASSUME NEW p \in Paths, Collect(p)
      PROVE  KeptForTheArr'
  BY <1>9, Removed, PathIs DEF Collect
<1>10. ASSUME NEW n \in Numbers, DeleteHistory(n)
      PROVE  KeptForTheArr'
  BY <1>10 DEF DeleteHistory
<1>11. ASSUME NEW f \in Names, DeleteItems(f)
      PROVE  KeptForTheArr'
  BY <1>11 DEF DeleteItems
<1>12. ASSUME NEW s \in seen, SweepLook(s[1], s[2])
      PROVE  KeptForTheArr'
  BY <1>12, PathsAre DEF SweepLook, Ours, Mishap
<1>13. CASE Forget
  BY <1>13 DEF Forget
<1>14. ASSUME NEW h \in hand, SweepRemove(h)
      PROVE  KeptForTheArr'
  BY <1>14, Removed, HandIs DEF SweepRemove, Outdated, HandOurs, Mishap
<1> QED
  BY <1>1, <1>2, <1>3, <1>4, <1>5, <1>6, <1>7, <1>8, <1>9, <1>10, <1>11, <1>12, <1>13, <1>14 DEF
     Next, Threads, Publisher, Others

LEMMA NextInv == Inv /\ [Next]_vars => Inv'
<1>1. ASSUME Inv, Next PROVE Inv'
  BY <1>1, TypeStep, GatedStep, UnusedStep, NamedStep, PlacedStep, KnownStep, WholeStep,
     SeenStep, HandStep, LeftStep, KeptStep DEF Inv
<1>2. ASSUME Inv, UNCHANGED vars PROVE Inv'
  BY <1>2 DEF vars, files, db, publish, thread, sweeper, ghosts, Inv, TypeOK, Gated, Unused,
     Unwritten, Unfinished, Named, Placed, Active, Path, Known, Whole, SeenStale,
     HandOurs, Outdated, NothingLeftBehind, KeptForTheArr
<1> QED
  BY <1>1, <1>2

THEOREM Invariance == Spec => []Inv
BY InitInv, NextInv, PTL DEF Spec

(***************************************************************************)
(* The directory, the tables, the gate and the threads keep their types.   *)
(***************************************************************************)
THEOREM TypeCorrect == Spec => []TypeOK
<1>1. Inv => TypeOK
  BY DEF Inv
<1> QED
  BY <1>1, Invariance, PTL

(***************************************************************************)
(* However late its thread is, no publish writes over or removes the file  *)
(* of another, unless a failed look sent it there (handoff.rs:301).        *)
(***************************************************************************)
THEOREM OthersSpared == Spec => []OthersAreSpared
<1>1. Inv => OthersAreSpared
  BY DEF Inv, TypeOK, Placed, Active, OthersAreSpared
<1> QED
  BY <1>1, Invariance, PTL

(***************************************************************************)
(* A file that no row names belongs to a publish still at work, or to one  *)
(* the process died on or could not clean up after (handoff.rs:1-3).       *)
(***************************************************************************)
THEOREM NoneLeftBehind == Spec => []NothingLeftBehind
<1>1. Inv => NothingLeftBehind
  BY DEF Inv
<1> QED
  BY <1>1, Invariance, PTL

(***************************************************************************)
(* The files of a completed job stay until an Arr takes them, but for a    *)
(* commit reported as failed and a sweep that acts on an older row of the  *)
(* path: that removes a subtitle whoever wrote it, and what was written    *)
(* after it found the older file there (handoff.rs:254-256, 373).          *)
(***************************************************************************)
THEOREM FilesKept == Spec => []KeptForTheArr
<1>1. Inv => KeptForTheArr
  BY DEF Inv
<1> QED
  BY <1>1, Invariance, PTL
=============================================================================
