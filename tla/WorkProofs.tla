----------------------------- MODULE WorkProofs -----------------------------
(***************************************************************************)
(* Theorems about work that goes on after the user looked away, by three   *)
(* machines that share nothing: Jobs, for every set of jobs and of names;  *)
(* UploadClient, for any number of files, chunks, request slots and        *)
(* attempts, and whatever the server and the network do; NameIndex, for    *)
(* every tree of paths, set of users and of requests, and every size of a  *)
(* batch.                                                                  *)
(***************************************************************************)
EXTENDS Jobs, UploadClient, NameIndex, SumTheorems, SequenceTheorems, FunctionTheorems

-----------------------------------------------------------------------------
(* Jobs.  That recovery works is a matter of order: the row of a job is in *)
(* the table job_cleanup from before it touches the disk until after it    *)
(* cleaned up, and a round of recovery holds rows of dead jobs only, which *)
(* it forgets after it removed what they name. The conjuncts of JobsInv    *)
(* say where a job may stand when a row, a folder, a temporary is there.   *)

\* As long as the goroutine is at work the history says so.
RunningRecorded == \A j \in Job : pc[j] \notin {"new", "over"} => state[j] = "running"

AtDisk == {"open", "work", "publish", "undo"}
Guarded == \A j \in Job : pc[j] \in AtDisk => <<j, target[j]>> \in cleanup

\* The rows of a job that copies may name earlier targets.
RowsInTime ==
  \A r \in cleanup :
    /\ pc[r[1]] \notin {"new", "finish", "persist"}
    /\ r[1] \notin Copy => r[2] = target[r[1]] /\ pc[r[1]] \notin {"name", "guard"}

FolderAtTarget ==
  \A j \in Extract, n \in Name : placed[n] = j => target[j] = n /\ pc[j] \notin {"new", "name"}

ContentInTime ==
  /\ \A j \in filled : pc[j] \notin {"new", "name", "guard", "open"}
  /\ \A j \in whole : pc[j] \in {"unguard", "finish", "persist", "over"}

ZipAtTarget ==
  \A j \in Archive, n \in Name : zip[n] = j => target[j] = n /\ pc[j] \in {"work", "publish", "over"}

TempInTime == \A j \in temp : pc[j] \in {"work", "over"}

CleanAtEnd == \A j \in Job : pc[j] \in {"unguard", "finish", "persist"} => ~Leftover(j)

\* Its ticker is gone too: nothing turns its row back to running.
DeadListed ==
  \A j \in Job : pc[j] = "over" /\ Leftover(j) =>
    <<j, target[j]>> \in cleanup /\ state[j] # "running" /\ j \notin tick

\* What a round of recovery has left to do, and what it is about to forget.
RoundSound ==
  /\ rec.todo \subseteq cleanup
  /\ \A r \in rec.todo : pc[r[1]] = "over"
  /\ rec.pc = "forget" => rec.cur \in rec.todo /\ ~Leftover(rec.cur[1])
  /\ rec.pc = "tell" => rec.todo = {}

\* A job that the round will close has nothing left but what the round will still remove.
ListedSound ==
  rec.pc # "idle" =>
    \A j \in rec.listed \ rec.pending :
      pc[j] = "over" /\ (Leftover(j) => <<j, target[j]>> \in rec.todo)

ToldSound == \A j \in told : pc[j] = "over" /\ ~Leftover(j)

\* A dead job makes nothing any more.
StayDead ==
  \A j \in Job : pc[j] = "over" =>
    pc'[j] = "over" /\ target'[j] = target[j] /\ (Leftover(j)' => Leftover(j))

JobsInv ==
  /\ JobsTypeOK /\ RunningRecorded /\ Guarded /\ RowsInTime /\ FolderAtTarget /\ ContentInTime
  /\ ZipAtTarget /\ TempInTime /\ CleanAtEnd /\ DeadListed /\ RoundSound /\ ListedSound /\ ToldSound

-----------------------------------------------------------------------------
Maintain == Recover \/ RecSkip \/ RecAbort
Around == Crash \/ Mount \/ \E n \in Name : OwnerPuts(n) \/ OwnerRemoves(n)

\* A step is one of a job, of the maintenance or of the surroundings.
LEMMA NextSplits ==
  ASSUME [JobsNext]_jobsVars
  PROVE  \/ \E j \in Job : Manage(j) \/ Unzip(j) \/ Lookup(j) \/ ZipUp(j) \/ CopyFiles(j)
         \/ Maintain \/ Around \/ UNCHANGED jobsVars
BY DEF JobsNext, Steady, Maintain, Around

LEMMA AnyRowIsRow == AnyRow \in Row
<1>1. PICK j \in Job, n \in Name : TRUE
  BY SomethingToDo
<1>2. <<j, n>> \in Row
  BY DEF Row
<1> QED  BY <1>2 DEF AnyRow

\* Types.
LEMMA TypeStep ==
  ASSUME JobsTypeOK,
         [JobsNext]_jobsVars
  PROVE  JobsTypeOK'
<1> USE TypesAreDisjoint, NothingIsNoJob DEF Job, Row, Final, Steps, FreeNames, JobsTypeOK, Goto,
     Running, Fail, goroutines, table, content, folder
<1>1. ASSUME \E j \in Job : Manage(j) PROVE JobsTypeOK'
  BY <1>1 DEF Manage, Start, JobRefuse, TickRead, TickWrite, Guard, Unguard, JobFinish,
       Persist
<1>2. ASSUME \E j \in Job : Unzip(j) PROVE JobsTypeOK'
  BY <1>2 DEF Unzip, Mkdir, ExtractOpen, ExtractEntry, ExtractDone, ExtractFails, Undo
<1>3. ASSUME \E j \in Job : Lookup(j) PROVE JobsTypeOK'
  BY <1>3 DEF Lookup
<1>4. ASSUME \E j \in Job : ZipUp(j) PROVE JobsTypeOK'
  BY <1>4 DEF ZipUp, ZipOpen, ZipDone, ZipFails, ZipPublish
<1>5. ASSUME \E j \in Job : CopyFiles(j) PROVE JobsTypeOK'
  BY <1>5 DEF CopyFiles, CopySkips, CopyOpen, CopyFails, CopyPublish
<1>6. ASSUME Maintain PROVE JobsTypeOK'
  <2> USE AnyRowIsRow DEF RecIdle
  <2>1. CASE RecList
    <3>1. \A S \in SUBSET Row : {r[1] : r \in S} \in SUBSET Job
      OBVIOUS
    <3>2. PICK found \in SUBSET Row, jobs \in SUBSET Job :
            rec' = [RecIdle EXCEPT !.pc = "row", !.todo = found, !.listed = jobs]
      BY <2>1, <3>1 DEF RecList
    <3>3. rec' = [pc |-> "row", todo |-> found, cur |-> AnyRow, listed |-> jobs, pending |-> {}]
      BY <3>2
    <3> HIDE DEF RecIdle
    <3>4. UNCHANGED <<pc, result, target, tick, state, told, cleanup, placed, zip, temp, filled, whole, mounted>>
      BY <2>1 DEF RecList
    <3> QED  BY <3>3, <3>4
  <2>2. CASE RecRemove
    <3>1. PICK r \in rec.todo :
            /\ placed' = IF r[1] \in Extract THEN [placed EXCEPT ![r[2]] = Absent] ELSE placed
            /\ zip' = IF r[1] \in Archive THEN [zip EXCEPT ![r[2]] = Absent] ELSE zip
            /\ temp' = temp \ {r[1]}
            /\ rec' = [rec EXCEPT !.pc = "forget", !.cur = r]
      BY <2>2 DEF RecRemove
    <3>2. r \in Row
      OBVIOUS
    <3> QED  BY <2>2, <3>1, <3>2 DEF RecRemove
  <2>3. CASE RecForget
    BY <2>3 DEF RecForget
  <2>4. CASE RecEnd
    BY <2>4 DEF RecEnd
  <2>5. CASE RecTell
    BY <2>5 DEF RecTell
  <2>6. CASE RecSkip
    <3>1. \A r \in rec.todo : rec.todo \ {r} \in SUBSET Row /\ rec.pending \cup {r[1]} \in SUBSET Job
      OBVIOUS
    <3>2. PICK found \in SUBSET Row, jobs \in SUBSET Job :
            rec' = [rec EXCEPT !.todo = found, !.pending = jobs]
      BY <2>6, <3>1 DEF RecSkip
    <3> QED  BY <2>6, <3>2 DEF RecSkip
  <2>7. CASE RecAbort
    BY <2>7 DEF RecAbort
  <2> QED  BY <1>6, <2>1, <2>2, <2>3, <2>4, <2>5, <2>6, <2>7 DEF Maintain, Recover
<1>7. ASSUME Around PROVE JobsTypeOK'
  <2>1. CASE Crash
    <3>1. RecIdle \in [pc : {"idle", "row", "forget", "tell"}, todo : SUBSET Row, cur : Row,
                     listed : SUBSET Job, pending : SUBSET Job]
      BY AnyRowIsRow DEF RecIdle
    <3>2. tick' = {} /\ rec' = RecIdle /\ mounted' \in BOOLEAN
      BY <2>1 DEF Crash
    <3>3. UNCHANGED <<result, target, told, cleanup, placed, zip, temp, filled, whole>>
      BY <2>1 DEF Crash
    <3>4. pc' \in [Job -> Steps] /\ state' \in [Job -> Final \cup {"none", "running"}]
      BY <2>1 DEF Crash
    <3>5. \A j \in Job : (pc'[j] = "undo" => j \in Extract) /\ (state'[j] = "none" <=> pc'[j] = "new")
      BY <2>1 DEF Crash
    <3> QED  BY <3>1, <3>2, <3>3, <3>4, <3>5
  <2>2. CASE Mount
    BY <2>2 DEF Mount
  <2>3. CASE \E n \in Name : OwnerPuts(n) \/ OwnerRemoves(n)
    BY <2>3 DEF OwnerPuts, OwnerRemoves
  <2> QED  BY <1>7, <2>1, <2>2, <2>3 DEF Around
<1>8. ASSUME UNCHANGED jobsVars PROVE JobsTypeOK'
  BY <1>8 DEF jobsVars
<1> QED  BY <1>1, <1>2, <1>3, <1>4, <1>5, <1>6, <1>7, <1>8, NextSplits

\* The row says running as long as the goroutine is at work.
LEMMA RunningRecordedStep ==
  ASSUME JobsTypeOK, RunningRecorded,
         [JobsNext]_jobsVars
  PROVE  RunningRecorded'
<1> USE TypesAreDisjoint, NothingIsNoJob DEF Job, Row, Final, Steps, FreeNames, JobsTypeOK,
     RunningRecorded, Goto, Running, Fail, goroutines, table, content, folder
<1>1. ASSUME \E j \in Job : Manage(j) PROVE RunningRecorded'
  BY <1>1 DEF Manage, Start, JobRefuse, TickRead, TickWrite, Guard, Unguard, JobFinish,
       Persist
<1>2. ASSUME \E j \in Job : Unzip(j) PROVE RunningRecorded'
  BY <1>2 DEF Unzip, Mkdir, ExtractOpen, ExtractEntry, ExtractDone, ExtractFails, Undo
<1>3. ASSUME \E j \in Job : Lookup(j) PROVE RunningRecorded'
  BY <1>3 DEF Lookup
<1>4. ASSUME \E j \in Job : ZipUp(j) PROVE RunningRecorded'
  BY <1>4 DEF ZipUp, ZipOpen, ZipDone, ZipFails, ZipPublish
<1>5. ASSUME \E j \in Job : CopyFiles(j) PROVE RunningRecorded'
  BY <1>5 DEF CopyFiles, CopySkips, CopyOpen, CopyFails, CopyPublish
<1>6. ASSUME Maintain PROVE RunningRecorded'
  BY <1>6 DEF Maintain, Recover, RecList, RecRemove, RecForget, RecEnd, RecTell,
       RecSkip, RecAbort, RecIdle
<1>7. ASSUME Around PROVE RunningRecorded'
  BY <1>7 DEF Around, Crash, Mount, OwnerPuts, OwnerRemoves, RecIdle
<1>8. ASSUME UNCHANGED jobsVars PROVE RunningRecorded'
  BY <1>8 DEF jobsVars
<1> QED  BY <1>1, <1>2, <1>3, <1>4, <1>5, <1>6, <1>7, <1>8, NextSplits

\* Recovery forgets rows of dead jobs only.
LEMMA GuardedStep ==
  ASSUME JobsTypeOK, Guarded, RoundSound,
         [JobsNext]_jobsVars
  PROVE  Guarded'
<1> USE TypesAreDisjoint, NothingIsNoJob DEF Job, Row, Final, Steps, FreeNames, JobsTypeOK,
     Guarded, RoundSound, AtDisk, Goto, Running, Fail, goroutines, table, content,
     folder
<1>1. ASSUME \E j \in Job : Manage(j) PROVE Guarded'
  BY <1>1 DEF Manage, Start, JobRefuse, TickRead, TickWrite, Guard, Unguard, JobFinish,
       Persist
<1>2. ASSUME \E j \in Job : Unzip(j) PROVE Guarded'
  BY <1>2 DEF Unzip, Mkdir, ExtractOpen, ExtractEntry, ExtractDone, ExtractFails, Undo
<1>3. ASSUME \E j \in Job : Lookup(j) PROVE Guarded'
  BY <1>3 DEF Lookup
<1>4. ASSUME \E j \in Job : ZipUp(j) PROVE Guarded'
  BY <1>4 DEF ZipUp, ZipOpen, ZipDone, ZipFails, ZipPublish
<1>5. ASSUME \E j \in Job : CopyFiles(j) PROVE Guarded'
  BY <1>5 DEF CopyFiles, CopySkips, CopyOpen, CopyFails, CopyPublish
<1>6. ASSUME Maintain PROVE Guarded'
  <2> USE AnyRowIsRow DEF RecIdle
  <2>1. CASE RecList
    BY <2>1 DEF RecList
  <2>2. CASE RecRemove
    BY <2>2 DEF RecRemove
  <2>3. CASE RecForget
    BY <2>3 DEF RecForget
  <2>4. CASE RecEnd
    BY <2>4 DEF RecEnd
  <2>5. CASE RecTell
    BY <2>5 DEF RecTell
  <2>6. CASE RecSkip
    BY <2>6 DEF RecSkip
  <2>7. CASE RecAbort
    BY <2>7 DEF RecAbort
  <2> QED  BY <1>6, <2>1, <2>2, <2>3, <2>4, <2>5, <2>6, <2>7 DEF Maintain, Recover
<1>7. ASSUME Around PROVE Guarded'
  BY <1>7 DEF Around, Crash, Mount, OwnerPuts, OwnerRemoves, RecIdle
<1>8. ASSUME UNCHANGED jobsVars PROVE Guarded'
  BY <1>8 DEF jobsVars
<1> QED  BY <1>1, <1>2, <1>3, <1>4, <1>5, <1>6, <1>7, <1>8, NextSplits

\* Rows appear in Guard and are gone after Unguard.
LEMMA RowsInTimeStep ==
  ASSUME JobsTypeOK, RowsInTime,
         [JobsNext]_jobsVars
  PROVE  RowsInTime'
<1> USE TypesAreDisjoint, NothingIsNoJob DEF Job, Row, Final, Steps, FreeNames, JobsTypeOK,
     RowsInTime, Goto, Running, Fail, goroutines, table, content, folder
<1>1. ASSUME \E j \in Job : Manage(j) PROVE RowsInTime'
  BY <1>1 DEF Manage, Start, JobRefuse, TickRead, TickWrite, Guard, Unguard, JobFinish,
       Persist
<1>2. ASSUME \E j \in Job : Unzip(j) PROVE RowsInTime'
  BY <1>2 DEF Unzip, Mkdir, ExtractOpen, ExtractEntry, ExtractDone, ExtractFails, Undo
<1>3. ASSUME \E j \in Job : Lookup(j) PROVE RowsInTime'
  BY <1>3 DEF Lookup
<1>4. ASSUME \E j \in Job : ZipUp(j) PROVE RowsInTime'
  BY <1>4 DEF ZipUp, ZipOpen, ZipDone, ZipFails, ZipPublish
<1>5. ASSUME \E j \in Job : CopyFiles(j) PROVE RowsInTime'
  BY <1>5 DEF CopyFiles, CopySkips, CopyOpen, CopyFails, CopyPublish
<1>6. ASSUME Maintain PROVE RowsInTime'
  BY <1>6 DEF Maintain, Recover, RecList, RecRemove, RecForget, RecEnd, RecTell,
       RecSkip, RecAbort, RecIdle
<1>7. ASSUME Around PROVE RowsInTime'
  BY <1>7 DEF Around, Crash, Mount, OwnerPuts, OwnerRemoves, RecIdle
<1>8. ASSUME UNCHANGED jobsVars PROVE RowsInTime'
  BY <1>8 DEF jobsVars
<1> QED  BY <1>1, <1>2, <1>3, <1>4, <1>5, <1>6, <1>7, <1>8, NextSplits

\* An extraction makes one folder.
LEMMA FolderAtTargetStep ==
  ASSUME JobsTypeOK, FolderAtTarget,
         [JobsNext]_jobsVars
  PROVE  FolderAtTarget'
<1> USE TypesAreDisjoint, NothingIsNoJob DEF Job, Row, Final, Steps, FreeNames, JobsTypeOK,
     FolderAtTarget, Goto, Running, Fail, goroutines, table, content, folder
<1>1. ASSUME \E j \in Job : Manage(j) PROVE FolderAtTarget'
  BY <1>1 DEF Manage, Start, JobRefuse, TickRead, TickWrite, Guard, Unguard, JobFinish,
       Persist
<1>2. ASSUME \E j \in Job : Unzip(j) PROVE FolderAtTarget'
  BY <1>2 DEF Unzip, Mkdir, ExtractOpen, ExtractEntry, ExtractDone, ExtractFails, Undo
<1>3. ASSUME \E j \in Job : Lookup(j) PROVE FolderAtTarget'
  BY <1>3 DEF Lookup
<1>4. ASSUME \E j \in Job : ZipUp(j) PROVE FolderAtTarget'
  BY <1>4 DEF ZipUp, ZipOpen, ZipDone, ZipFails, ZipPublish
<1>5. ASSUME \E j \in Job : CopyFiles(j) PROVE FolderAtTarget'
  BY <1>5 DEF CopyFiles, CopySkips, CopyOpen, CopyFails, CopyPublish
<1>6. ASSUME Maintain PROVE FolderAtTarget'
  <2> USE AnyRowIsRow DEF RecIdle
  <2>1. CASE RecList
    BY <2>1 DEF RecList
  <2>2. CASE RecRemove
    BY <2>2 DEF RecRemove
  <2>3. CASE RecForget
    BY <2>3 DEF RecForget
  <2>4. CASE RecEnd
    BY <2>4 DEF RecEnd
  <2>5. CASE RecTell
    BY <2>5 DEF RecTell
  <2>6. CASE RecSkip
    BY <2>6 DEF RecSkip
  <2>7. CASE RecAbort
    BY <2>7 DEF RecAbort
  <2> QED  BY <1>6, <2>1, <2>2, <2>3, <2>4, <2>5, <2>6, <2>7 DEF Maintain, Recover
<1>7. ASSUME Around PROVE FolderAtTarget'
  BY <1>7 DEF Around, Crash, Mount, OwnerPuts, OwnerRemoves, RecIdle
<1>8. ASSUME UNCHANGED jobsVars PROVE FolderAtTarget'
  BY <1>8 DEF jobsVars
<1> QED  BY <1>1, <1>2, <1>3, <1>4, <1>5, <1>6, <1>7, <1>8, NextSplits

\* Entries come while the job is at work.
LEMMA ContentInTimeStep ==
  ASSUME JobsTypeOK, ContentInTime,
         [JobsNext]_jobsVars
  PROVE  ContentInTime'
<1> USE TypesAreDisjoint, NothingIsNoJob DEF Job, Row, Final, Steps, FreeNames, JobsTypeOK,
     ContentInTime, Goto, Running, Fail, goroutines, table, content, folder
<1>1. ASSUME \E j \in Job : Manage(j) PROVE ContentInTime'
  BY <1>1 DEF Manage, Start, JobRefuse, TickRead, TickWrite, Guard, Unguard, JobFinish,
       Persist
<1>2. ASSUME \E j \in Job : Unzip(j) PROVE ContentInTime'
  BY <1>2 DEF Unzip, Mkdir, ExtractOpen, ExtractEntry, ExtractDone, ExtractFails, Undo
<1>3. ASSUME \E j \in Job : Lookup(j) PROVE ContentInTime'
  BY <1>3 DEF Lookup
<1>4. ASSUME \E j \in Job : ZipUp(j) PROVE ContentInTime'
  BY <1>4 DEF ZipUp, ZipOpen, ZipDone, ZipFails, ZipPublish
<1>5. ASSUME \E j \in Job : CopyFiles(j) PROVE ContentInTime'
  BY <1>5 DEF CopyFiles, CopySkips, CopyOpen, CopyFails, CopyPublish
<1>6. ASSUME Maintain PROVE ContentInTime'
  BY <1>6 DEF Maintain, Recover, RecList, RecRemove, RecForget, RecEnd, RecTell,
       RecSkip, RecAbort, RecIdle
<1>7. ASSUME Around PROVE ContentInTime'
  BY <1>7 DEF Around, Crash, Mount, OwnerPuts, OwnerRemoves, RecIdle
<1>8. ASSUME UNCHANGED jobsVars PROVE ContentInTime'
  BY <1>8 DEF jobsVars
<1> QED  BY <1>1, <1>2, <1>3, <1>4, <1>5, <1>6, <1>7, <1>8, NextSplits

\* The temporary is opened at the target only.
LEMMA ZipAtTargetStep ==
  ASSUME JobsTypeOK, ZipAtTarget,
         [JobsNext]_jobsVars
  PROVE  ZipAtTarget'
<1> USE TypesAreDisjoint, NothingIsNoJob DEF Job, Row, Final, Steps, FreeNames, JobsTypeOK,
     ZipAtTarget, Goto, Running, Fail, goroutines, table, content, folder
<1>1. ASSUME \E j \in Job : Manage(j) PROVE ZipAtTarget'
  BY <1>1 DEF Manage, Start, JobRefuse, TickRead, TickWrite, Guard, Unguard, JobFinish,
       Persist
<1>2. ASSUME \E j \in Job : Unzip(j) PROVE ZipAtTarget'
  BY <1>2 DEF Unzip, Mkdir, ExtractOpen, ExtractEntry, ExtractDone, ExtractFails, Undo
<1>3. ASSUME \E j \in Job : Lookup(j) PROVE ZipAtTarget'
  BY <1>3 DEF Lookup
<1>4. ASSUME \E j \in Job : ZipUp(j) PROVE ZipAtTarget'
  BY <1>4 DEF ZipUp, ZipOpen, ZipDone, ZipFails, ZipPublish
<1>5. ASSUME \E j \in Job : CopyFiles(j) PROVE ZipAtTarget'
  BY <1>5 DEF CopyFiles, CopySkips, CopyOpen, CopyFails, CopyPublish
<1>6. ASSUME Maintain PROVE ZipAtTarget'
  <2> USE AnyRowIsRow DEF RecIdle
  <2>1. CASE RecList
    BY <2>1 DEF RecList
  <2>2. CASE RecRemove
    BY <2>2 DEF RecRemove
  <2>3. CASE RecForget
    BY <2>3 DEF RecForget
  <2>4. CASE RecEnd
    BY <2>4 DEF RecEnd
  <2>5. CASE RecTell
    BY <2>5 DEF RecTell
  <2>6. CASE RecSkip
    BY <2>6 DEF RecSkip
  <2>7. CASE RecAbort
    BY <2>7 DEF RecAbort
  <2> QED  BY <1>6, <2>1, <2>2, <2>3, <2>4, <2>5, <2>6, <2>7 DEF Maintain, Recover
<1>7. ASSUME Around PROVE ZipAtTarget'
  BY <1>7 DEF Around, Crash, Mount, OwnerPuts, OwnerRemoves, RecIdle
<1>8. ASSUME UNCHANGED jobsVars PROVE ZipAtTarget'
  BY <1>8 DEF jobsVars
<1> QED  BY <1>1, <1>2, <1>3, <1>4, <1>5, <1>6, <1>7, <1>8, NextSplits

\* Every way out of copyFile removes the temporary.
LEMMA TempInTimeStep ==
  ASSUME JobsTypeOK, TempInTime,
         [JobsNext]_jobsVars
  PROVE  TempInTime'
<1> USE TypesAreDisjoint, NothingIsNoJob DEF Job, Row, Final, Steps, FreeNames, JobsTypeOK,
     TempInTime, Goto, Running, Fail, goroutines, table, content, folder
<1>1. ASSUME \E j \in Job : Manage(j) PROVE TempInTime'
  BY <1>1 DEF Manage, Start, JobRefuse, TickRead, TickWrite, Guard, Unguard, JobFinish,
       Persist
<1>2. ASSUME \E j \in Job : Unzip(j) PROVE TempInTime'
  BY <1>2 DEF Unzip, Mkdir, ExtractOpen, ExtractEntry, ExtractDone, ExtractFails, Undo
<1>3. ASSUME \E j \in Job : Lookup(j) PROVE TempInTime'
  BY <1>3 DEF Lookup
<1>4. ASSUME \E j \in Job : ZipUp(j) PROVE TempInTime'
  BY <1>4 DEF ZipUp, ZipOpen, ZipDone, ZipFails, ZipPublish
<1>5. ASSUME \E j \in Job : CopyFiles(j) PROVE TempInTime'
  BY <1>5 DEF CopyFiles, CopySkips, CopyOpen, CopyFails, CopyPublish
<1>6. ASSUME Maintain PROVE TempInTime'
  BY <1>6 DEF Maintain, Recover, RecList, RecRemove, RecForget, RecEnd, RecTell,
       RecSkip, RecAbort, RecIdle
<1>7. ASSUME Around PROVE TempInTime'
  BY <1>7 DEF Around, Crash, Mount, OwnerPuts, OwnerRemoves, RecIdle
<1>8. ASSUME UNCHANGED jobsVars PROVE TempInTime'
  BY <1>8 DEF jobsVars
<1> QED  BY <1>1, <1>2, <1>3, <1>4, <1>5, <1>6, <1>7, <1>8, NextSplits

\* Every way out of a job leaves nothing half-made.
LEMMA CleanAtEndStep ==
  ASSUME JobsTypeOK, FolderAtTarget, ContentInTime, ZipAtTarget, TempInTime, CleanAtEnd,
         [JobsNext]_jobsVars
  PROVE  CleanAtEnd'
<1> USE TypesAreDisjoint, NothingIsNoJob DEF Job, Row, Final, Steps, FreeNames, JobsTypeOK,
     FolderAtTarget, ContentInTime, ZipAtTarget, TempInTime, CleanAtEnd, Leftover,
     HalfExtracted, Goto, Running, Fail, goroutines, table, content, folder
<1>1. ASSUME \E j \in Job : Manage(j) PROVE CleanAtEnd'
  BY <1>1 DEF Manage, Start, JobRefuse, TickRead, TickWrite, Guard, Unguard, JobFinish,
       Persist
<1>2. ASSUME \E j \in Job : Unzip(j) PROVE CleanAtEnd'
  BY <1>2 DEF Unzip, Mkdir, ExtractOpen, ExtractEntry, ExtractDone, ExtractFails, Undo
<1>3. ASSUME \E j \in Job : Lookup(j) PROVE CleanAtEnd'
  BY <1>3 DEF Lookup
<1>4. ASSUME \E j \in Job : ZipUp(j) PROVE CleanAtEnd'
  BY <1>4 DEF ZipUp, ZipOpen, ZipDone, ZipFails, ZipPublish
<1>5. ASSUME \E j \in Job : CopyFiles(j) PROVE CleanAtEnd'
  BY <1>5 DEF CopyFiles, CopySkips, CopyOpen, CopyFails, CopyPublish
<1>6. ASSUME Maintain PROVE CleanAtEnd'
  <2> USE AnyRowIsRow DEF RecIdle
  <2>1. CASE RecList
    BY <2>1 DEF RecList
  <2>2. CASE RecRemove
    BY <2>2 DEF RecRemove
  <2>3. CASE RecForget
    BY <2>3 DEF RecForget
  <2>4. CASE RecEnd
    BY <2>4 DEF RecEnd
  <2>5. CASE RecTell
    BY <2>5 DEF RecTell
  <2>6. CASE RecSkip
    BY <2>6 DEF RecSkip
  <2>7. CASE RecAbort
    BY <2>7 DEF RecAbort
  <2> QED  BY <1>6, <2>1, <2>2, <2>3, <2>4, <2>5, <2>6, <2>7 DEF Maintain, Recover
<1>7. ASSUME Around PROVE CleanAtEnd'
  BY <1>7 DEF Around, Crash, Mount, OwnerPuts, OwnerRemoves, RecIdle
<1>8. ASSUME UNCHANGED jobsVars PROVE CleanAtEnd'
  BY <1>8 DEF jobsVars
<1> QED  BY <1>1, <1>2, <1>3, <1>4, <1>5, <1>6, <1>7, <1>8, NextSplits

\* A dead job makes nothing any more.
LEMMA DeadStayDead ==
  ASSUME JobsTypeOK,
         [JobsNext]_jobsVars
  PROVE  StayDead
<1> USE TypesAreDisjoint, NothingIsNoJob DEF Job, Row, Final, Steps, FreeNames, JobsTypeOK,
     Leftover, HalfExtracted, StayDead, Goto, Running, Fail, goroutines, table, content,
     folder
<1>1. ASSUME \E j \in Job : Manage(j) PROVE StayDead
  BY <1>1 DEF Manage, Start, JobRefuse, TickRead, TickWrite, Guard, Unguard, JobFinish,
       Persist
<1>2. ASSUME \E j \in Job : Unzip(j) PROVE StayDead
  BY <1>2 DEF Unzip, Mkdir, ExtractOpen, ExtractEntry, ExtractDone, ExtractFails, Undo
<1>3. ASSUME \E j \in Job : Lookup(j) PROVE StayDead
  BY <1>3 DEF Lookup
<1>4. ASSUME \E j \in Job : ZipUp(j) PROVE StayDead
  BY <1>4 DEF ZipUp, ZipOpen, ZipDone, ZipFails, ZipPublish
<1>5. ASSUME \E j \in Job : CopyFiles(j) PROVE StayDead
  BY <1>5 DEF CopyFiles, CopySkips, CopyOpen, CopyFails, CopyPublish
<1>6. ASSUME Maintain PROVE StayDead
  <2> USE AnyRowIsRow DEF RecIdle
  <2>1. CASE RecList
    BY <2>1 DEF RecList
  <2>2. CASE RecRemove
    BY <2>2 DEF RecRemove
  <2>3. CASE RecForget
    BY <2>3 DEF RecForget
  <2>4. CASE RecEnd
    BY <2>4 DEF RecEnd
  <2>5. CASE RecTell
    BY <2>5 DEF RecTell
  <2>6. CASE RecSkip
    BY <2>6 DEF RecSkip
  <2>7. CASE RecAbort
    BY <2>7 DEF RecAbort
  <2> QED  BY <1>6, <2>1, <2>2, <2>3, <2>4, <2>5, <2>6, <2>7 DEF Maintain, Recover
<1>7. ASSUME Around PROVE StayDead
  BY <1>7 DEF Around, Crash, Mount, OwnerPuts, OwnerRemoves, RecIdle
<1>8. ASSUME UNCHANGED jobsVars PROVE StayDead
  BY <1>8 DEF jobsVars
<1> QED  BY <1>1, <1>2, <1>3, <1>4, <1>5, <1>6, <1>7, <1>8, NextSplits

\* What was half-made at a crash was guarded, and recovery forgets a row only
\* after the leftover is gone.
LEMMA DeadListedStep ==
  ASSUME JobsTypeOK, Guarded, FolderAtTarget, ContentInTime, ZipAtTarget, TempInTime,
         CleanAtEnd, DeadListed, RoundSound,
         [JobsNext]_jobsVars
  PROVE  DeadListed'
<1> USE TypesAreDisjoint, NothingIsNoJob DEF Job, Row, Final, Steps, FreeNames, JobsTypeOK,
     Guarded, FolderAtTarget, ContentInTime, ZipAtTarget, TempInTime, CleanAtEnd,
     DeadListed, RoundSound, AtDisk, Leftover, HalfExtracted, Goto, Running, Fail,
     goroutines, table, content, folder
<1>1. ASSUME \E j \in Job : Manage(j) PROVE DeadListed'
  BY <1>1 DEF Manage, Start, JobRefuse, TickRead, TickWrite, Guard, Unguard, JobFinish,
       Persist
<1>2. ASSUME \E j \in Job : Unzip(j) PROVE DeadListed'
  BY <1>2 DEF Unzip, Mkdir, ExtractOpen, ExtractEntry, ExtractDone, ExtractFails, Undo
<1>3. ASSUME \E j \in Job : Lookup(j) PROVE DeadListed'
  BY <1>3 DEF Lookup
<1>4. ASSUME \E j \in Job : ZipUp(j) PROVE DeadListed'
  BY <1>4 DEF ZipUp, ZipOpen, ZipDone, ZipFails, ZipPublish
<1>5. ASSUME \E j \in Job : CopyFiles(j) PROVE DeadListed'
  BY <1>5 DEF CopyFiles, CopySkips, CopyOpen, CopyFails, CopyPublish
<1>6. ASSUME Maintain PROVE DeadListed'
  <2> USE AnyRowIsRow DEF RecIdle
  <2>1. CASE RecList
    BY <2>1 DEF RecList
  <2>2. CASE RecRemove
    BY <2>2 DEF RecRemove
  <2>3. CASE RecForget
    BY <2>3 DEF RecForget
  <2>4. CASE RecEnd
    BY <2>4 DEF RecEnd
  <2>5. CASE RecTell
    BY <2>5 DEF RecTell
  <2>6. CASE RecSkip
    BY <2>6 DEF RecSkip
  <2>7. CASE RecAbort
    BY <2>7 DEF RecAbort
  <2> QED  BY <1>6, <2>1, <2>2, <2>3, <2>4, <2>5, <2>6, <2>7 DEF Maintain, Recover
<1>7. ASSUME Around PROVE DeadListed'
  BY <1>7 DEF Around, Crash, Mount, OwnerPuts, OwnerRemoves, RecIdle
<1>8. ASSUME UNCHANGED jobsVars PROVE DeadListed'
  BY <1>8 DEF jobsVars
<1> QED  BY <1>1, <1>2, <1>3, <1>4, <1>5, <1>6, <1>7, <1>8, NextSplits

\* A round has rows of dead jobs, in the table.
LEMMA RoundSoundStep ==
  ASSUME JobsTypeOK, RunningRecorded, RowsInTime, FolderAtTarget, ZipAtTarget, RoundSound,
         [JobsNext]_jobsVars
  PROVE  RoundSound'
<1> USE TypesAreDisjoint, NothingIsNoJob DEF Job, Row, Final, Steps, FreeNames, JobsTypeOK,
     RunningRecorded, RowsInTime, FolderAtTarget, ZipAtTarget, RoundSound, Leftover,
     HalfExtracted, Goto, Running, Fail, goroutines, table, content, folder
<1>1. ASSUME \E j \in Job : Manage(j) PROVE RoundSound'
  BY <1>1 DEF Manage, Start, JobRefuse, TickRead, TickWrite, Guard, Unguard, JobFinish,
       Persist
<1>2. ASSUME \E j \in Job : Unzip(j) PROVE RoundSound'
  BY <1>2 DEF Unzip, Mkdir, ExtractOpen, ExtractEntry, ExtractDone, ExtractFails, Undo
<1>3. ASSUME \E j \in Job : Lookup(j) PROVE RoundSound'
  BY <1>3 DEF Lookup
<1>4. ASSUME \E j \in Job : ZipUp(j) PROVE RoundSound'
  BY <1>4 DEF ZipUp, ZipOpen, ZipDone, ZipFails, ZipPublish
<1>5. ASSUME \E j \in Job : CopyFiles(j) PROVE RoundSound'
  BY <1>5 DEF CopyFiles, CopySkips, CopyOpen, CopyFails, CopyPublish
<1>6. ASSUME Maintain PROVE RoundSound'
  <2> USE AnyRowIsRow DEF RecIdle
  <2>1. CASE RecList
    BY <2>1 DEF RecList
  <2>2. CASE RecRemove
    BY <2>2 DEF RecRemove
  <2>3. CASE RecForget
    BY <2>3 DEF RecForget
  <2>4. CASE RecEnd
    BY <2>4 DEF RecEnd
  <2>5. CASE RecTell
    BY <2>5 DEF RecTell
  <2>6. CASE RecSkip
    BY <2>6 DEF RecSkip
  <2>7. CASE RecAbort
    BY <2>7 DEF RecAbort
  <2> QED  BY <1>6, <2>1, <2>2, <2>3, <2>4, <2>5, <2>6, <2>7 DEF Maintain, Recover
<1>7. ASSUME Around PROVE RoundSound'
  BY <1>7 DEF Around, Crash, Mount, OwnerPuts, OwnerRemoves, RecIdle
<1>8. ASSUME UNCHANGED jobsVars PROVE RoundSound'
  BY <1>8 DEF jobsVars
<1> QED  BY <1>1, <1>2, <1>3, <1>4, <1>5, <1>6, <1>7, <1>8, NextSplits

\* A job that the round closes has nothing left.
LEMMA ListedSoundStep ==
  ASSUME JobsTypeOK, RunningRecorded, RowsInTime, DeadListed, RoundSound, ListedSound,
         [JobsNext]_jobsVars
  PROVE  ListedSound'
<1>0. StayDead
  BY DeadStayDead
<1> USE TypesAreDisjoint, NothingIsNoJob DEF Job, Row, Final, Steps, FreeNames, JobsTypeOK,
     RunningRecorded, RowsInTime, DeadListed, RoundSound, ListedSound, Leftover,
     HalfExtracted, Goto, Running, Fail, goroutines, table, content, folder
<1>1. ASSUME \E j \in Job : Manage(j) PROVE ListedSound'
  <2>1. UNCHANGED rec
    BY <1>1 DEF Manage, Start, JobRefuse, TickRead, TickWrite, Guard, Unguard, JobFinish,
         Persist
  <2>2. rec.listed \subseteq Job
    OBVIOUS
  <2> HIDE DEF JobsTypeOK, RunningRecorded, Final, Steps, goroutines, table, content,
       folder, Row, RowsInTime, DeadListed, RoundSound
  <2> QED  BY <2>1, <2>2, <1>0 DEF StayDead
<1>2. ASSUME \E j \in Job : Unzip(j) PROVE ListedSound'
  <2>1. UNCHANGED rec
    BY <1>2 DEF Unzip, Mkdir, ExtractOpen, ExtractEntry, ExtractDone, ExtractFails, Undo
  <2>2. rec.listed \subseteq Job
    OBVIOUS
  <2> HIDE DEF JobsTypeOK, RunningRecorded, Final, Steps, goroutines, table, content,
       folder, Row, RowsInTime, DeadListed, RoundSound
  <2> QED  BY <2>1, <2>2, <1>0 DEF StayDead
<1>3. ASSUME \E j \in Job : Lookup(j) PROVE ListedSound'
  <2>1. UNCHANGED rec
    BY <1>3 DEF Lookup
  <2>2. rec.listed \subseteq Job
    OBVIOUS
  <2> HIDE DEF JobsTypeOK, RunningRecorded, Final, Steps, goroutines, table, content,
       folder, Row, RowsInTime, DeadListed, RoundSound
  <2> QED  BY <2>1, <2>2, <1>0 DEF StayDead
<1>4. ASSUME \E j \in Job : ZipUp(j) PROVE ListedSound'
  <2>1. UNCHANGED rec
    BY <1>4 DEF ZipUp, ZipOpen, ZipDone, ZipFails, ZipPublish
  <2>2. rec.listed \subseteq Job
    OBVIOUS
  <2> HIDE DEF JobsTypeOK, RunningRecorded, Final, Steps, goroutines, table, content,
       folder, Row, RowsInTime, DeadListed, RoundSound
  <2> QED  BY <2>1, <2>2, <1>0 DEF StayDead
<1>5. ASSUME \E j \in Job : CopyFiles(j) PROVE ListedSound'
  <2>1. UNCHANGED rec
    BY <1>5 DEF CopyFiles, CopySkips, CopyOpen, CopyFails, CopyPublish
  <2>2. rec.listed \subseteq Job
    OBVIOUS
  <2> HIDE DEF JobsTypeOK, RunningRecorded, Final, Steps, goroutines, table, content,
       folder, Row, RowsInTime, DeadListed, RoundSound
  <2> QED  BY <2>1, <2>2, <1>0 DEF StayDead
<1>6. ASSUME Maintain PROVE ListedSound'
  <2> USE AnyRowIsRow DEF RecIdle
  <2>1. CASE RecList
    BY <2>1 DEF RecList
  <2>2. CASE RecRemove
    BY <2>2 DEF RecRemove
  <2>3. CASE RecForget
    BY <2>3 DEF RecForget
  <2>4. CASE RecEnd
    BY <2>4 DEF RecEnd
  <2>5. CASE RecTell
    BY <2>5 DEF RecTell
  <2>6. CASE RecSkip
    BY <2>6 DEF RecSkip
  <2>7. CASE RecAbort
    BY <2>7 DEF RecAbort
  <2> QED  BY <1>6, <2>1, <2>2, <2>3, <2>4, <2>5, <2>6, <2>7 DEF Maintain, Recover
<1>7. ASSUME Around PROVE ListedSound'
  BY <1>7 DEF Around, Crash, Mount, OwnerPuts, OwnerRemoves, RecIdle
<1>8. ASSUME UNCHANGED jobsVars PROVE ListedSound'
  BY <1>8 DEF jobsVars
<1> QED  BY <1>1, <1>2, <1>3, <1>4, <1>5, <1>6, <1>7, <1>8, NextSplits

\* Told jobs stay dead and clean.
LEMMA ToldSoundStep ==
  ASSUME JobsTypeOK, RoundSound, ListedSound, ToldSound,
         [JobsNext]_jobsVars
  PROVE  ToldSound'
<1> USE TypesAreDisjoint, NothingIsNoJob DEF Job, Row, Final, Steps, FreeNames, JobsTypeOK,
     RoundSound, ListedSound, ToldSound, Leftover, HalfExtracted, Goto, Running, Fail,
     goroutines, table, content, folder
<1>1. ASSUME \E j \in Job : Manage(j) PROVE ToldSound'
  BY <1>1 DEF Manage, Start, JobRefuse, TickRead, TickWrite, Guard, Unguard, JobFinish,
       Persist
<1>2. ASSUME \E j \in Job : Unzip(j) PROVE ToldSound'
  BY <1>2 DEF Unzip, Mkdir, ExtractOpen, ExtractEntry, ExtractDone, ExtractFails, Undo
<1>3. ASSUME \E j \in Job : Lookup(j) PROVE ToldSound'
  BY <1>3 DEF Lookup
<1>4. ASSUME \E j \in Job : ZipUp(j) PROVE ToldSound'
  BY <1>4 DEF ZipUp, ZipOpen, ZipDone, ZipFails, ZipPublish
<1>5. ASSUME \E j \in Job : CopyFiles(j) PROVE ToldSound'
  BY <1>5 DEF CopyFiles, CopySkips, CopyOpen, CopyFails, CopyPublish
<1>6. ASSUME Maintain PROVE ToldSound'
  <2> USE AnyRowIsRow DEF RecIdle
  <2>1. CASE RecList
    BY <2>1 DEF RecList
  <2>2. CASE RecRemove
    BY <2>2 DEF RecRemove
  <2>3. CASE RecForget
    BY <2>3 DEF RecForget
  <2>4. CASE RecEnd
    BY <2>4 DEF RecEnd
  <2>5. CASE RecTell
    BY <2>5 DEF RecTell
  <2>6. CASE RecSkip
    BY <2>6 DEF RecSkip
  <2>7. CASE RecAbort
    BY <2>7 DEF RecAbort
  <2> QED  BY <1>6, <2>1, <2>2, <2>3, <2>4, <2>5, <2>6, <2>7 DEF Maintain, Recover
<1>7. ASSUME Around PROVE ToldSound'
  BY <1>7 DEF Around, Crash, Mount, OwnerPuts, OwnerRemoves, RecIdle
<1>8. ASSUME UNCHANGED jobsVars PROVE ToldSound'
  BY <1>8 DEF jobsVars
<1> QED  BY <1>1, <1>2, <1>3, <1>4, <1>5, <1>6, <1>7, <1>8, NextSplits

-----------------------------------------------------------------------------
LEMMA InitJobsInv == JobsInit => JobsInv
<1> SUFFICES ASSUME JobsInit PROVE JobsInv
  OBVIOUS
<1>1. AnyName \in Name
  BY SomethingToDo DEF AnyName
<1>2. RecIdle \in [pc : {"idle", "row", "forget", "tell"}, todo : SUBSET Row, cur : Row,
                   listed : SUBSET Job, pending : SUBSET Job]
  BY AnyRowIsRow DEF RecIdle
<1>3. JobsTypeOK
  BY <1>1, <1>2, NothingIsNoJob DEF JobsInit, JobsTypeOK, Final, Steps, Job
<1>4. RunningRecorded /\ Guarded /\ RowsInTime /\ ContentInTime /\ TempInTime /\ ToldSound
  BY DEF JobsInit, RunningRecorded, Guarded, AtDisk, RowsInTime, ContentInTime, TempInTime, ToldSound
<1>5. FolderAtTarget /\ ZipAtTarget
  BY NothingIsNoJob DEF JobsInit, FolderAtTarget, ZipAtTarget, Job
<1>6. CleanAtEnd /\ DeadListed
  BY DEF JobsInit, CleanAtEnd, DeadListed
<1>7. RoundSound /\ ListedSound
  BY DEF JobsInit, RecIdle, RoundSound, ListedSound
<1> QED  BY <1>3, <1>4, <1>5, <1>6, <1>7 DEF JobsInv

LEMMA StepJobsInv == JobsInv /\ [JobsNext]_jobsVars => JobsInv'
BY TypeStep, RunningRecordedStep, GuardedStep, RowsInTimeStep, FolderAtTargetStep,
   ContentInTimeStep, ZipAtTargetStep, TempInTimeStep, CleanAtEndStep, DeadListedStep,
   RoundSoundStep, ListedSoundStep, ToldSoundStep DEF JobsInv

LEMMA Always == JobsSpec => []JobsInv
BY InitJobsInv, StepJobsInv, PTL DEF JobsSpec

\* Every variable keeps its type.
THEOREM JobsTyped == JobsSpec => []JobsTypeOK
<1>1. JobsInv => JobsTypeOK
  BY DEF JobsInv
<1> QED  BY <1>1, Always, PTL

\* What a crash leaves half-made is in the table job_cleanup and its job is not
\* taken for a running one, whatever the ticker wrote and wherever the crash came
\* (guardJob before the disk, unguardJob after it).
THEOREM LeftoversAreListed == JobsSpec => []LeftoversListed
<1>1. JobsInv => LeftoversListed
  <2> SUFFICES ASSUME JobsInv, NEW j \in Job, Leftover(j), pc[j] = "over"
               PROVE  state[j] # "running" /\ \E r \in cleanup : r[1] = j
    BY DEF LeftoversListed
  <2>1. <<j, target[j]>> \in cleanup /\ state[j] # "running"
    BY DEF JobsInv, DeadListed
  <2> QED  BY <2>1
<1> QED  BY <1>1, Always, PTL

\* The history says of a job that its leftovers were removed only when nothing of
\* it is left, and nothing comes back (recoverInterruptedJobs, SetJobError).
THEOREM HistoryIsTrue == JobsSpec => []TextIsTrue
<1>1. JobsInv => TextIsTrue
  BY DEF JobsInv, ToldSound, TextIsTrue, JobsTypeOK
<1> QED  BY <1>1, Always, PTL

\* Recovery never holds a row of a job that runs (ListOrphanCleanup).
THEOREM RunningAreSpared == JobsSpec => []RunningSpared
<1>1. JobsInv => RunningSpared
  BY DEF JobsInv, RoundSound, RunningSpared
<1> QED  BY <1>1, Always, PTL

-----------------------------------------------------------------------------
(* The upload client.                                                      *)

(* The inductive invariant.                                                *)

\* What the work in a slot is about.
Slots ==
  \A w \in Slot :
    /\ slot[w].at # "free" => slot[w].item \in Item
    /\ slot[w].at \in {"chunk", "complete"} => slot[w].chunk \in Chunks
    /\ slot[w].at \in {"single", "create", "list"} => slot[w].chunk = None
    /\ slot[w].at \in {"chunk", "complete"} => slot[w].sid \in Sid /\ slot[w].obj \in Obj
    /\ slot[w].at = "create" /\ slot[w].answer = "ok" => slot[w].sid \in Sid

\* A session of an item is one the server gave.
Held == \A i \in Item : item[i].session # None => obj[item[i].session].sid \in Sid

\* While the server has a session, it is for the item whose session the tab
\* takes it for.
Means(s, i) == Open(s) => sess[s].item = i
Naming(w) == slot[w].at = "complete" \/ (slot[w].at = "create" /\ slot[w].answer = "ok")
Theirs ==
  /\ \A i \in Item : item[i].session # None => Means(obj[item[i].session].sid, i)
  /\ \A w \in Slot : Naming(w) => Means(slot[w].sid, slot[w].item)
  /\ \A p \in pending : Means(p.sid, p.item)

\* An answer that makes an item done speaks of bytes the server published.
Delivered(w) == slot[w].at \in {"single", "complete"} /\ slot[w].answer = "ok"
Published == \A w \in Slot : Delivered(w) => slot[w].item \in stored

Typed == TypeOK /\ Slots /\ Held
Apart ==
  \A w, v \in Slot :
    w # v /\ slot[w].item = slot[v].item /\ slot[w].at = slot[v].at =>
      /\ slot[w].at = "chunk" => slot[w].chunk # slot[v].chunk
      /\ slot[w].at # "complete"
\* The pump does not spare what waits for its back-off.
NothingWaits == ~busy => ~(CanStart /\ HasWork)
IInv == Typed /\ Apart /\ Theirs /\ Published /\ DoneMeansStored /\ NothingWaits

-----------------------------------------------------------------------------
(* Types.                                                                  *)

LEMMA DefaultsTyped ==
  /\ NoItem \in ItemRec /\ NoObj \in ObjRec /\ NoSess \in SessRec /\ Free \in SlotRec
  BY LimitsArePositive DEF NoItem, NoObj, NoSess, Free, ItemRec, ObjRec, SessRec, SlotRec,
     States, Answers

LEMMA FailedTyped ==
  ASSUME NEW r \in ItemRec, NEW e
  PROVE  Failed(r, e) \in ItemRec /\ Failed(r, e).session = r.session
         /\ Failed(r, e).state \in {"queued", "failed"}
  BY DEF Failed, ItemRec, States

LEMMA RequeuedTyped ==
  ASSUME NEW r \in ItemRec, NEW drop \in BOOLEAN
  PROVE  /\ Requeued(r, drop) \in ItemRec /\ Requeued(r, drop).state = "queued"
         /\ [Requeued(r, drop) EXCEPT !.over = TRUE] \in ItemRec
         /\ [Requeued(r, drop) EXCEPT !.over = TRUE].state = "queued"
         /\ Requeued(r, drop).session = (IF drop THEN None ELSE r.session)
         /\ [Requeued(r, drop) EXCEPT !.over = TRUE].session = Requeued(r, drop).session
<1> DEFINE a == [r EXCEPT !.state = "queued"]
           b == [a EXCEPT !.attempts = 0]
           c == [b EXCEPT !.backoff = FALSE]
           x == IF drop THEN None ELSE r.session
           q == [c EXCEPT !.session = x]
<1>1. a \in ItemRec /\ a.state = "queued" BY DEF ItemRec, States
<1>2. r.session \in Obj \cup {None} /\ x \in Obj \cup {None} /\ 0 \in 0 .. MaxAttempts
      /\ a.session = r.session
  BY LimitsArePositive DEF ItemRec
<1> HIDE DEF a, x
<1>3. b \in ItemRec /\ b.state = "queued" /\ b.session = r.session BY <1>1, <1>2 DEF ItemRec
<1> HIDE DEF b
<1>4. c \in ItemRec /\ c.state = "queued" /\ c.session = r.session BY <1>3 DEF ItemRec
<1> HIDE DEF c
<1>5. q \in ItemRec /\ q.state = "queued" /\ q.session = x BY <1>2, <1>4 DEF ItemRec
<1>6. [[[[r EXCEPT !.state = "queued"] EXCEPT !.attempts = 0] EXCEPT !.backoff = FALSE]
         EXCEPT !.session = IF drop THEN None ELSE r.session] = q
  BY DEF a, b, c, x
<1>7. Requeued(r, drop) = q BY <1>6 DEF Requeued
<1> HIDE DEF q
<1>8. [q EXCEPT !.over = TRUE] \in ItemRec /\ [q EXCEPT !.over = TRUE].state = q.state
      /\ [q EXCEPT !.over = TRUE].session = q.session
  BY <1>5 DEF ItemRec
<1> QED BY <1>5, <1>7, <1>8 DEF x

\* A slot whose work begins with a call that is not about a chunk.
Call(i, c) == [Free EXCEPT !.at = c, !.item = i]
LEMMA CallTyped ==
  ASSUME NEW i \in Item, NEW c \in {"single", "create", "list"}
  PROVE  /\ Call(i, c) \in SlotRec /\ Call(i, c).at = c /\ Call(i, c).item = i
         /\ Call(i, c).chunk = None /\ Call(i, c).answer = "none"
<1> DEFINE e == [Free EXCEPT !.at = c]
           f == [e EXCEPT !.item = i]
<1>1. Free \in SlotRec /\ Free.chunk = None /\ Free.answer = "none" BY DefaultsTyped DEF Free
<1>2. e \in SlotRec /\ e.at = c /\ e.chunk = None /\ e.answer = "none" BY <1>1 DEF SlotRec
<1> HIDE DEF e
<1>3. f \in SlotRec /\ f.at = c /\ f.item = i /\ f.chunk = None /\ f.answer = "none"
  BY <1>2 DEF SlotRec
<1> QED BY <1>3 DEF e, Call

\* What a failure does to the queue: the item fails, waits again or asks.
LEMMA FailureMoves ==
  ASSUME TypeOK, NEW i \in Item, NEW e, HandleFailure(i, e)
  PROVE  /\ item' \in [Item -> ItemRec] /\ asks' \in Seq(Ask) /\ paused' \in BOOLEAN
         /\ \A j \in Item : /\ item'[j].session = item[j].session
                            /\ item'[j].state \in {"done", "uploading"} => item'[j].state = item[j].state
<1>1. CASE UNCHANGED <<item, asks, paused>> BY <1>1 DEF TypeOK
<1>2. CASE Conflict(i, FALSE, None)
  <2>1. item' \in [Item -> ItemRec] BY <1>2 DEF Conflict, TypeOK, ItemRec, States
  <2>2. [item |-> i, after |-> FALSE, slot |-> None] \in Ask BY DEF Ask
  <2>3. asks' \in Seq(Ask) BY <1>2, <2>2 DEF Conflict, TypeOK
  <2> QED BY <1>2, <2>1, <2>3 DEF Conflict, TypeOK, ItemRec
<1>3. CASE item' = [item EXCEPT ![i] = Failed(item[i], e)] /\ paused' = (paused \/ e = "space")
           /\ UNCHANGED asks
  <2>1. item[i] \in ItemRec BY DEF TypeOK
  <2> QED BY <1>3, <2>1, FailedTyped DEF TypeOK
<1> QED BY <1>1, <1>2, <1>3 DEF HandleFailure

LEMMA FinishMoves ==
  ASSUME TypeOK, NEW i \in Item, Finish(i)
  PROVE  /\ item' \in [Item -> ItemRec] /\ asks' = asks /\ paused' = paused
         /\ \A j \in Item \ {i} : item'[j] = item[j]
         /\ item'[i].state = "done" /\ item'[i].session = None
<1> DEFINE a == [item[i] EXCEPT !.state = "done"]
           b == [a EXCEPT !.session = None]
<1>1. item[i] \in ItemRec BY DEF TypeOK
<1>2. a \in ItemRec /\ a.state = "done" BY <1>1 DEF ItemRec, States
<1> HIDE DEF a
<1>3. b \in ItemRec /\ b.state = "done" /\ b.session = None BY <1>2 DEF ItemRec
<1>4. item' = [item EXCEPT ![i] = b]
  BY DEF Finish, a, b, TypeOK
<1> HIDE DEF b
<1> QED BY <1>3, <1>4 DEF Finish, TypeOK

\* Objects that are kept are what they were.
LEMMA KeptMoves ==
  ASSUME NEW objs \in [Obj -> ObjRec], obj' = Kept(objs)
  PROVE  /\ obj' \in [Obj -> ObjRec]
         /\ \A j \in Item : item'[j].session \in Obj => obj'[item'[j].session] = objs[item'[j].session]
  BY DefaultsTyped DEF Kept

\* A slot is freed.
LEMMA ReturnMoves ==
  ASSUME TypeOK, NEW w \in Slot, Return(w)
  PROVE  /\ slot' \in [Slot -> SlotRec] /\ busy' = TRUE
         /\ \A v \in Slot : slot'[v] = slot[v] \/ slot'[v] = Free
         /\ slot'[w] = Free
  BY DefaultsTyped DEF Return, TypeOK

-----------------------------------------------------------------------------
(* Most steps of the tab give up sessions or take those that are meant for *)
(* an item, free slots or go on with another call, and forget what they    *)
(* listed, and the server loses sessions. Such a step keeps the invariant  *)
(* if it keeps types, and pumps or leaves no new work.                     *)

Keeps ==
  \A j \in Item : item'[j].session # None =>
    \/ /\ item'[j].session = item[j].session
       /\ obj'[item[j].session].sid = obj[item[j].session].sid
    \/ /\ obj'[item'[j].session].sid \in Sid
       /\ Means(obj'[item'[j].session].sid, j)
Calls == {"single", "create", "list"}
Moved(v) ==
  /\ slot'[v].item \in Item /\ slot'[v].answer # "ok"
  /\ slot'[v].at \in Calls \cup {"complete", "dialog"}
  /\ slot'[v].at \in Calls => slot'[v].chunk = None
  /\ slot'[v].at = "complete" =>
       /\ slot'[v].chunk \in Chunks /\ slot'[v].sid \in Sid /\ slot'[v].obj \in Obj
       /\ Means(slot'[v].sid, slot'[v].item)
       /\ \A u \in Slot \ {v} :
            slot'[u].at = "complete" => slot'[u].item # slot'[v].item
Freeing == \A v \in Slot : slot'[v] = slot[v] \/ slot'[v] = Free \/ Moved(v)
Closing == \A s \in Sid : sess'[s].item = sess[s].item \/ sess'[s].item = None
Listed == \A p \in pending' : p \in pending \/ Means(p.sid, p.item)
Ended ==
  /\ \A j \in stored \ stored' : Working(j) = {} /\ item'[j].state # "done"
  /\ \A j \in Item : item'[j].state = "done" => item[j].state = "done" \/ j \in stored'

LEMMA SoftStep ==
  ASSUME Typed, Apart, Theirs, Published, DoneMeansStored, TypeOK',
         Keeps, Freeing, Closing, Listed, Ended
  PROVE  Typed' /\ Apart' /\ Theirs' /\ Published' /\ DoneMeansStored'
<1>1. Slots' BY DEF Slots, Freeing, Free, Moved, Calls, Typed
<1>2. Held' BY DEF Held, Keeps, Typed
<1>3. Apart'
  <2>0. SUFFICES ASSUME NEW w \in Slot, NEW v \in Slot, w # v,
                        slot'[w].item = slot'[v].item, slot'[w].at = slot'[v].at
                 PROVE  /\ slot'[w].at = "chunk" => slot'[w].chunk # slot'[v].chunk
                        /\ slot'[w].at # "complete"
    BY DEF Apart
  <2>1. CASE slot'[w].at = "chunk"
    <3>1. ASSUME NEW u \in Slot, slot'[u].at = "chunk" PROVE slot'[u] = slot[u]
      BY <3>1 DEF Freeing, Free, Moved, Calls
    <3>2. slot'[w] = slot[w] /\ slot'[v] = slot[v] BY <2>0, <2>1, <3>1
    <3> QED BY <2>0, <2>1, <3>2 DEF Apart
  <2>2. CASE slot'[w].at = "complete"
    <3>1. ~Moved(w) /\ ~Moved(v) BY <2>0, <2>2 DEF Moved
    <3>3. ASSUME NEW u \in Slot, ~Moved(u), slot'[u].at = "complete" PROVE slot'[u] = slot[u]
      <4>1. Free.at # "complete" BY DEF Free
      <4> QED BY <3>3, <4>1 DEF Freeing
    <3>2. slot'[w] = slot[w] /\ slot'[v] = slot[v] BY <2>0, <2>2, <3>1, <3>3
    <3> QED BY <2>0, <2>2, <3>2 DEF Apart
  <2> QED BY <2>1, <2>2
<1>4. Published' BY DEF Published, Delivered, Freeing, Free, Moved, Ended, Working
<1>5. DoneMeansStored' BY DEF DoneMeansStored, InState, Ended
<1>6. ASSUME NEW s \in Sid, NEW i \in Item, Means(s, i)
      PROVE  sess'[s].item # None => sess'[s].item = i
  BY <1>6 DEF Means, Open, Closing
<1>7. ASSUME NEW i \in Item, item'[i].session # None
      PROVE  Means(obj[item[i].session].sid, i)'
  <2>1. obj'[item'[i].session].sid \in Sid /\ Means(obj'[item'[i].session].sid, i)
    BY <1>7 DEF Keeps, Theirs, Held, Typed
  <2> QED BY <1>6, <2>1 DEF Means, Open
<1>8. ASSUME NEW w \in Slot, Naming(w)' PROVE Means(slot[w].sid, slot[w].item)'
  <2>1. slot'[w] = slot[w] => Means(slot'[w].sid, slot'[w].item)
    BY <1>8 DEF Naming, Theirs
  <2>2. Moved(w) => Means(slot'[w].sid, slot'[w].item)
    BY <1>8 DEF Naming, Moved
  <2>3. slot'[w].sid \in Sid /\ slot'[w].item \in Item BY <1>1, <1>8 DEF Slots, Naming
  <2>4. Means(slot'[w].sid, slot'[w].item)
    BY <1>8, <2>1, <2>2 DEF Freeing, Free, Naming
  <2> QED BY <1>6, <2>3, <2>4 DEF Means, Open
<1>9. ASSUME NEW p \in pending' PROVE Means(p.sid, p.item)'
  <2>1. p.sid \in Sid /\ p.item \in Item /\ Means(p.sid, p.item)
    BY <1>9 DEF Listed, Theirs, TypeOK, Pending
  <2> QED BY <1>6, <2>1 DEF Means, Open
<1>10. Typed' BY ONLY <1>1, <1>2, TypeOK' DEF Typed
<1>11. Theirs' BY <1>7, <1>8, <1>9 DEF Theirs
<1> QED BY ONLY <1>10, <1>3, <1>11, <1>4, <1>5

\* No new work and no new slot for it.
NoNewWork ==
  /\ paused => paused'
  /\ \A v \in Slot : /\ slot'[v].item = slot[v].item /\ slot'[v].chunk = slot[v].chunk
                     /\ slot'[v].at = "free" => slot[v].at = "free"
  /\ \A i \in Item : item'[i].state \in {"queued", "uploading"} => item'[i].state = item[i].state
  /\ \A i \in Item : item'[i].state = "uploading" /\ item'[i].session # None =>
       item[i].session = item'[i].session
       /\ obj[item[i].session].received \subseteq obj'[item[i].session].received

LEMMA StillNoWork ==
  ASSUME TypeOK, TypeOK', NothingWaits, ~busy, NoNewWork
  PROVE  NothingWaits'
<1>1. ASSUME CanStart' PROVE CanStart BY <1>1 DEF CanStart, FreeSlots, NoNewWork, TypeOK
<1>2. ASSUME NEW i \in Item, ReadyForChunk(i)' PROVE ReadyForChunk(i)
  <2>1. Sending(i)' = Sending(i) BY DEF Sending, Working, NoNewWork
  <2>2. InFlight(i)' = InFlight(i) BY <2>1 DEF InFlight, NoNewWork, Sending, Working
  <2>3. item'[i].state = "uploading" /\ i \in Chunked /\ item'[i].session # None
        /\ Cardinality(Sending(i)) < SlotsPerFile /\ NextChunk(i)' # {}
    BY <1>2, <2>1 DEF ReadyForChunk
  <2>4. item[i].state = "uploading" /\ item[i].session # None
        /\ obj[item[i].session].received \subseteq obj'[item'[i].session].received
    BY <2>3 DEF NoNewWork
  <2>5. NextChunk(i)' \subseteq NextChunk(i) BY <2>2, <2>4 DEF NextChunk
  <2> QED BY <2>3, <2>4, <2>5 DEF ReadyForChunk
<1>3. ASSUME HasWork' PROVE HasWork
  <2>1. CASE InState({"queued"})' # {}
    <3>1. InState({"queued"}) # {} BY <2>1 DEF InState, NoNewWork
    <3> QED BY <3>1 DEF HasWork
  <2> QED BY <1>2, <1>3, <2>1 DEF HasWork
<1> QED BY <1>1, <1>3 DEF NothingWaits

LEMMA SoftKeeps ==
  ASSUME IInv, TypeOK', Keeps, Freeing, Closing, Listed, Ended,
         busy' = TRUE \/ (~busy /\ NoNewWork)
  PROVE  IInv'
<1>1. Typed' /\ Apart' /\ Theirs' /\ Published' /\ DoneMeansStored' BY SoftStep DEF IInv
<1>2. NothingWaits'
  <2>1. CASE busy' = TRUE BY <2>1 DEF NothingWaits
  <2>2. CASE ~busy /\ NoNewWork BY <2>2, StillNoWork DEF IInv, Typed
  <2> QED BY <2>1, <2>2
<1> QED BY <1>1, <1>2 DEF IInv

\* What the server holds stays as it is.
LEMMA ServerRests ==
  ASSUME TypeOK, UNCHANGED server
  PROVE  /\ Closing /\ stored' = stored
         /\ sess' \in [Sid -> SessRec] /\ taken' \subseteq Item /\ stored' \subseteq Item /\ aborts' \subseteq Sid
  BY DEF server, Closing, TypeOK

-----------------------------------------------------------------------------
(* The continuations that end the work of a slot.                          *)

\* A failure is soft.
LEMMA FailureKeeps ==
  ASSUME IInv, NEW i \in Item, NEW e, NEW w \in Slot, HandleFailure(i, e), Return(w),
         NEW objs \in [Obj -> ObjRec], \A o \in Obj : objs[o].sid = obj[o].sid,
         obj' = objs \/ obj' = Kept(objs), UNCHANGED <<preset, pending, server>>
  PROVE  IInv'
<1>1. TypeOK BY DEF IInv, Typed
<1>2. /\ item' \in [Item -> ItemRec] /\ asks' \in Seq(Ask) /\ paused' \in BOOLEAN
      /\ \A j \in Item : /\ item'[j].session = item[j].session
                         /\ item'[j].state \in {"done", "uploading"} => item'[j].state = item[j].state
  BY <1>1, FailureMoves
<1>3. slot' \in [Slot -> SlotRec] /\ busy' = TRUE /\ Freeing BY <1>1, ReturnMoves DEF Freeing
<1>4. \A j \in Item : item'[j].session \in Obj \cup {None}
  BY <1>1, <1>2 DEF TypeOK, ItemRec
<1>5. /\ obj' \in [Obj -> ObjRec]
      /\ \A j \in Item : item'[j].session # None => obj'[item'[j].session].sid = obj[item'[j].session].sid
  BY <1>4, KeptMoves
<1>6. TypeOK' BY <1>1, <1>2, <1>3, <1>5, ServerRests DEF TypeOK
<1>7. Keeps BY <1>2, <1>5 DEF Keeps
<1>8. Closing /\ Listed /\ Ended BY <1>1, <1>2, ServerRests DEF Listed, Ended
<1> QED BY <1>3, <1>6, <1>7, <1>8, SoftKeeps

LEMMA FinishKeeps ==
  ASSUME IInv, NEW w \in Slot, Delivered(w), Finish(slot[w].item), Return(w),
         obj' = obj \/ obj' = Kept(obj), UNCHANGED <<preset, pending, server>>
  PROVE  IInv'
<1> DEFINE i == slot[w].item
<1>1. TypeOK /\ i \in Item /\ i \in stored
  BY DEF IInv, Typed, Slots, Published, Delivered
<1> HIDE DEF i
<1>2. /\ item' \in [Item -> ItemRec] /\ asks' = asks /\ paused' = paused
      /\ \A j \in Item \ {i} : item'[j] = item[j]
      /\ item'[i].state = "done" /\ item'[i].session = None
  BY <1>1, FinishMoves DEF i
<1>3. slot' \in [Slot -> SlotRec] /\ busy' = TRUE /\ Freeing BY <1>1, ReturnMoves DEF Freeing
<1>4. obj \in [Obj -> ObjRec] /\ \A j \in Item : item'[j].session \in Obj \cup {None}
  BY <1>1, <1>2 DEF TypeOK, ItemRec
<1>5. /\ obj' \in [Obj -> ObjRec]
      /\ \A j \in Item : item'[j].session # None => obj'[item'[j].session] = obj[item'[j].session]
  BY <1>4, KeptMoves
<1>6. TypeOK' BY <1>1, <1>2, <1>3, <1>5, ServerRests DEF TypeOK
<1>7. Keeps BY <1>2, <1>5 DEF Keeps
<1>8. Closing /\ Listed /\ Ended BY <1>1, <1>2, ServerRests DEF Listed, Ended
<1> QED BY <1>3, <1>6, <1>7, <1>8, SoftKeeps

LEMMA SingleKeeps == ASSUME IInv, NEW w \in Slot, SingleAnswered(w) PROVE IInv'
<1>1. slot[w].at = "single" /\ slot[w].item \in Item /\ Return(w) /\ obj' = obj
      /\ UNCHANGED <<preset, pending, server>>
  BY DEF SingleAnswered, Answered, IInv, Typed, Slots
<1>2. CASE slot[w].answer = "ok"
  BY <1>1, <1>2, FinishKeeps DEF SingleAnswered, Delivered
<1>3. CASE slot[w].answer # "ok"
  BY <1>1, <1>3, FailureKeeps DEF SingleAnswered, IInv, Typed, TypeOK
<1> QED BY <1>2, <1>3

\* A session is adopted for an item that is meant by it.
LEMMA AdoptMoves ==
  ASSUME Typed, NEW i \in Item, NEW s \in Sid, NEW got \in SUBSET Chunks, NEW over \in BOOLEAN,
         Adopt(i, s, got, over), Means(s, i)
  PROVE  /\ item' \in [Item -> ItemRec] /\ obj' \in [Obj -> ObjRec] /\ Keeps
         /\ \A j \in Item : item'[j].state = item[j].state
<1> DEFINE o == CHOOSE o \in UnusedObj : TRUE
           new == [sid |-> s, received |-> got]
           objs == [obj EXCEPT ![o] = new]
           a == [item[i] EXCEPT !.session = o]
           b == [a EXCEPT !.over = over]
<1>1. o \in Obj /\ obj[o] = NoObj BY DEF Adopt, UnusedObj
<1>2. TypeOK /\ new \in ObjRec /\ item[i] \in ItemRec BY DEF ObjRec, Typed, TypeOK
<1>3. objs \in [Obj -> ObjRec] /\ objs[o] = new BY <1>1, <1>2 DEF TypeOK
<1>4. obj' = Kept(objs) BY DEF Adopt
<1>5. a \in ItemRec /\ a.session = o /\ a.state = item[i].state BY <1>1, <1>2 DEF ItemRec
<1>6. item' = [item EXCEPT ![i] = b] BY DEF Adopt, TypeOK, Typed
<1>7. \A q \in Obj \ {o} : objs[q] = obj[q] BY <1>1, <1>2 DEF TypeOK
<1> HIDE DEF a, o, objs
<1>8. b \in ItemRec /\ b.session = o /\ b.state = item[i].state BY <1>5 DEF ItemRec
<1> HIDE DEF b
<1>9. /\ item' \in [Item -> ItemRec] /\ item'[i] = b /\ \A j \in Item \ {i} : item'[j] = item[j]
  BY <1>2, <1>6, <1>8 DEF TypeOK
<1>10. \A j \in Item : item'[j].session \in Obj \cup {None} BY <1>9 DEF ItemRec
<1>11. /\ obj' \in [Obj -> ObjRec]
       /\ \A j \in Item : item'[j].session \in Obj => obj'[item'[j].session] = objs[item'[j].session]
  BY <1>3, <1>4, KeptMoves
<1>12. obj'[item'[i].session].sid = s BY <1>1, <1>3, <1>8, <1>9, <1>11
<1>13. ASSUME NEW j \in Item \ {i}, item'[j].session # None
       PROVE  item'[j].session = item[j].session
              /\ obj'[item[j].session].sid = obj[item[j].session].sid
  <2>1. item'[j] = item[j] /\ item[j].session \in Obj /\ obj[item[j].session].sid \in Sid
    BY <1>9, <1>10, <1>13 DEF Typed, Held
  <2>2. item[j].session # o BY <1>1, <2>1, NoneIsNothing DEF NoObj
  <2> QED BY <1>7, <1>11, <2>1, <2>2
<1> QED BY <1>8, <1>9, <1>11, <1>12, <1>13 DEF Keeps

LEMMA AdoptKeeps ==
  ASSUME IInv, NEW w \in Slot, NEW i \in Item, NEW s \in Sid, NEW got \in SUBSET Chunks,
         NEW over \in BOOLEAN, Adopt(i, s, got, over), Means(s, i), Return(w),
         pending' \subseteq Pending, Listed, UNCHANGED <<asks, preset, paused, server>>
  PROVE  IInv'
<1>1. Typed /\ TypeOK BY DEF IInv, Typed
<1>2. /\ item' \in [Item -> ItemRec] /\ obj' \in [Obj -> ObjRec] /\ Keeps
      /\ \A j \in Item : item'[j].state = item[j].state
  BY <1>1, AdoptMoves
<1>3. slot' \in [Slot -> SlotRec] /\ busy' = TRUE /\ Freeing BY <1>1, ReturnMoves DEF Freeing
<1>4. TypeOK' BY <1>1, <1>2, <1>3, ServerRests DEF TypeOK
<1>5. Closing /\ Ended BY <1>1, <1>2, ServerRests DEF Ended
<1> QED BY <1>2, <1>3, <1>4, <1>5, SoftKeeps

LEMMA CreateKeeps == ASSUME IInv, NEW w \in Slot, CreateAnswered(w) PROVE IInv'
<1> DEFINE i == slot[w].item
<1>1. Typed /\ TypeOK /\ slot[w].at = "create" /\ i \in Item /\ ~busy
      /\ UNCHANGED <<preset, pending, server>>
  BY DEF CreateAnswered, Answered, IInv, Typed, Slots
<1>2. CASE slot[w].answer = "ok"
  <2>1. slot[w].sid \in Sid /\ Means(slot[w].sid, i)
    BY <1>1, <1>2 DEF Slots, Typed, IInv, Theirs, Naming
  <2>2. {} \in SUBSET Chunks /\ item[i].over \in BOOLEAN BY <1>1 DEF TypeOK, ItemRec
  <2>3. Adopt(i, slot[w].sid, {}, item[i].over) /\ Return(w) /\ UNCHANGED <<asks, paused>>
    BY <1>2 DEF CreateAnswered
  <2>4. pending' \subseteq Pending /\ Listed BY <1>1 DEF TypeOK, Listed
  <2> QED BY <1>1, <2>1, <2>2, <2>3, <2>4, AdoptKeeps
<1>3. CASE slot[w].answer = "busy"
  <2> DEFINE f == Call(i, "list")
  <2>1. f \in SlotRec /\ f.at = "list" /\ f.item = i /\ f.chunk = None /\ f.answer = "none"
    BY <1>1, CallTyped
  <2>2. slot' = [slot EXCEPT ![w] = f] /\ UNCHANGED <<item, obj, asks, paused, busy>>
    BY <1>3 DEF CreateAnswered, Call
  <2> HIDE DEF f
  <2>4. TypeOK' /\ Closing /\ stored' = stored
    BY <1>1, <2>1, <2>2, ServerRests DEF TypeOK
  <2>3. NoNewWork
    BY <1>1, <2>1, <2>2 DEF NoNewWork, TypeOK, Typed, Slots
  <2>5. Freeing BY <1>1, <2>1, <2>2 DEF Freeing, Moved, Calls, TypeOK
  <2>6. Keeps /\ Listed /\ Ended BY <1>1, <2>2, <2>4 DEF Keeps, Listed, Ended
  <2> QED BY <1>1, <2>3, <2>4, <2>5, <2>6, SoftKeeps
<1>4. CASE slot[w].answer \notin {"ok", "busy"}
  BY <1>1, <1>4, FailureKeeps DEF CreateAnswered, TypeOK
<1> QED BY <1>2, <1>3, <1>4

\* What the tab lists is the server's, or what it listed before.
LEMMA ListsMean ==
  ASSUME TypeOK, Theirs, NEW list \in {Listing, pending}
  PROVE  /\ list \subseteq Pending
         /\ \A p \in list : Means(p.sid, p.item)
<1>1. Listing \subseteq Pending
  BY DEF Listing, Pending, Open, TypeOK, SessRec
<1>2. \A p \in Listing : Means(p.sid, p.item)
  BY DEF Listing, Means
<1> QED BY <1>1, <1>2 DEF TypeOK, Theirs

LEMMA ListKeeps == ASSUME IInv, NEW w \in Slot, ListAnswered(w) PROVE IInv'
<1> DEFINE i == slot[w].item
<1>1. TypeOK /\ Theirs /\ i \in Item /\ Return(w) /\ UNCHANGED <<asks, preset, paused, server>>
  BY DEF ListAnswered, IInv, Typed, Slots
<1>2. PICK list \in {Listing, pending} :
         \/ \E p \in Match(i, list) : pending' = list \ {p} /\ Adopt(i, p.sid, p.got, p.over)
         \/ pending' = list /\ item' = [item EXCEPT ![i].state = "failed"] /\ UNCHANGED obj
  BY DEF ListAnswered
<1> HIDE DEF i
<1>3. list \subseteq Pending /\ \A p \in list : Means(p.sid, p.item) BY <1>1, ListsMean
<1>4. CASE \E p \in Match(i, list) : pending' = list \ {p} /\ Adopt(i, p.sid, p.got, p.over)
  <2>1. PICK p \in Match(i, list) : pending' = list \ {p} /\ Adopt(i, p.sid, p.got, p.over)
    BY <1>4
  <2>2. p \in list /\ p.item = i BY DEF Match
  <2>3. p.sid \in Sid /\ p.got \in SUBSET Chunks /\ p.over \in BOOLEAN /\ Means(p.sid, i)
    BY <1>3, <2>2 DEF Pending
  <2>4. pending' \subseteq Pending /\ Listed BY <1>3, <2>1 DEF Listed
  <2> QED BY <1>1, <2>1, <2>3, <2>4, AdoptKeeps
<1>5. CASE pending' = list /\ item' = [item EXCEPT ![i].state = "failed"] /\ UNCHANGED obj
  <2>1. slot' \in [Slot -> SlotRec] /\ busy' = TRUE /\ Freeing BY <1>1, ReturnMoves DEF Freeing
  <2>2. /\ item' \in [Item -> ItemRec]
        /\ \A j \in Item : /\ item'[j].session = item[j].session
                           /\ item'[j].state = "done" => item[j].state = "done"
    BY <1>1, <1>5 DEF TypeOK, ItemRec, States
  <2>3. TypeOK' BY <1>1, <1>3, <1>5, <2>1, <2>2, ServerRests DEF TypeOK
  <2>4. Keeps /\ Listed /\ Ended /\ Closing
    BY <1>1, <1>3, <1>5, <2>2, ServerRests DEF Keeps, Listed, Ended
  <2> QED BY <2>1, <2>3, <2>4, SoftKeeps
<1> QED BY <1>2, <1>4, <1>5

\* Steps that change no item but what a session object received.
LEMMA ReceivedKeeps ==
  ASSUME IInv, NEW w \in Slot, Return(w), NEW objs \in [Obj -> ObjRec],
         \A o \in Obj : objs[o].sid = obj[o].sid, obj' = objs \/ obj' = Kept(objs),
         UNCHANGED <<item, asks, paused, preset, pending, server>>
  PROVE  IInv'
<1>1. TypeOK BY DEF IInv, Typed
<1>2. slot' \in [Slot -> SlotRec] /\ busy' = TRUE /\ Freeing BY <1>1, ReturnMoves DEF Freeing
<1>3. \A j \in Item : item'[j].session \in Obj \cup {None} BY <1>1 DEF TypeOK, ItemRec
<1>4. /\ obj' \in [Obj -> ObjRec]
      /\ \A j \in Item : item'[j].session # None => obj'[item'[j].session].sid = obj[item'[j].session].sid
  BY <1>3, KeptMoves
<1>5. TypeOK' BY <1>1, <1>2, <1>4, ServerRests DEF TypeOK
<1>6. Keeps /\ Closing /\ Listed /\ Ended BY <1>1, <1>4, ServerRests DEF Keeps, Listed, Ended
<1> QED BY <1>2, <1>5, <1>6, SoftKeeps

\* The object of a slot learns what its session received, or did not.
LEMMA ReceivedMoves ==
  ASSUME TypeOK, NEW o \in Obj, NEW got \in SUBSET Chunks
  PROVE  LET objs == [obj EXCEPT ![o].received = got] IN
         /\ objs \in [Obj -> ObjRec] /\ \A q \in Obj : objs[q].sid = obj[q].sid
         /\ \A q \in Obj \ {o} : objs[q] = obj[q]
         /\ objs[o].received = got
<1> DEFINE r == [obj[o] EXCEPT !.received = got]
           objs == [obj EXCEPT ![o] = r]
<1>1. obj[o] \in ObjRec BY DEF TypeOK
<1>2. r \in ObjRec /\ r.sid = obj[o].sid /\ r.received = got BY <1>1 DEF ObjRec
<1> HIDE DEF r
<1>3. /\ objs \in [Obj -> ObjRec] /\ \A q \in Obj : objs[q].sid = obj[q].sid
      /\ \A q \in Obj \ {o} : objs[q] = obj[q]
      /\ objs[o].received = got
  BY <1>2 DEF TypeOK
<1> QED BY <1>3 DEF r

\* What becomes of the last chunk to return.
LEMMA ToCompleteKeeps ==
  ASSUME IInv, NEW w \in Slot, Answered(w, "chunk"), ToComplete(w),
         Cardinality(Sending(slot[w].item)) = 1,
         NEW objs \in [Obj -> ObjRec], \A o \in Obj : objs[o].sid = obj[o].sid,
         \A o \in Obj : obj[o].received \subseteq objs[o].received, obj' = Kept(objs),
         UNCHANGED <<preset, pending, server>>
  PROVE  IInv'
<1> DEFINE i == slot[w].item
           o == item[i].session
<1>1. Typed /\ TypeOK /\ i \in Item /\ slot[w].at = "chunk" /\ ~busy
  BY DEF IInv, Typed, Answered, Slots
<1>2. CASE o = None
  BY <1>1, <1>2, FailureKeeps DEF ToComplete
<1>3. CASE o # None
  <2> DEFINE a == [slot[w] EXCEPT !.at = "complete"]
             b == [a EXCEPT !.answer = "none"]
             c == [b EXCEPT !.obj = o]
             d == [c EXCEPT !.sid = obj[o].sid]
  <2>0. ASSUME NEW u \in Slot \ {w}, slot[u].at = "complete" PROVE slot[u].item # i
    <3>1. Sending(i) \subseteq Slot /\ IsFiniteSet(Sending(i))
      BY SlotsAreFinite, FS_Subset DEF Sending, Working
    <3>2. PICK x : Sending(i) = {x} BY <3>1, FS_Singleton
    <3>3. w \in Sending(i) BY <1>1, NoneIsNothing DEF Sending, Working, Typed, Slots
    <3>4. slot[u].chunk # None BY <1>1, <2>0, NoneIsNothing DEF Typed, Slots
    <3> QED BY <3>2, <3>3, <3>4 DEF Sending, Working
  <2>1. o \in Obj /\ obj[o].sid \in Sid /\ Means(obj[o].sid, i)
    BY <1>1, <1>3 DEF TypeOK, ItemRec, Held, Typed, IInv, Theirs
  <2>2. slot' = [slot EXCEPT ![w] = d] /\ UNCHANGED <<item, asks, paused, busy>>
    BY <1>1, <1>3 DEF ToComplete, TypeOK
  <2>3. slot[w] \in SlotRec BY <1>1 DEF TypeOK
  <2>4. a \in SlotRec /\ a.at = "complete" /\ a.item = i /\ a.chunk = slot[w].chunk
    BY <2>3 DEF SlotRec
  <2> HIDE DEF a, i, o
  <2>5. b \in SlotRec /\ b.at = "complete" /\ b.item = i /\ b.chunk = slot[w].chunk
        /\ b.answer = "none"
    BY <2>4 DEF SlotRec, Answers
  <2> HIDE DEF b
  <2>6. c \in SlotRec /\ c.at = "complete" /\ c.item = i /\ c.chunk = slot[w].chunk
        /\ c.answer = "none" /\ c.obj = o
    BY <2>1, <2>5 DEF SlotRec
  <2> HIDE DEF c
  <2>7. d \in SlotRec /\ d.at = "complete" /\ d.item = i /\ d.chunk = slot[w].chunk
        /\ d.answer = "none" /\ d.obj = o /\ d.sid = obj[o].sid
    BY <2>1, <2>6 DEF SlotRec
  <2> HIDE DEF d
  <2>8. slot' \in [Slot -> SlotRec] /\ slot'[w] = d /\ \A v \in Slot \ {w} : slot'[v] = slot[v]
    BY <1>1, <2>2, <2>7 DEF TypeOK
  <2>9. \A j \in Item : item'[j].session \in Obj \cup {None} BY <1>1, <2>2 DEF TypeOK, ItemRec
  <2>10. /\ obj' \in [Obj -> ObjRec]
         /\ \A j \in Item : item'[j].session # None => obj'[item'[j].session] = objs[item'[j].session]
    BY <2>9, KeptMoves
  <2>11. TypeOK' BY <1>1, <2>2, <2>8, <2>10, ServerRests DEF TypeOK
  <2>12. Freeing
    <3>1. slot[w].chunk \in Chunks BY <1>1 DEF Typed, Slots
    <3> QED BY <1>1, <2>0, <2>1, <2>7, <2>8, <3>1 DEF Freeing, Moved, Calls
  <2>13. Keeps BY <1>1, <2>2, <2>9, <2>10 DEF Keeps
  <2>14. Closing /\ Listed /\ Ended BY <1>1, <2>2, ServerRests DEF Listed, Ended
  <2>15. slot[w].item = i BY DEF i
  <2>16. NoNewWork
    <3>1. \A v \in Slot : /\ slot'[v].item = slot[v].item /\ slot'[v].chunk = slot[v].chunk
                          /\ slot'[v].at = "free" => slot[v].at = "free"
      BY <2>7, <2>8, <2>15
    <3>2. \A j \in Item : item'[j].state = "uploading" /\ item'[j].session # None =>
            item[j].session = item'[j].session
            /\ obj[item[j].session].received \subseteq obj'[item'[j].session].received
      BY <2>2, <2>9, <2>10
    <3> QED BY <2>2, <3>1, <3>2 DEF NoNewWork
  <2> QED BY <1>1, <2>11, <2>12, <2>13, <2>14, <2>16, SoftKeeps
<1> QED BY <1>2, <1>3

LEMMA ChunkKeeps == ASSUME IInv, NEW w \in Slot, ChunkAnswered(w) PROVE IInv'
<1> DEFINE i == slot[w].item
           o == slot[w].obj
           got == [obj EXCEPT ![o].received = obj[o].received \cup {slot[w].chunk}]
<1>1. /\ TypeOK /\ i \in Item /\ slot[w].at = "chunk" /\ ~busy /\ o \in Obj
      /\ slot[w].chunk \in Chunks /\ Answered(w, "chunk") /\ UNCHANGED <<preset, pending, server>>
  BY DEF ChunkAnswered, Answered, IInv, Typed, Slots
<1>2. obj[o].received \cup {slot[w].chunk} \in SUBSET Chunks BY <1>1 DEF TypeOK, ObjRec
<1>3. /\ got \in [Obj -> ObjRec] /\ \A q \in Obj : got[q].sid = obj[q].sid
      /\ \A q \in Obj : obj[q].received \subseteq got[q].received
  BY <1>1, <1>2, ReceivedMoves
<1>4. CASE slot[w].answer = "ok"
  <2>1. /\ obj' = Kept(got)
        /\ \/ ToComplete(w) /\ Cardinality(Sending(slot[w].item)) = 1
           \/ Return(w) /\ UNCHANGED <<item, asks, paused>>
    BY <1>1, <1>4 DEF ChunkAnswered
  <2> HIDE DEF got
  <2> QED BY <1>1, <1>3, <2>1, ToCompleteKeeps, ReceivedKeeps
<1>5. CASE slot[w].answer = "gone"
  <2> DEFINE a == [item[i] EXCEPT !.session = None]
             b == [a EXCEPT !.state = "queued"]
  <2>1. item' = [item EXCEPT ![i] = b] /\ Return(w) /\ obj' = Kept(obj) /\ UNCHANGED <<asks, paused>>
    BY <1>1, <1>5 DEF ChunkAnswered, TypeOK
  <2>2. item[i] \in ItemRec /\ obj \in [Obj -> ObjRec] BY <1>1 DEF TypeOK
  <2>3. a \in ItemRec /\ a.session = None BY <2>2 DEF ItemRec
  <2> HIDE DEF a, i, got
  <2>4. b \in ItemRec /\ b.session = None /\ b.state = "queued" BY <2>3 DEF ItemRec, States
  <2> HIDE DEF b
  <2>5. /\ item' \in [Item -> ItemRec] /\ item'[i] = b /\ \A j \in Item \ {i} : item'[j] = item[j]
    BY <1>1, <2>1, <2>4 DEF TypeOK
  <2>6. slot' \in [Slot -> SlotRec] /\ busy' = TRUE /\ Freeing
    BY <1>1, <2>1, ReturnMoves DEF Freeing
  <2>7. \A j \in Item : item'[j].session \in Obj \cup {None} BY <2>5 DEF ItemRec
  <2>8. /\ obj' \in [Obj -> ObjRec]
        /\ \A j \in Item : item'[j].session # None => obj'[item'[j].session] = obj[item'[j].session]
    BY <2>1, <2>2, <2>7, KeptMoves
  <2>9. TypeOK' BY <1>1, <2>1, <2>5, <2>6, <2>8, ServerRests DEF TypeOK
  <2>10. Keeps BY <2>4, <2>5, <2>8 DEF Keeps
  <2>11. Closing /\ Listed /\ Ended
    BY <1>1, <2>4, <2>5, ServerRests DEF Listed, Ended
  <2> QED BY <2>6, <2>9, <2>10, <2>11, SoftKeeps
<1>6. CASE slot[w].answer \notin {"ok", "gone"}
  <2>1. /\ obj' = Kept(obj) /\ Return(w) /\ obj \in [Obj -> ObjRec]
        /\ HandleFailure(i, slot[w].answer) \/ UNCHANGED <<item, asks, paused>>
    BY <1>1, <1>6 DEF ChunkAnswered, TypeOK
  <2> HIDE DEF i, got
  <2> QED BY <1>1, <2>1, FailureKeeps, ReceivedKeeps
<1> QED BY <1>4, <1>5, <1>6

LEMMA CompleteKeeps == ASSUME IInv, NEW w \in Slot, CompleteAnswered(w) PROVE IInv'
<1> DEFINE i == slot[w].item
           o == slot[w].obj
           rest == obj[o].received \ slot[w].missing
           got == [obj EXCEPT ![o].received = rest]
<1>1. /\ TypeOK /\ i \in Item /\ slot[w].at = "complete" /\ ~busy /\ o \in Obj
      /\ UNCHANGED <<preset, pending, server>>
  BY DEF CompleteAnswered, Answered, IInv, Typed, Slots
<1>2. rest \in SUBSET Chunks /\ obj \in [Obj -> ObjRec]
  BY <1>1 DEF TypeOK, ObjRec
<1>3. got \in [Obj -> ObjRec] /\ \A q \in Obj : got[q].sid = obj[q].sid
  <2> HIDE DEF rest, o, i
  <2> QED BY <1>1, <1>2, ReceivedMoves
<1>4. CASE slot[w].answer = "ok"
  BY <1>1, <1>4, FinishKeeps DEF CompleteAnswered, Delivered
<1>5. CASE slot[w].answer = "missing"
  <2>1. obj' = Kept(got) /\ Return(w) /\ UNCHANGED <<item, asks, paused>>
    BY <1>1, <1>5 DEF CompleteAnswered
  <2> HIDE DEF got
  <2> QED BY <1>1, <1>3, <2>1, ReceivedKeeps
<1>6. CASE slot[w].answer = "exists"
  <2> DEFINE d == [slot[w] EXCEPT !.at = "dialog"]
             a == [item |-> i, after |-> TRUE, slot |-> w]
  <2>1. /\ item' = [item EXCEPT ![i].state = "conflict"] /\ asks' = Append(asks, a)
        /\ slot' = [slot EXCEPT ![w] = d] /\ UNCHANGED <<paused, obj, busy>>
    BY <1>1, <1>6 DEF CompleteAnswered, Conflict, TypeOK
  <2>2. slot[w] \in SlotRec /\ a \in Ask BY <1>1 DEF TypeOK, Ask
  <2>3. /\ d \in SlotRec /\ d.at = "dialog" /\ d.item = i /\ d.chunk = slot[w].chunk
        /\ d.answer = "exists" /\ i = slot[w].item
    BY <1>6, <2>2 DEF SlotRec
  <2> HIDE DEF d, a, i, o, rest, got
  <2>4. asks' \in Seq(Ask) BY <1>1, <2>1, <2>2 DEF TypeOK
  <2>5. slot' \in [Slot -> SlotRec] /\ slot'[w] = d /\ \A v \in Slot \ {w} : slot'[v] = slot[v]
    BY <1>1, <2>1, <2>3 DEF TypeOK
  <2>6. /\ item' \in [Item -> ItemRec]
        /\ \A j \in Item : item'[j].session = item[j].session
        /\ \A j \in Item : item'[j].state = item[j].state \/ item'[j].state = "conflict"
    BY <1>1, <2>1 DEF TypeOK, ItemRec, States
  <2>7. TypeOK' BY <1>1, <2>1, <2>4, <2>5, <2>6, ServerRests DEF TypeOK
  <2>8. Freeing BY <1>1, <2>3, <2>5 DEF Freeing, Moved, Calls
  <2>9. Keeps /\ Closing /\ Listed /\ Ended
    BY <1>1, <2>1, <2>6, ServerRests DEF Keeps, Listed, Ended
  <2>10. NoNewWork BY <2>1, <2>3, <2>5, <2>6 DEF NoNewWork
  <2> QED BY <1>1, <2>7, <2>8, <2>9, <2>10, SoftKeeps
<1>7. CASE slot[w].answer \notin {"ok", "missing", "exists"}
  <2>1. obj' = Kept(obj) /\ Return(w) /\ HandleFailure(i, slot[w].answer)
    BY <1>1, <1>7 DEF CompleteAnswered
  <2> HIDE DEF i, got
  <2> QED BY <1>1, <1>2, <2>1, FailureKeeps
<1> QED BY <1>4, <1>5, <1>6, <1>7

-----------------------------------------------------------------------------
(* The pump.                                                               *)

LEMMA FreeSlotIs ==
  ASSUME CanStart
  PROVE  Min(FreeSlots) \in Slot /\ slot[Min(FreeSlots)].at = "free"
<1>1. FreeSlots \in SUBSET Slot /\ FreeSlots # {} BY DEF FreeSlots, CanStart
<1>2. Min(FreeSlots) \in FreeSlots
  <2> HIDE DEF FreeSlots
  <2> QED BY <1>1, ChunksAreNumbered, LeastNatural
<1> QED BY <1>2 DEF FreeSlots

\* The chunk sent next is not in flight.
LEMMA PumpChunkKeeps == ASSUME IInv, PumpChunk PROVE IInv'
<1> DEFINE m == Min(FreeSlots)
<1>1. Typed /\ TypeOK /\ m \in Slot /\ slot[m].at = "free" /\ busy' = busy /\ busy
      /\ UNCHANGED <<item, obj, asks, preset, paused, pending, server>>
  BY FreeSlotIs DEF PumpChunk, IInv, Typed
<1>2. PICK i \in Item :
        /\ ReadyForChunk(i)
        /\ slot' = [slot EXCEPT ![m] =
             [Free EXCEPT !.at = "chunk", !.item = i, !.chunk = Min(NextChunk(i)),
                          !.obj = item[i].session, !.sid = obj[item[i].session].sid]]
  BY DEF PumpChunk
<1> HIDE DEF m
<1>3. item[i].session \in Obj /\ obj[item[i].session].sid \in Sid
  BY <1>1, <1>2 DEF ReadyForChunk, Typed, TypeOK, ItemRec, Held
<1> DEFINE k == Min(NextChunk(i))
           o == item[i].session
           s == obj[o].sid
<1>4. k \in NextChunk(i)
  <2>1. NextChunk(i) \in SUBSET Chunks /\ NextChunk(i) # {} BY <1>2 DEF ReadyForChunk, NextChunk
  <2> QED BY <2>1, ChunksAreNumbered, LeastNatural
<1>5. k \in Chunks /\ k \notin InFlight(i) BY <1>4 DEF NextChunk
<1> DEFINE a == [Free EXCEPT !.at = "chunk"]
           b == [a EXCEPT !.item = i]
           c == [b EXCEPT !.chunk = k]
           d == [c EXCEPT !.obj = o]
           e == [d EXCEPT !.sid = s]
<1>6. slot' = [slot EXCEPT ![m] = e] BY <1>2
<1>7. Free \in SlotRec /\ Free.answer = "none" BY DefaultsTyped DEF Free
<1> HIDE DEF k, o, s
<1>8. a \in SlotRec /\ a.answer = "none" /\ a.at = "chunk" BY <1>7 DEF SlotRec
<1> HIDE DEF a
<1>9. b \in SlotRec /\ b.answer = "none" /\ b.at = "chunk" /\ b.item = i BY <1>8 DEF SlotRec
<1> HIDE DEF b
<1>10. c \in SlotRec /\ c.answer = "none" /\ c.at = "chunk" /\ c.item = i /\ c.chunk = k
  BY <1>5, <1>9 DEF SlotRec
<1> HIDE DEF c
<1>11. d \in SlotRec /\ d.answer = "none" /\ d.at = "chunk" /\ d.item = i /\ d.chunk = k
       /\ d.obj = o
  BY <1>3, <1>10 DEF SlotRec, o
<1> HIDE DEF d
<1>12. e \in SlotRec /\ e.answer = "none" /\ e.at = "chunk" /\ e.item = i /\ e.chunk = k
       /\ e.obj = o /\ e.sid = s
  BY <1>3, <1>11 DEF SlotRec, o, s
<1>13. s \in Sid /\ o \in Obj BY <1>3 DEF o, s
<1> HIDE DEF e
<1>14. slot' \in [Slot -> SlotRec] /\ slot'[m] = e /\ \A v \in Slot \ {m} : slot'[v] = slot[v]
  BY <1>1, <1>6, <1>12 DEF TypeOK
<1>15. TypeOK' BY <1>1, <1>14, ServerRests DEF TypeOK
<1>16. Slots' BY <1>1, <1>5, <1>12, <1>13, <1>14 DEF Slots, Typed
<1>17. Held' BY <1>1 DEF Held, Typed
<1>18. Apart'
  <2>1. ASSUME NEW v \in Slot \ {m}, slot[v].at = "chunk", slot[v].item = i PROVE slot[v].chunk # k
    <3>1. slot[v].chunk \in Chunks /\ slot[v].chunk # None
      BY <1>1, <2>1, NoneIsNothing DEF Typed, Slots
    <3>2. slot[v].chunk \in InFlight(i) BY <2>1, <3>1 DEF InFlight, Sending, Working
    <3> QED BY <1>5, <3>2
  <2> QED BY <1>12, <1>14, <2>1 DEF Apart, IInv
<1>19. Theirs'
  <2>1. \A v \in Slot : Naming(v)' => Naming(v) /\ slot'[v] = slot[v]
    BY <1>12, <1>14 DEF Naming
  <2> QED BY <1>1, <2>1 DEF Theirs, IInv, Means, Open, server
<1>20. Published'
  <2>1. \A v \in Slot : Delivered(v)' => Delivered(v) /\ slot'[v] = slot[v]
    BY <1>12, <1>14 DEF Delivered
  <2> QED BY <1>1, <2>1 DEF Published, IInv, server
<1>21. DoneMeansStored' /\ NothingWaits'
  BY <1>1 DEF DoneMeansStored, NothingWaits, InState, IInv, server
<1> QED BY <1>15, <1>16, <1>17, <1>18, <1>19, <1>20, <1>21 DEF IInv, Typed

LEMMA PumpQueuedKeeps == ASSUME IInv, PumpQueued PROVE IInv'
<1> DEFINE m == Min(FreeSlots)
           i == Min(InState({"queued"}))
           n == IF item[i].attempts < MaxAttempts THEN item[i].attempts + 1 ELSE item[i].attempts
           a == [item[i] EXCEPT !.state = "uploading"]
           b == [a EXCEPT !.backoff = FALSE]
           c == [b EXCEPT !.attempts = n]
           f == Call(i, FirstAwait(i))
<1>1. Typed /\ TypeOK /\ m \in Slot /\ slot[m].at = "free" /\ busy' = busy /\ busy
      /\ UNCHANGED <<obj, asks, preset, paused, pending, server>>
  BY FreeSlotIs DEF PumpQueued, IInv, Typed
<1>2. i \in Item
  <2>1. InState({"queued"}) \in SUBSET Item /\ InState({"queued"}) # {} BY DEF InState, PumpQueued
  <2>2. i \in InState({"queued"}) BY <2>1, ItemsAreOrdered, LeastNatural
  <2> QED BY <2>1, <2>2
<1>3. item' = [item EXCEPT ![i] = c]
  BY <1>1, <1>2 DEF PumpQueued, TypeOK
<1>4. slot' = slot \/ slot' = [slot EXCEPT ![m] = f] BY DEF PumpQueued, Call
<1> HIDE DEF i, m
<1>5. f \in SlotRec /\ f.at \in Calls /\ f.item = i /\ f.chunk = None /\ f.answer = "none"
  BY <1>2, CallTyped DEF FirstAwait, Calls
<1> HIDE DEF f
<1>6. item[i] \in ItemRec /\ n \in 0 .. MaxAttempts
  BY <1>1, <1>2, LimitsArePositive DEF TypeOK, ItemRec
<1>7. a \in ItemRec /\ a.state = "uploading" /\ a.session = item[i].session
  BY <1>6 DEF ItemRec, States
<1> HIDE DEF a, n
<1>8. b \in ItemRec /\ b.state = "uploading" /\ b.session = item[i].session BY <1>7 DEF ItemRec
<1> HIDE DEF b
<1>9. c \in ItemRec /\ c.state = "uploading" /\ c.session = item[i].session
  BY <1>6, <1>8 DEF ItemRec
<1> HIDE DEF c
<1>10. /\ item' \in [Item -> ItemRec] /\ item'[i] = c /\ \A j \in Item \ {i} : item'[j] = item[j]
  BY <1>1, <1>2, <1>3, <1>9 DEF TypeOK
<1>11. slot' \in [Slot -> SlotRec] /\ Freeing
  BY <1>1, <1>2, <1>4, <1>5 DEF TypeOK, Freeing, Moved, Calls
<1>12. TypeOK' BY <1>1, <1>10, <1>11, ServerRests DEF TypeOK
<1>13. Keeps /\ Closing /\ Listed /\ Ended
  BY <1>1, <1>9, <1>10, ServerRests DEF Keeps, Listed, Ended
<1> QED BY <1>1, <1>11, <1>12, <1>13, SoftKeeps

LEMMA PumpEndKeeps == ASSUME IInv, PumpEnd PROVE IInv'
<1>1. UNCHANGED <<item, obj, slot, asks, preset, paused, pending, server>> /\ busy' = FALSE
  BY DEF PumpEnd
<1>2. TypeOK' BY <1>1 DEF TypeOK, IInv, Typed, server
<1>3. Keeps /\ Freeing /\ Listed /\ Ended /\ Closing
  BY <1>1 DEF Keeps, Freeing, Listed, Ended, Closing, server
<1>4. Typed' /\ Apart' /\ Theirs' /\ Published' /\ DoneMeansStored'
  BY <1>2, <1>3, SoftStep DEF IInv
<1>5. NothingWaits'
  BY <1>1 DEF NothingWaits, PumpEnd, CanStart, HasWork, FreeSlots, InState, ReadyForChunk,
              Sending, Working, NextChunk, InFlight
<1> QED BY <1>4, <1>5 DEF IInv

-----------------------------------------------------------------------------
(* Dialogs and the user.                                                   *)

LEMMA HeadTyped ==
  ASSUME TypeOK, asks # <<>>
  PROVE  /\ Head(asks).item \in Item /\ Head(asks).after \in BOOLEAN
         /\ Head(asks).slot \in Slot \cup {None} /\ Tail(asks) \in Seq(Ask)
<1>1. Head(asks) \in Ask /\ Tail(asks) \in Seq(Ask) BY DEF TypeOK
<1> QED BY <1>1 DEF Ask

\* Items are cancelled and their transfers cut.
LEMMA AbortKeeps ==
  ASSUME IInv, ~busy, NEW I \in SUBSET Item, NEW W \in SUBSET Slot, AbortItems(I, W),
         asks' \in Seq(Ask), preset' \in Resolutions \cup {None},
         UNCHANGED <<paused, pending, sess, taken, stored>>
  PROVE  IInv'
<1> DEFINE cut == W \cup {w \in Slot : slot[w].item \in I /\ slot[w].at \in {"single", "chunk"}}
           a(i) == [item[i] EXCEPT !.state = "cancelled"]
           b(i) == [a(i) EXCEPT !.session = None]
<1>1. Typed /\ TypeOK /\ cut \in SUBSET Slot BY DEF IInv, Typed
<1>2. /\ item' = [i \in Item |-> IF i \in I THEN b(i) ELSE item[i]]
      /\ slot' = [w \in Slot |-> IF w \in cut THEN Free ELSE slot[w]]
      /\ busy' = (cut # {}) /\ obj' = Kept(obj)
      /\ aborts' = aborts \cup {obj[item[i].session].sid : i \in {j \in I : item[j].session # None}}
  BY DEF AbortItems
<1> HIDE DEF cut
<1>3. ASSUME NEW i \in Item PROVE b(i) \in ItemRec /\ b(i).state = "cancelled" /\ b(i).session = None
  <2>1. item[i] \in ItemRec BY <1>1 DEF TypeOK
  <2>2. a(i) \in ItemRec /\ a(i).state = "cancelled" BY <2>1 DEF ItemRec, States
  <2> HIDE DEF a
  <2> QED BY <2>2 DEF ItemRec
<1> HIDE DEF b
<1>4. /\ item' \in [Item -> ItemRec]
      /\ \A j \in Item : item'[j] = item[j] \/ (item'[j].state = "cancelled" /\ item'[j].session = None)
  BY <1>1, <1>2, <1>3 DEF TypeOK
<1>5. slot' \in [Slot -> SlotRec] /\ Freeing /\ (cut = {} => slot' = slot)
  BY <1>1, <1>2, DefaultsTyped DEF TypeOK, Freeing
<1>6. obj \in [Obj -> ObjRec] /\ \A j \in Item : item'[j].session \in Obj \cup {None}
  BY <1>1, <1>4 DEF TypeOK, ItemRec
<1>7. /\ obj' \in [Obj -> ObjRec]
      /\ \A j \in Item : item'[j].session # None => obj'[item'[j].session] = obj[item'[j].session]
  BY <1>2, <1>6, KeptMoves
<1>8. aborts' \subseteq Sid /\ busy' \in BOOLEAN BY <1>1, <1>2 DEF TypeOK, Typed, Held
<1>9. TypeOK' BY <1>1, <1>4, <1>5, <1>7, <1>8 DEF TypeOK
<1>10. Keeps BY <1>4, <1>7 DEF Keeps
<1>11. Closing /\ Listed /\ Ended BY <1>4 DEF Closing, Listed, Ended
<1>12. cut = {} => NoNewWork
  <2> SUFFICES ASSUME cut = {} PROVE NoNewWork OBVIOUS
  <2>1. slot' = slot BY <1>5
  <2>2. \A j \in Item : item'[j].state \in {"queued", "uploading"} => item'[j] = item[j] BY <1>4
  <2> QED BY <1>7, <2>1, <2>2 DEF NoNewWork
<1> QED BY <1>2, <1>5, <1>9, <1>10, <1>11, <1>12, SoftKeeps

LEMMA StaleAskKeeps == ASSUME IInv, StaleAsk PROVE IInv'
<1> DEFINE a == Head(asks)
<1>1. /\ Typed /\ TypeOK /\ ~busy /\ UNCHANGED <<item, preset, paused, pending, server>>
      /\ asks' = Tail(asks) /\ asks # <<>> /\ obj' = Kept(obj)
      /\ slot' = [w \in Slot |-> IF w = a.slot THEN Free ELSE slot[w]]
      /\ busy' = (a.slot # None)
  BY DEF StaleAsk, FreeDialog, IInv, Typed
<1>2. a.slot \in Slot \cup {None} /\ asks' \in Seq(Ask) BY <1>1, HeadTyped
<1> HIDE DEF a
<1>3. slot' \in [Slot -> SlotRec] /\ Freeing /\ (a.slot = None => slot' = slot)
  BY <1>1, <1>2, DefaultsTyped, NoneIsNothing DEF TypeOK, Freeing
<1>4. obj \in [Obj -> ObjRec] /\ \A j \in Item : item'[j].session \in Obj \cup {None}
  BY <1>1 DEF TypeOK, ItemRec
<1>5. /\ obj' \in [Obj -> ObjRec]
      /\ \A j \in Item : item'[j].session # None => obj'[item'[j].session] = obj[item'[j].session]
  BY <1>1, <1>4, KeptMoves
<1>6. TypeOK' BY <1>1, <1>2, <1>3, <1>5, ServerRests DEF TypeOK
<1>7. Keeps /\ Closing /\ Listed /\ Ended BY <1>1, <1>5, ServerRests DEF Keeps, Listed, Ended
<1>8. a.slot = None => NoNewWork BY <1>1, <1>3, <1>5 DEF NoNewWork
<1> QED BY <1>1, <1>3, <1>6, <1>7, <1>8, SoftKeeps

LEMMA AnswerKeeps == ASSUME IInv, Answer PROVE IInv'
<1> DEFINE a == Head(asks)
           i == a.item
           x == Drops(a)
           r == Requeued(item[i], x)
           o == [r EXCEPT !.over = TRUE]
           s == [item[i] EXCEPT !.state = "skipped"]
           t == [s EXCEPT !.session = None]
<1>1. /\ Typed /\ TypeOK /\ ~busy /\ UNCHANGED <<paused, pending, stored>>
      /\ asks' = Tail(asks) /\ asks # <<>> /\ obj' = Kept(obj)
      /\ slot' = [w \in Slot |-> IF w = a.slot THEN Free ELSE slot[w]]
      /\ aborts' = IF x THEN aborts \cup {obj[item[i].session].sid} ELSE aborts
      /\ preset' \in Resolutions \cup {None}
  BY DEF Answer, FreeDialog, DropSession, IInv, Typed, TypeOK, Resolutions
<1>2. i \in Item /\ a.slot \in Slot \cup {None} /\ asks' \in Seq(Ask) BY <1>1, HeadTyped
<1>3. \/ item' = [item EXCEPT ![i] = o] /\ busy' = TRUE /\ UNCHANGED <<sess, taken>>
      \/ item' = [item EXCEPT ![i] = r] /\ busy' = TRUE /\ NewName(i)
      \/ item' = [item EXCEPT ![i] = t] /\ busy' = (a.slot # None) /\ UNCHANGED <<sess, taken>>
  BY <1>1, <1>2 DEF Answer, TypeOK
<1>4. x => item[i].session # None BY DEF Drops
<1>5. x \in BOOLEAN BY DEF Drops
<1>6. item[i] \in ItemRec BY <1>1, <1>2 DEF TypeOK
<1> HIDE DEF a, x
<1>7. s \in ItemRec /\ s.state = "skipped" BY <1>6 DEF ItemRec, States
<1> HIDE DEF s
<1>8. t \in ItemRec /\ t.state = "skipped" /\ t.session = None BY <1>7 DEF ItemRec
<1> HIDE DEF t
<1>9. /\ r \in ItemRec /\ r.state = "queued" /\ o \in ItemRec /\ o.state = "queued"
      /\ r.session \in {None, item[i].session} /\ o.session = r.session
  BY <1>5, <1>6, RequeuedTyped
<1> HIDE DEF r, o, i
<1>10. PICK new \in {o, r, t} :
         /\ item' = [item EXCEPT ![i] = new]
         /\ new \in ItemRec /\ new.session \in {None, item[i].session}
         /\ new.state \in {"queued", "skipped"}
         /\ busy' = TRUE \/ (new.state = "skipped" /\ busy' = (a.slot # None))
  BY <1>3, <1>8, <1>9
<1>11. item' \in [Item -> ItemRec] /\ item'[i] = new /\ \A j \in Item \ {i} : item'[j] = item[j]
  BY <1>1, <1>2, <1>10 DEF TypeOK
<1>12. /\ sess' \in [Sid -> SessRec] /\ taken' \subseteq Item /\ Closing
  <2>1. NewName(i) \/ UNCHANGED <<sess, taken>> BY <1>3
  <2>2. CASE NewName(i)
    <3>1. NoSess \in SessRec /\ NoSess.item = None BY DefaultsTyped DEF NoSess
    <3> QED BY <1>1, <1>2, <2>2, <3>1 DEF NewName, Closing, TypeOK
  <2>3. CASE UNCHANGED <<sess, taken>> BY <1>1, <2>3 DEF Closing, TypeOK
  <2> QED BY <2>1, <2>2, <2>3
<1>13. slot' \in [Slot -> SlotRec] /\ Freeing /\ (a.slot = None => slot' = slot)
  BY <1>1, <1>2, DefaultsTyped, NoneIsNothing DEF TypeOK, Freeing
<1>14. obj \in [Obj -> ObjRec] /\ \A j \in Item : item'[j].session \in Obj \cup {None}
  BY <1>1, <1>11 DEF TypeOK, ItemRec
<1>15. /\ obj' \in [Obj -> ObjRec]
       /\ \A j \in Item : item'[j].session # None => obj'[item'[j].session] = obj[item'[j].session]
  BY <1>1, <1>14, KeptMoves
<1>16. aborts' \subseteq Sid BY <1>1, <1>2, <1>4 DEF TypeOK, Typed, Held
<1>17. busy' \in BOOLEAN BY <1>10
<1>18. TypeOK' BY <1>1, <1>2, <1>11, <1>12, <1>13, <1>15, <1>16, <1>17 DEF TypeOK
<1>19. Keeps BY <1>10, <1>11, <1>15 DEF Keeps
<1>20. Listed /\ Ended BY <1>1, <1>10, <1>11 DEF Listed, Ended
<1>21. busy' = TRUE \/ NoNewWork
  <2> SUFFICES ASSUME busy' # TRUE PROVE NoNewWork OBVIOUS
  <2>1. new.state = "skipped" /\ a.slot = None BY <1>10
  <2> QED BY <1>1, <1>11, <1>13, <1>15, <2>1 DEF NoNewWork
<1> QED BY <1>1, <1>12, <1>13, <1>18, <1>19, <1>20, <1>21, SoftKeeps

LEMMA AnswerCancelKeeps == ASSUME IInv, AnswerCancel PROVE IInv'
<1> DEFINE I == InState(Cancellable)
           W == {Head(asks).slot} \cap Slot
<1>1. TypeOK /\ ~busy /\ asks # <<>> /\ asks' = Tail(asks) /\ AbortItems(I, W)
      /\ UNCHANGED <<preset, paused, pending, sess, taken, stored>>
  BY DEF AnswerCancel, IInv, Typed
<1>2. I \in SUBSET Item /\ W \in SUBSET Slot BY DEF InState
<1>3. asks' \in Seq(Ask) /\ preset' \in Resolutions \cup {None} BY <1>1, HeadTyped DEF TypeOK
<1> HIDE DEF I, W
<1> QED BY <1>1, <1>2, <1>3, AbortKeeps

LEMMA CancelsKeep ==
  ASSUME IInv, CancelAll \/ \E i \in Item : Cancel(i) PROVE IInv'
<1>1. PICK I \in SUBSET Item :
        /\ ~busy /\ AbortItems(I, {}) /\ preset' \in Resolutions \cup {None} /\ asks' \in Seq(Ask)
        /\ UNCHANGED <<paused, pending, sess, taken, stored>>
  <2>1. CASE CancelAll
    <3>1. InState(Cancellable) \in SUBSET Item BY DEF InState
    <3> QED BY <2>1, <3>1 DEF CancelAll, IInv, Typed, TypeOK
  <2>2. ASSUME NEW i \in Item, Cancel(i)
        PROVE  /\ ~busy /\ AbortItems({i}, {}) /\ preset' \in Resolutions \cup {None}
               /\ asks' \in Seq(Ask) /\ UNCHANGED <<paused, pending, sess, taken, stored>>
    BY <2>2 DEF Cancel, IInv, Typed, TypeOK
  <2>3. \A i \in Item : {i} \in SUBSET Item OBVIOUS
  <2> QED BY <2>1, <2>2, <2>3
<1> QED BY <1>1, AbortKeeps

\* A file that is dropped, with a session of an earlier visit or without.
LEMMA AddKeeps == ASSUME IInv, NEW i \in Item, Add(i) PROVE IInv'
<1> DEFINE q == [NoItem EXCEPT !.state = "queued"]
<1>1. /\ Typed /\ TypeOK /\ ~busy /\ busy' = TRUE /\ slot' = slot /\ preset' = None
      /\ stored' = stored \ {i} /\ Working(i) = {}
      /\ UNCHANGED <<asks, paused, sess, taken, aborts>>
  BY DEF Add, IInv, Typed
<1>2. NoItem \in ItemRec /\ NoItem.session = None BY DefaultsTyped DEF NoItem
<1>3. q \in ItemRec /\ q.state = "queued" /\ q.session = None BY <1>2 DEF ItemRec, States
<1>4. /\ item' \in [Item -> ItemRec] /\ obj' \in [Obj -> ObjRec] /\ Keeps
      /\ pending' \subseteq pending
      /\ item'[i].state = "queued" /\ \A j \in Item \ {i} : item'[j] = item[j]
  <2>1. CASE item' = [item EXCEPT ![i] = q] /\ UNCHANGED <<obj, pending>>
    <3> HIDE DEF q
    <3> QED BY <1>1, <1>3, <2>1 DEF TypeOK, Keeps
  <2>2. CASE \E p \in Match(i, pending) :
               LET o == CHOOSE o \in UnusedObj : TRUE IN
               /\ UnusedObj # {} /\ pending' = pending \ {p}
               /\ item' = [item EXCEPT ![i] = [NoItem EXCEPT !.state = "queued", !.session = o,
                                                             !.over = p.over]]
               /\ obj' = [obj EXCEPT ![o] = [sid |-> p.sid, received |-> p.got]]
    <3> DEFINE o == CHOOSE o \in UnusedObj : TRUE
    <3>1. PICK p \in Match(i, pending) :
               /\ UnusedObj # {} /\ pending' = pending \ {p}
               /\ item' = [item EXCEPT ![i] = [NoItem EXCEPT !.state = "queued", !.session = o,
                                                             !.over = p.over]]
               /\ obj' = [obj EXCEPT ![o] = [sid |-> p.sid, received |-> p.got]]
      BY <2>2
    <3>2. o \in Obj /\ obj[o] = NoObj BY <3>1 DEF UnusedObj
    <3> HIDE DEF o
    <3>3. p \in pending /\ p.item = i BY DEF Match
    <3>4. p.sid \in Sid /\ p.got \subseteq Chunks /\ p.over \in BOOLEAN /\ Means(p.sid, i)
      BY <1>1, <3>3 DEF TypeOK, Pending, IInv, Theirs
    <3> DEFINE a == [q EXCEPT !.session = o]
               b == [a EXCEPT !.over = p.over]
               n == [sid |-> p.sid, received |-> p.got]
    <3>5. item' = [item EXCEPT ![i] = b] BY <3>1
    <3>6. n \in ObjRec /\ n.sid = p.sid BY <3>4 DEF ObjRec
    <3> HIDE DEF q, n
    <3>7. a \in ItemRec /\ a.state = "queued" /\ a.session = o BY <1>3, <3>2 DEF ItemRec
    <3> HIDE DEF a
    <3>8. b \in ItemRec /\ b.state = "queued" /\ b.session = o BY <3>4, <3>7 DEF ItemRec
    <3> HIDE DEF b
    <3>9. /\ item' \in [Item -> ItemRec] /\ item'[i] = b /\ \A j \in Item \ {i} : item'[j] = item[j]
      BY <1>1, <3>5, <3>8 DEF TypeOK
    <3>10. obj' = [obj EXCEPT ![o] = n] BY <3>1 DEF n
    <3>11. /\ obj' \in [Obj -> ObjRec] /\ obj'[o] = n /\ \A x \in Obj \ {o} : obj'[x] = obj[x]
      BY <1>1, <3>2, <3>6, <3>10 DEF TypeOK
    <3>12. ASSUME NEW j \in Item \ {i}, item'[j].session # None
           PROVE  item'[j].session = item[j].session
                  /\ obj'[item[j].session].sid = obj[item[j].session].sid
      <4>1. item[j].session \in Obj /\ obj[item[j].session].sid \in Sid
        BY <1>1, <3>9, <3>12 DEF Typed, Held, TypeOK, ItemRec
      <4>2. item[j].session # o BY <3>2, <4>1, NoneIsNothing DEF NoObj
      <4> QED BY <3>9, <3>11, <4>1, <4>2
    <3>13. Keeps BY <3>4, <3>6, <3>8, <3>9, <3>11, <3>12 DEF Keeps
    <3> QED BY <3>1, <3>8, <3>9, <3>11, <3>13
  <2> QED BY <2>1, <2>2 DEF Add
<1>5. TypeOK' BY <1>1, <1>4 DEF TypeOK
<1>6. Freeing /\ Closing /\ Listed BY <1>1, <1>4 DEF Freeing, Closing, Listed
<1>7. Ended BY <1>1, <1>4 DEF Ended, IInv, DoneMeansStored, InState
<1> QED BY <1>1, <1>4, <1>5, <1>6, <1>7, SoftKeeps

LEMMA RetryKeeps == ASSUME IInv, RetryFailed PROVE IInv'
<1> DEFINE r(i) == Requeued(item[i], TRUE)
<1>1. /\ Typed /\ TypeOK /\ busy' = TRUE /\ slot' = slot /\ obj' = Kept(obj)
      /\ item' = [i \in Item |-> IF item[i].state \in {"failed", "cancelled"} THEN r(i) ELSE item[i]]
      /\ UNCHANGED <<asks, preset, paused, pending, server>>
  BY DEF RetryFailed, IInv, Typed
<1>2. ASSUME NEW i \in Item PROVE r(i) \in ItemRec /\ r(i).state = "queued" /\ r(i).session = None
  <2>1. item[i] \in ItemRec BY <1>1 DEF TypeOK
  <2> QED BY <2>1, RequeuedTyped
<1> HIDE DEF r
<1>3. /\ item' \in [Item -> ItemRec]
      /\ \A j \in Item : item'[j] = item[j] \/ (item'[j].state = "queued" /\ item'[j].session = None)
  BY <1>1, <1>2 DEF TypeOK
<1>4. obj \in [Obj -> ObjRec] /\ \A j \in Item : item'[j].session \in Obj \cup {None}
  BY <1>1, <1>3 DEF TypeOK, ItemRec
<1>5. /\ obj' \in [Obj -> ObjRec]
      /\ \A j \in Item : item'[j].session # None => obj'[item'[j].session] = obj[item'[j].session]
  BY <1>1, <1>4, KeptMoves
<1>6. TypeOK' BY <1>1, <1>3, <1>5, ServerRests DEF TypeOK
<1>7. Keeps BY <1>3, <1>5 DEF Keeps
<1>8. Freeing /\ Closing /\ Listed /\ Ended
  BY <1>1, <1>3, ServerRests DEF Freeing, Listed, Ended
<1> QED BY <1>1, <1>6, <1>7, <1>8, SoftKeeps

LEMMA ClearKeeps == ASSUME IInv, ClearDone PROVE IInv'
<1>1. /\ Typed /\ TypeOK /\ ~busy /\ busy' = busy /\ slot' = slot /\ obj' = Kept(obj)
      /\ item' = [i \in Item |-> IF item[i].state \in {"done", "skipped", "cancelled"}
                                 THEN NoItem ELSE item[i]]
      /\ UNCHANGED <<asks, preset, paused, pending, server>>
  BY DEF ClearDone, IInv, Typed
<1>2. NoItem \in ItemRec /\ NoItem.state = "absent" /\ NoItem.session = None
  BY DefaultsTyped DEF NoItem
<1>3. /\ item' \in [Item -> ItemRec]
      /\ \A j \in Item : item'[j] = item[j] \/ item'[j] = NoItem
  BY <1>1, <1>2 DEF TypeOK
<1>4. obj \in [Obj -> ObjRec] /\ \A j \in Item : item'[j].session \in Obj \cup {None}
  BY <1>1, <1>3 DEF TypeOK, ItemRec
<1>5. /\ obj' \in [Obj -> ObjRec]
      /\ \A j \in Item : item'[j].session # None => obj'[item'[j].session] = obj[item'[j].session]
  BY <1>1, <1>4, KeptMoves
<1>6. TypeOK' BY <1>1, <1>3, <1>5, ServerRests DEF TypeOK
<1>7. Keeps BY <1>2, <1>3, <1>5 DEF Keeps
<1>8. Freeing /\ Closing /\ Listed /\ Ended
  BY <1>1, <1>2, <1>3, ServerRests DEF Freeing, Listed, Ended
<1>9. NoNewWork
  <2>1. \A j \in Item : item'[j].state \in {"queued", "uploading"} => item'[j] = item[j]
    BY <1>2, <1>3
  <2> QED BY <1>1, <1>5, <2>1 DEF NoNewWork
<1> QED BY <1>1, <1>6, <1>7, <1>8, <1>9, SoftKeeps

\* What changes nothing the pump looks at.
LEMMA RestKeeps ==
  ASSUME IInv, TypeOK', UNCHANGED <<item, obj, slot, busy, stored>>, paused => paused', Closing, Listed
  PROVE  IInv'
<1>1. Keeps /\ Freeing /\ Ended BY DEF Keeps, Freeing, Ended
<1>2. busy' = TRUE \/ (~busy /\ NoNewWork) BY DEF NoNewWork, IInv, Typed, TypeOK
<1> QED BY <1>1, <1>2, SoftKeeps

LEMMA SwitchesKeep ==
  ASSUME IInv, Pause \/ LoadPending \/ DiscardPending
  PROVE  IInv'
<1>1. TypeOK /\ Theirs /\ UNCHANGED <<item, obj, slot, busy, stored, asks, preset, sess, taken>>
      /\ (paused => paused')
  BY DEF Pause, LoadPending, DiscardPending, IInv, Typed, server
<1>2. /\ pending' \in {pending, Listing, {}}
      /\ paused' \in BOOLEAN
      /\ aborts' \in {aborts, aborts \cup {p.sid : p \in pending}}
  BY <1>1 DEF Pause, LoadPending, DiscardPending, TypeOK, server
<1>3. pending' \subseteq Pending /\ Listed BY <1>1, <1>2, ListsMean DEF Listed
<1>4. aborts' \subseteq Sid BY <1>1, <1>2 DEF TypeOK, Pending
<1>5. TypeOK' BY <1>1, <1>2, <1>3, <1>4 DEF TypeOK
<1>6. Closing BY <1>1 DEF Closing
<1> QED BY <1>1, <1>3, <1>5, <1>6, RestKeeps

LEMMA TimersKeep ==
  ASSUME IInv, Resume \/ \E i \in Item : BackoffOver(i)
  PROVE  IInv'
<1>1. TypeOK /\ busy' = TRUE /\ UNCHANGED <<obj, slot, asks, preset, pending, server>>
  BY DEF Resume, BackoffOver, IInv, Typed
<1>2. /\ item' \in [Item -> ItemRec] /\ paused' \in BOOLEAN
      /\ \A j \in Item : item'[j].session = item[j].session /\ item'[j].state = item[j].state
  <2>1. CASE Resume BY <1>1, <2>1 DEF Resume, TypeOK
  <2>2. ASSUME NEW i \in Item, BackoffOver(i)
        PROVE  /\ item' \in [Item -> ItemRec] /\ paused' \in BOOLEAN
               /\ \A j \in Item : item'[j].session = item[j].session /\ item'[j].state = item[j].state
    <3> DEFINE b == [item[i] EXCEPT !.backoff = FALSE]
    <3>1. item[i] \in ItemRec BY <1>1 DEF TypeOK
    <3>2. b \in ItemRec /\ b.session = item[i].session /\ b.state = item[i].state
      BY <3>1 DEF ItemRec
    <3>3. item' = [item EXCEPT ![i] = b] /\ paused' = paused BY <2>2 DEF BackoffOver
    <3> HIDE DEF b
    <3> QED BY <1>1, <3>2, <3>3 DEF TypeOK
  <2> QED BY <2>1, <2>2
<1>3. TypeOK' BY <1>1, <1>2, ServerRests DEF TypeOK
<1>4. Keeps /\ Freeing /\ Closing /\ Listed /\ Ended
  BY <1>1, <1>2, ServerRests DEF Keeps, Freeing, Listed, Ended
<1> QED BY <1>1, <1>3, <1>4, SoftKeeps

LEMMA ReloadKeeps == ASSUME IInv, Reload PROVE IInv'
<1>1. /\ \A i \in Item : item'[i] = NoItem
      /\ \A w \in Slot : slot'[w] = Free
      /\ busy' = FALSE /\ pending' = {} /\ UNCHANGED server
  BY DEF Reload
<1>2. NoItem.state = "absent" /\ NoItem.session = None BY DEF NoItem
<1>3. TypeOK'
  <2>1. TypeOK BY DEF IInv, Typed
  <2>2. /\ item' \in [Item -> ItemRec] /\ obj' \in [Obj -> ObjRec] /\ slot' \in [Slot -> SlotRec]
        /\ preset' = None /\ paused' = FALSE
    BY DefaultsTyped DEF Reload
  <2>3. asks' = <<>> /\ <<>> \in Seq(Ask) BY DEF Reload
  <2> QED BY <1>1, <2>1, <2>2, <2>3, ServerRests DEF TypeOK
<1>4. Keeps /\ Freeing /\ Closing /\ Listed /\ Ended
  BY <1>1, <1>2, ServerRests DEF Keeps, Freeing, Listed, Ended, Closing, server
<1>5. NothingWaits' BY <1>1, <1>2 DEF NothingWaits, HasWork, InState, ReadyForChunk
<1> QED BY <1>3, <1>4, <1>5, SoftStep DEF IInv

-----------------------------------------------------------------------------
(* The server.                                                             *)

LEMMA ServerMovesKeep ==
  ASSUME IInv, (\E s \in Sid : AbortArrives(s) \/ Vanish(s)) \/ \E i \in Item : Appear(i)
  PROVE  IInv'
<1>1. TypeOK /\ UNCHANGED tab /\ stored' = stored BY DEF AbortArrives, Vanish, Appear, IInv, Typed
<1>2. NoSess \in SessRec /\ NoSess.item = None BY DefaultsTyped DEF NoSess
<1>3. Closing /\ sess' \in [Sid -> SessRec] /\ taken' \subseteq Item /\ aborts' \subseteq Sid
  <2>1. ASSUME NEW s \in Sid, AbortArrives(s)
        PROVE  Closing /\ sess' \in [Sid -> SessRec] /\ taken' \subseteq Item /\ aborts' \subseteq Sid
    BY <1>1, <1>2, <2>1 DEF AbortArrives, Close, Closing, TypeOK
  <2>2. ASSUME NEW s \in Sid, Vanish(s)
        PROVE  Closing /\ sess' \in [Sid -> SessRec] /\ taken' \subseteq Item /\ aborts' \subseteq Sid
    <3>1. PICK r \in {NoSess, [sess[s] EXCEPT !.part = FALSE]}
                     \cup {[sess[s] EXCEPT !.got = got] : got \in SUBSET sess[s].got} :
            sess' = [sess EXCEPT ![s] = r]
      BY <2>2 DEF Vanish, Close
    <3>2. sess[s] \in SessRec BY <1>1 DEF TypeOK
    <3>3. r \in SessRec /\ r.item \in {sess[s].item, None} BY <1>2, <3>1, <3>2 DEF SessRec
    <3> QED BY <1>1, <2>2, <3>1, <3>3 DEF Vanish, Closing, TypeOK
  <2>3. ASSUME NEW i \in Item, Appear(i)
        PROVE  Closing /\ sess' \in [Sid -> SessRec] /\ taken' \subseteq Item /\ aborts' \subseteq Sid
    BY <1>1, <2>3 DEF Appear, Closing, TypeOK
  <2> QED BY <2>1, <2>2, <2>3
<1>4. TypeOK' /\ Listed BY <1>1, <1>3 DEF TypeOK, Listed, tab
<1> QED BY <1>1, <1>3, <1>4, RestKeeps DEF tab

\* What an answer does to the slot that waits for it.
Replied(w, r) ==
  /\ slot' = [slot EXCEPT ![w] = r] /\ r \in SlotRec
  /\ r.at = slot[w].at /\ r.item = slot[w].item /\ r.chunk = slot[w].chunk /\ r.obj = slot[w].obj

LEMMA ReplyMoves ==
  ASSUME TypeOK, NEW w \in Slot, NEW a \in Answers, Reply(w, a)
  PROVE  \E r : Replied(w, r) /\ r.answer = a /\ r.sid = slot[w].sid
<1> DEFINE r == [slot[w] EXCEPT !.answer = a]
<1>1. slot[w] \in SlotRec BY DEF TypeOK
<1>2. r \in SlotRec /\ r.at = slot[w].at /\ r.item = slot[w].item /\ r.chunk = slot[w].chunk
      /\ r.obj = slot[w].obj /\ r.answer = a /\ r.sid = slot[w].sid
  BY <1>1 DEF SlotRec
<1>3. slot' = [slot EXCEPT ![w] = r] BY DEF Reply
<1> HIDE DEF r
<1> QED BY <1>2, <1>3 DEF Replied

\* An answer keeps the invariant if the sessions of others stay what they were,
\* and the answer names a session of its item or speaks of what was published.
LEMMA ReplyKeeps ==
  ASSUME IInv, NEW w \in Slot, NEW r, Replied(w, r),
         UNCHANGED <<item, obj, asks, preset, paused, pending, busy, aborts>>,
         sess' \in [Sid -> SessRec], taken' \subseteq Item, stored' \subseteq Item, stored \subseteq stored',
         slot[w].at \in {"chunk", "complete"} => r.sid = slot[w].sid,
         slot[w].at = "create" /\ r.answer = "ok" => r.sid \in Sid /\ sess'[r.sid].item = r.item,
         slot[w].at \in {"single", "complete"} /\ r.answer = "ok" => r.item \in stored',
         \A s \in Sid : s \in UnusedSid \/ sess'[s].item = sess[s].item \/ sess'[s].item = None
  PROVE  IInv'
<1>1. Typed /\ TypeOK BY DEF IInv, Typed
<1>2. slot' \in [Slot -> SlotRec] /\ slot'[w] = r /\ \A v \in Slot \ {w} : slot'[v] = slot[v]
  BY <1>1 DEF Replied, TypeOK
<1>3. TypeOK' BY <1>1, <1>2 DEF TypeOK
<1>4. Slots' BY <1>1, <1>2 DEF Slots, Typed, Replied
<1>5. Held' BY <1>1 DEF Held, Typed
<1>6. Apart' BY <1>2 DEF Apart, IInv, Replied
<1>7. ASSUME NEW s \in Sid, NEW i \in Item, Means(s, i), s \notin UnusedSid
      PROVE  Means(s, i)'
  BY <1>7 DEF Means, Open
<1>8. ASSUME NEW i \in Item, item[i].session # None
      PROVE  Means(obj[item[i].session].sid, i)'
  <2>1. obj[item[i].session].sid \in Sid /\ item[i].session \in Obj /\ Means(obj[item[i].session].sid, i)
    BY <1>1, <1>8 DEF Typed, Held, TypeOK, ItemRec, IInv, Theirs
  <2>2. obj[item[i].session].sid \notin UnusedSid BY <2>1 DEF UnusedSid
  <2> QED BY <1>7, <2>1, <2>2 DEF Means, Open
<1>9. ASSUME NEW p \in pending PROVE Means(p.sid, p.item)'
  <2>1. p.sid \in Sid /\ p.item \in Item /\ Means(p.sid, p.item)
    BY <1>1 DEF TypeOK, Pending, IInv, Theirs
  <2>2. p.sid \notin UnusedSid BY DEF UnusedSid
  <2> QED BY <1>7, <2>1, <2>2
<1>10. ASSUME NEW v \in Slot, slot'[v] = slot[v], Naming(v) PROVE Means(slot[v].sid, slot[v].item)'
  <2>1. slot[v].sid \in Sid /\ slot[v].item \in Item /\ Means(slot[v].sid, slot[v].item)
    BY <1>1, <1>10 DEF Typed, Slots, Naming, IInv, Theirs
  <2>2. slot[v].sid \notin UnusedSid BY DEF UnusedSid
  <2> QED BY <1>7, <1>10, <2>1, <2>2 DEF Means, Open
<1>11. ASSUME Naming(w)' PROVE Means(slot[w].sid, slot[w].item)'
  <2>1. CASE slot[w].at = "complete"
    <3>1. slot[w].sid \in Sid /\ slot[w].item \in Item /\ Means(slot[w].sid, slot[w].item)
      BY <1>1, <2>1 DEF Typed, Slots, Naming, IInv, Theirs
    <3>2. slot[w].sid \notin UnusedSid BY DEF UnusedSid
    <3> QED BY <1>2, <1>7, <2>1, <3>1, <3>2 DEF Means, Open, Replied
  <2>2. CASE slot[w].at # "complete"
    BY <1>2, <1>11, <2>2 DEF Naming, Means, Open, Replied
  <2> QED BY <2>1, <2>2
<1>12. Theirs'
  <2>1. \A v \in Slot : Naming(v)' => Means(slot[v].sid, slot[v].item)'
    BY <1>2, <1>10, <1>11 DEF Naming
  <2> QED BY <1>8, <1>9, <2>1 DEF Theirs
<1>13. Published' BY <1>2 DEF Published, Delivered, IInv, Replied
<1>14. DoneMeansStored' BY DEF DoneMeansStored, InState, IInv
<1>15. NothingWaits'
  <2>1. CASE busy BY <2>1 DEF NothingWaits
  <2>2. CASE ~busy
    <3>1. NoNewWork BY <1>2 DEF NoNewWork, Replied
    <3> QED BY <1>1, <1>3, <2>2, <3>1, StillNoWork DEF IInv
  <2> QED BY <2>1, <2>2
<1> QED BY <1>3, <1>4, <1>5, <1>6, <1>12, <1>13, <1>14, <1>15 DEF IInv, Typed

LEMMA SingleServed == ASSUME IInv, NEW w \in Slot, Serve(w), ServeSingle(w) PROVE IInv'
<1>1. /\ TypeOK /\ slot[w].at = "single" /\ slot[w].item \in Item /\ sess' = sess
      /\ UNCHANGED <<item, obj, asks, preset, paused, pending, busy, aborts>>
  BY DEF IInv, Typed, Slots, Serve, ServeSingle, Refuse
<1>2. PICK a \in Answers :
        /\ Reply(w, a) /\ (a = "ok" => slot[w].item \in stored')
        /\ taken' \subseteq Item /\ stored' \subseteq Item /\ stored \subseteq stored'
  BY <1>1 DEF ServeSingle, Refuse, Publish, Done, Answers, TypeOK
<1>3. PICK r : Replied(w, r) /\ r.answer = a BY <1>1, <1>2, ReplyMoves
<1> QED BY <1>1, <1>2, <1>3, ReplyKeeps DEF Replied, TypeOK

LEMMA CreateServed == ASSUME IInv, NEW w \in Slot, Serve(w), ServeCreate(w) PROVE IInv'
<1> DEFINE i == slot[w].item
           s == CHOOSE s \in UnusedSid : TRUE
           new == [item |-> i, over |-> item[i].over, got |-> {}, part |-> TRUE]
<1>1. /\ TypeOK /\ slot[w].at = "create" /\ i \in Item /\ taken' = taken /\ stored' = stored
      /\ UNCHANGED <<item, obj, asks, preset, paused, pending, busy, aborts>>
  BY DEF IInv, Typed, Slots, Serve, ServeCreate, Refuse
<1>2. CASE Refuse(w, "exists") \/ Refuse(w, "busy")
  <2>1. PICK a \in {"exists", "busy"} : Reply(w, a) /\ sess' = sess BY <1>2 DEF Refuse
  <2>2. PICK r : Replied(w, r) /\ r.answer = a BY <1>1, <2>1, ReplyMoves DEF Answers
  <2> QED BY <1>1, <2>1, <2>2, ReplyKeeps DEF TypeOK
<1>3. CASE NewSession(w)
  <2>1. /\ s \in UnusedSid /\ s \in Sid /\ sess' = [sess EXCEPT ![s] = new]
        /\ \/ slot' = [slot EXCEPT ![w].answer = "ok", ![w].sid = s]
           \/ Reply(w, "retry")
    BY <1>3 DEF NewSession, UnusedSid
  <2>2. new \in SessRec /\ new.item = i BY <1>1 DEF SessRec, TypeOK, ItemRec
  <2> HIDE DEF s, new
  <2>3. sess' \in [Sid -> SessRec] /\ sess'[s].item = i /\ \A x \in Sid \ {s} : sess'[x] = sess[x]
    BY <1>1, <2>1, <2>2 DEF TypeOK
  <2>4. CASE Reply(w, "retry")
    <3>1. PICK r : Replied(w, r) /\ r.answer = "retry" BY <1>1, <2>4, ReplyMoves DEF Answers
    <3> QED BY <1>1, <2>1, <2>3, <3>1, ReplyKeeps DEF TypeOK
  <2>5. CASE slot' = [slot EXCEPT ![w].answer = "ok", ![w].sid = s]
    <3> DEFINE a == [slot[w] EXCEPT !.answer = "ok"]
               r == [a EXCEPT !.sid = s]
    <3>1. slot[w] \in SlotRec BY <1>1 DEF TypeOK
    <3>2. a \in SlotRec /\ a.at = "create" /\ a.item = i /\ a.chunk = slot[w].chunk
          /\ a.obj = slot[w].obj /\ a.answer = "ok"
      BY <1>1, <3>1 DEF SlotRec, Answers
    <3>3. slot' = [slot EXCEPT ![w] = r] BY <1>1, <2>5 DEF TypeOK
    <3> HIDE DEF a
    <3>4. r \in SlotRec /\ r.at = "create" /\ r.item = i /\ r.chunk = slot[w].chunk
          /\ r.obj = slot[w].obj /\ r.answer = "ok" /\ r.sid = s
      BY <2>1, <3>2 DEF SlotRec
    <3> HIDE DEF r
    <3>5. Replied(w, r) BY <1>1, <3>3, <3>4 DEF Replied
    <3> QED BY <1>1, <2>1, <2>3, <3>4, <3>5, ReplyKeeps DEF TypeOK
  <2> QED BY <2>1, <2>4, <2>5
<1> QED BY <1>2, <1>3 DEF ServeCreate

LEMMA ChunkServed == ASSUME IInv, NEW w \in Slot, Serve(w), ServeChunk(w) PROVE IInv'
<1> DEFINE s == slot[w].sid
           got == sess[s].got \cup {slot[w].chunk}
           new == [sess[s] EXCEPT !.got = got]
<1>1. /\ TypeOK /\ slot[w].at = "chunk" /\ s \in Sid /\ slot[w].chunk \in Chunks
      /\ taken' = taken /\ stored' = stored
      /\ UNCHANGED <<item, obj, asks, preset, paused, pending, busy, aborts>>
  BY DEF IInv, Typed, Slots, Serve, ServeChunk, Refuse
<1>2. PICK a \in Answers : Reply(w, a) /\ sess' \in {sess, [sess EXCEPT ![s] = new]}
  BY <1>1 DEF ServeChunk, Refuse, Done, Answers, TypeOK
<1>3. PICK r : Replied(w, r) /\ r.answer = a /\ r.sid = slot[w].sid BY <1>1, <1>2, ReplyMoves
<1>4. sess[s] \in SessRec BY <1>1 DEF TypeOK
<1>5. got \in SUBSET Chunks BY <1>1, <1>4 DEF SessRec
<1> HIDE DEF s, got
<1>6. new \in SessRec /\ new.item = sess[s].item BY <1>4, <1>5 DEF SessRec
<1> HIDE DEF new
<1>7. sess' \in [Sid -> SessRec] /\ \A x \in Sid : sess'[x].item = sess[x].item
  BY <1>1, <1>2, <1>6 DEF TypeOK
<1> QED BY <1>1, <1>3, <1>7, ReplyKeeps DEF TypeOK

LEMMA CompleteServed == ASSUME IInv, NEW w \in Slot, Serve(w), ServeComplete(w) PROVE IInv'
<1> DEFINE s == slot[w].sid
           i == sess[s].item
           rest == Chunks \ sess[s].got
<1>1. /\ TypeOK /\ slot[w].at = "complete" /\ s \in Sid /\ slot[w].item \in Item
      /\ Open(s) => i = slot[w].item
      /\ UNCHANGED <<item, obj, asks, preset, paused, pending, busy, aborts>>
  BY DEF IInv, Typed, Slots, Serve, ServeComplete, Theirs, Naming, Means
<1>2. CASE \E a \in {"gone", "exists"} : Refuse(w, a)
  <2>1. PICK a \in {"gone", "exists"} : Reply(w, a) /\ UNCHANGED <<sess, taken, stored>>
    BY <1>2 DEF Refuse
  <2>2. PICK r : Replied(w, r) /\ r.answer = a /\ r.sid = slot[w].sid
    BY <1>1, <2>1, ReplyMoves DEF Answers
  <2> QED BY <1>1, <2>1, <2>2, ReplyKeeps DEF TypeOK
<1>3. CASE slot' = [slot EXCEPT ![w].answer = "missing", ![w].missing = rest]
           /\ UNCHANGED <<sess, taken, stored>>
  <2> DEFINE a == [slot[w] EXCEPT !.answer = "missing"]
             r == [a EXCEPT !.missing = rest]
  <2>1. slot[w] \in SlotRec /\ rest \in SUBSET Chunks BY <1>1 DEF TypeOK
  <2>2. slot' = [slot EXCEPT ![w] = r] BY <1>1, <1>3 DEF TypeOK
  <2> HIDE DEF rest
  <2>3. a \in SlotRec /\ a.at = "complete" /\ a.item = slot[w].item /\ a.chunk = slot[w].chunk
        /\ a.obj = slot[w].obj /\ a.answer = "missing" /\ a.sid = slot[w].sid
    BY <1>1, <2>1 DEF SlotRec, Answers
  <2> HIDE DEF a
  <2>4. r \in SlotRec /\ r.at = "complete" /\ r.item = slot[w].item /\ r.chunk = slot[w].chunk
        /\ r.obj = slot[w].obj /\ r.answer = "missing" /\ r.sid = slot[w].sid
    BY <2>1, <2>3 DEF SlotRec
  <2> HIDE DEF r
  <2>5. Replied(w, r) BY <1>1, <2>2, <2>4 DEF Replied
  <2> QED BY <1>1, <1>3, <2>4, <2>5, ReplyKeeps DEF TypeOK
<1>4. CASE Open(s) /\ Publish(i) /\ Close(s) /\ Done(w)
  <2>1. PICK a \in {"ok", "retry"} : Reply(w, a) BY <1>4 DEF Done
  <2>2. PICK r : Replied(w, r) /\ r.answer = a /\ r.sid = slot[w].sid
    BY <1>1, <2>1, ReplyMoves DEF Answers
  <2>3. i = slot[w].item /\ i \in Item BY <1>1, <1>4
  <2>4. taken' \subseteq Item /\ stored' \subseteq Item /\ stored \subseteq stored' /\ i \in stored'
    BY <1>1, <1>4, <2>3 DEF Publish, TypeOK
  <2>5. NoSess \in SessRec /\ NoSess.item = None BY DefaultsTyped DEF NoSess
  <2>6. sess' \in [Sid -> SessRec]
        /\ \A x \in Sid : sess'[x].item = sess[x].item \/ sess'[x].item = None
    BY <1>1, <1>4, <2>5 DEF Close, TypeOK
  <2> QED BY <1>1, <2>2, <2>3, <2>4, <2>6, ReplyKeeps DEF Replied
<1> QED BY <1>2, <1>3, <1>4 DEF ServeComplete

LEMMA ServeKeeps == ASSUME IInv, NEW w \in Slot, Serve(w) PROVE IInv'
<1>1. CASE ServeFailure(w)
  <2>1. /\ TypeOK /\ UNCHANGED <<item, obj, asks, preset, paused, pending, busy, aborts>>
    BY DEF IInv, Typed, Serve
  <2>2. PICK a \in {"retry", "fatal", "space"} : Reply(w, a) /\ UNCHANGED <<sess, taken, stored>>
    BY <1>1 DEF ServeFailure, Refuse
  <2>3. PICK r : Replied(w, r) /\ r.answer = a /\ r.sid = slot[w].sid
    BY <2>1, <2>2, ReplyMoves DEF Answers
  <2> QED BY <2>1, <2>2, <2>3, ReplyKeeps DEF TypeOK
<1> QED BY <1>1, SingleServed, CreateServed, ChunkServed, CompleteServed DEF Serve

-----------------------------------------------------------------------------
(* The theorems.                                                           *)

LEMMA InitIInv == Init => IInv
<1> SUFFICES ASSUME Init PROVE IInv OBVIOUS
<1>1. /\ \A i \in Item : item[i].state = "absent" /\ item[i].session = None
      /\ \A w \in Slot : slot[w].at = "free"
      /\ pending = {}
  BY DEF Init, NoItem, Free
<1>2. TypeOK
  <2>1. /\ item \in [Item -> ItemRec] /\ obj \in [Obj -> ObjRec] /\ slot \in [Slot -> SlotRec]
        /\ sess \in [Sid -> SessRec]
    BY DefaultsTyped DEF Init
  <2>2. asks = <<>> /\ <<>> \in Seq(Ask) BY DEF Init
  <2> QED BY <2>1, <2>2 DEF Init, TypeOK
<1>3. Slots /\ Held /\ Apart /\ Published BY <1>1 DEF Slots, Held, Apart, Published, Delivered
<1>4. Theirs BY <1>1 DEF Theirs, Naming
<1>5. DoneMeansStored BY <1>1 DEF DoneMeansStored, InState
<1>6. NothingWaits BY <1>1 DEF NothingWaits, HasWork, InState, ReadyForChunk
<1> QED BY <1>2, <1>3, <1>4, <1>5, <1>6 DEF IInv, Typed

LEMMA IInvKept == IInv /\ [Next]_vars => IInv'
<1> SUFFICES ASSUME IInv, [Next]_vars PROVE IInv' OBVIOUS
<1>1. CASE UNCHANGED vars
  <2>1. UNCHANGED tab /\ UNCHANGED server BY <1>1 DEF vars
  <2>2. TypeOK' BY <2>1 DEF IInv, Typed, TypeOK, tab, server
  <2>3. Closing /\ Listed BY <2>1 DEF Closing, Listed, tab, server
  <2> QED BY <2>1, <2>2, <2>3, RestKeeps DEF tab, server
<1>2. CASE Pump BY <1>2, PumpChunkKeeps, PumpQueuedKeeps, PumpEndKeeps DEF Pump
<1>3. CASE StaleAsk \/ Answer \/ AnswerCancel
  BY <1>3, StaleAskKeeps, AnswerKeeps, AnswerCancelKeeps
<1>4. CASE User
  BY <1>4, AddKeeps, CancelsKeep, RetryKeeps, ClearKeeps, SwitchesKeep, TimersKeep, ReloadKeeps
     DEF User
<1>5. ASSUME NEW w \in Slot, Continue(w) PROVE IInv'
  BY <1>5, SingleKeeps, CreateKeeps, ListKeeps, ChunkKeeps, CompleteKeeps DEF Continue
<1>6. ASSUME NEW w \in Slot, Serve(w) PROVE IInv' BY <1>6, ServeKeeps
<1>7. ASSUME NEW i \in Item, BackoffOver(i) \/ Appear(i) PROVE IInv'
  BY <1>7, TimersKeep, ServerMovesKeep
<1>8. ASSUME NEW s \in Sid, AbortArrives(s) \/ Vanish(s) PROVE IInv'
  BY <1>8, ServerMovesKeep
<1> QED BY <1>1, <1>2, <1>3, <1>4, <1>5, <1>6, <1>7, <1>8 DEF Next

LEMMA Invariant == Spec => []IInv
  BY InitIInv, IInvKept, PTL DEF Spec

\* Between two events of the tab no free slot waits while there is work, for any
\* number of files and slots (NoLostWakeup; pump in manager.ts:237).
THEOREM WorkNeverWaits == Spec => []NoLostWakeup
<1>1. IInv => NoLostWakeup
  BY DEF IInv, NothingWaits, NoLostWakeup, HasWork, HasDueWork, InState
<1> QED BY <1>1, Invariant, PTL

\* No two requests carry one chunk of a file or complete one file, and the queue
\* keeps its types (NeverTwiceInFlight; inflightChunks, inflight in manager.ts).
THEOREM ChunksFlyOnce == Spec => []NeverTwiceInFlight
<1>1. IInv => NeverTwiceInFlight BY DEF IInv, Typed, Apart, NeverTwiceInFlight
<1> QED BY <1>1, Invariant, PTL

\* What the tab shows as done was published since it was dropped, whatever gets
\* lost, is cancelled or vanishes (DoneMeansStored).
THEOREM DoneIsStored == Spec => []DoneMeansStored
<1>1. IInv => DoneMeansStored BY DEF IInv
<1> QED BY <1>1, Invariant, PTL

-----------------------------------------------------------------------------
(* The name index.  A path is calm while nothing but the scan touches it   *)
(* or its row. The scan met a calm path as it is, or something on its      *)
(* stack leads there: the disk is a tree, so a path whose folders were all *)
(* there when the scan started is found below one that is still to visit.  *)
(* Hence the sweep forgets no calm path and records none that is not there.*)

-----------------------------------------------------------------------------
(* Paths.                                                                  *)

LEMMA PathIs ==
  ASSUME NEW p \in Paths
  PROVE  /\ p \in Seq(Names) /\ p # <<>> /\ Len(p) \in Nat /\ Len(p) > 0
         /\ \A i \in 1..Len(p) : p[i] \in Names
<1>1. p \in Seq(Names) /\ p # <<>> BY PathsAssumption
<1>2. Len(p) \in Nat /\ (Len(p) = 0 => p = <<>>) BY <1>1, EmptySeq, LenProperties
<1> QED BY <1>1, <1>2, ElementOfSeq

\* The first n names of a path.
LEMMA FirstNames ==
  ASSUME NEW s \in Seq(Names), NEW n \in 0..Len(s)
  PROVE  /\ SubSeq(s, 1, n) \in Seq(Names) /\ Len(SubSeq(s, 1, n)) = n
         /\ \A i \in 1..n : SubSeq(s, 1, n)[i] = s[i]
<1>1. n \in Int /\ n >= 0 /\ Len(s) \in Nat /\ 1 \in Int BY LenProperties
<1>2. \A i \in 1..n : s[i] \in Names BY <1>1, ElementOfSeq
<1> DEFINE f == SubSeq(s, 1, n)
<1>3. /\ f \in Seq(Names) /\ Len(f) = IF 1 <= n THEN n - 1 + 1 ELSE 0
      /\ \A i \in 1..n - 1 + 1 : f[i] = s[1 + i - 1]
  BY <1>1, <1>2, SubSeqProperties
<1> HIDE DEF f
<1>4. \A i \in 1..n : i \in 1..n - 1 + 1 /\ 1 + i - 1 = i BY <1>1
<1>5. Len(f) = n BY <1>1, <1>3
<1> QED BY <1>3, <1>4, <1>5 DEF f

\* A prefix, element by element.
LEMMA PrefixAt ==
  ASSUME NEW s \in Seq(Names), NEW t \in Seq(Names)
  PROVE  IsPrefix(s, t) <=> Len(s) <= Len(t) /\ \A i \in 1..Len(s) : s[i] = t[i]
<1>0. Len(s) \in Nat /\ Len(t) \in Nat BY LenProperties
<1> SUFFICES ASSUME Len(s) <= Len(t)
             PROVE  SubSeq(s, 1, Len(s)) = SubSeq(t, 1, Len(s)) <=> \A i \in 1..Len(s) : s[i] = t[i]
  BY DEF IsPrefix
<1>1. SubSeq(s, 1, Len(s)) = s BY SubSeqFull
<1> DEFINE u == SubSeq(t, 1, Len(s))
<1>2. u \in Seq(Names) /\ Len(u) = Len(s) /\ \A i \in 1..Len(s) : u[i] = t[i]
  BY <1>0, FirstNames
<1> HIDE DEF u
<1>4. s = u <=> \A i \in 1..Len(s) : s[i] = u[i] BY <1>2, SeqEqual
<1> QED BY <1>1, <1>2, <1>4 DEF u

\* The folder of an item is a path, or the base folder.
LEMMA FolderIs ==
  ASSUME NEW p \in Paths
  PROVE  /\ Front(p) \in Seq(Names) /\ Len(Front(p)) = Len(p) - 1
         /\ \A i \in 1..Len(p) - 1 : Front(p)[i] = p[i]
         /\ Front(p) # <<>> <=> Len(p) > 1
         /\ Front(p) # <<>> => Front(p) \in Paths
         /\ IsPrefix(Front(p), p)
<1> DEFINE n == Len(p) - 1
<1>1. p \in Seq(Names) /\ p # <<>> /\ Len(p) \in Nat /\ Len(p) > 0 BY PathIs
<1>2. n \in 0..Len(p) BY <1>1
<1>3. /\ Front(p) \in Seq(Names) /\ Len(Front(p)) = n
      /\ \A i \in 1..n : Front(p)[i] = p[i]
  <2> HIDE DEF n
  <2>1. Front(p) = SubSeq(p, 1, n) BY DEF Front, n
  <2> QED BY <1>1, <1>2, <2>1, FirstNames
<1>4. Front(p) = <<>> <=> ~(Len(p) > 1) BY <1>1, <1>3, EmptySeq
<1>5. IsPrefix(Front(p), p) BY <1>1, <1>3, PrefixAt
<1>6. Front(p) # <<>> => Front(p) \in Paths
  <2> SUFFICES ASSUME Front(p) # <<>> PROVE Front(p) \in Paths OBVIOUS
  <2>1. n \in 1..Len(p) BY <1>1, <1>4
  <2>2. Front(p) = SubSeq(p, 1, n) BY DEF Front
  <2> HIDE DEF n
  <2> QED BY <2>1, <2>2, PathsAssumption
<1> QED BY <1>1, <1>3, <1>4, <1>5, <1>6

LEMMA UnderSelf == ASSUME NEW p \in Paths PROVE p \in Under(p)
  BY PathIs, PrefixAt DEF Under

\* What is below p and not p has its folder there too.
LEMMA FolderUnder ==
  ASSUME NEW p \in Seq(Names), NEW r \in Paths, IsPrefix(p, r), r # p
  PROVE  IsPrefix(p, Front(r)) /\ (p # <<>> => Front(r) \in Paths)
<1>2. r \in Seq(Names) /\ Len(p) \in Nat /\ Len(r) \in Nat BY PathIs, LenProperties
<1>3. Len(p) <= Len(r) /\ \A i \in 1..Len(p) : p[i] = r[i] BY <1>2, PrefixAt
<1>4. Len(p) # Len(r) BY <1>2, <1>3, SeqEqual
<1>5. /\ Front(r) \in Seq(Names) /\ Len(Front(r)) = Len(r) - 1
      /\ \A i \in 1..Len(r) - 1 : Front(r)[i] = r[i]
  BY FolderIs
<1>6. IsPrefix(p, Front(r)) BY <1>2, <1>3, <1>4, <1>5, PrefixAt
<1>7. p # <<>> => Front(r) \in Paths
  <2>1. p # <<>> => Len(p) > 0 BY EmptySeq
  <2> QED BY <1>2, <1>3, <1>4, <2>1, FolderIs
<1> QED BY <1>6, <1>7

\* What is below the folder of an item is there with the item.
LEMMA UnderFolder ==
  ASSUME NEW p \in Seq(Names), NEW r \in Paths, IsPrefix(p, Front(r))
  PROVE  IsPrefix(p, r) /\ r # p
<1>2. r \in Seq(Names) /\ Len(p) \in Nat /\ Len(r) \in Nat BY PathIs, LenProperties
<1>3. /\ Front(r) \in Seq(Names) /\ Len(Front(r)) = Len(r) - 1
      /\ \A i \in 1..Len(r) - 1 : Front(r)[i] = r[i]
  BY FolderIs
<1>4. Len(p) <= Len(r) - 1 /\ \A i \in 1..Len(p) : p[i] = Front(r)[i]
  BY <1>2, <1>3, PrefixAt
<1>5. Len(p) <= Len(r) /\ Len(p) # Len(r) /\ \A i \in 1..Len(p) : p[i] = r[i]
  <2>1. \A i \in 1..Len(p) : i \in 1..Len(r) - 1 BY <1>2, <1>4
  <2> QED BY <1>2, <1>3, <1>4, <2>1
<1> QED BY <1>2, <1>5, PrefixAt

\* A prefix of a path is a path, or the base folder.
LEMMA PrefixIsPath ==
  ASSUME NEW s \in Seq(Names), s # <<>>, NEW p \in Paths, IsPrefix(s, p)
  PROVE  s \in Paths
<1>1. p \in Seq(Names) /\ Len(p) \in Nat /\ Len(s) \in Nat /\ Len(s) > 0 BY PathIs, EmptySeq, LenProperties
<1>2. Len(s) <= Len(p) /\ SubSeq(s, 1, Len(s)) = SubSeq(p, 1, Len(s)) BY DEF IsPrefix
<1>3. s = SubSeq(p, 1, Len(s)) BY <1>2, SubSeqFull
<1>4. Len(s) \in 1..Len(p) BY <1>1, <1>2
<1> QED BY <1>3, <1>4, PathsAssumption

LEMMA PrefixTransitive ==
  ASSUME NEW a \in Seq(Names), NEW b \in Seq(Names), NEW c \in Seq(Names),
         IsPrefix(a, b), IsPrefix(b, c)
  PROVE  IsPrefix(a, c)
<1>1. Len(a) \in Nat /\ Len(b) \in Nat /\ Len(c) \in Nat BY LenProperties
<1>2. Len(a) <= Len(b) /\ \A i \in 1..Len(a) : a[i] = b[i] BY PrefixAt
<1>3. Len(b) <= Len(c) /\ \A i \in 1..Len(b) : b[i] = c[i] BY PrefixAt
<1>4. \A i \in 1..Len(a) : i \in 1..Len(b) BY <1>1, <1>2
<1> QED BY <1>1, <1>2, <1>3, <1>4, PrefixAt

\* The next step from a folder on the way to a path below it.
LEMMA TheNext ==
  ASSUME NEW f \in Seq(Names), NEW p \in Paths, IsPrefix(f, p), f # p
  PROVE  \E k \in Paths : Front(k) = f /\ IsPrefix(k, p)
<1> DEFINE n == Len(f) + 1
           k == SubSeq(p, 1, n)
<1>1. p \in Seq(Names) /\ Len(p) \in Nat /\ Len(f) \in Nat BY PathIs, LenProperties
<1>2. Len(f) <= Len(p) /\ \A i \in 1..Len(f) : f[i] = p[i] BY <1>1, PrefixAt
<1>3. Len(f) # Len(p) BY <1>1, <1>2, SeqEqual
<1>4. n \in 1..Len(p) /\ n \in 0..Len(p) BY <1>1, <1>2, <1>3
<1>5. k \in Paths
  <2> HIDE DEF n
  <2> QED BY <1>4, PathsAssumption
<1>6. k \in Seq(Names) /\ Len(k) = n /\ \A i \in 1..n : k[i] = p[i]
  <2> HIDE DEF n
  <2> QED BY <1>1, <1>4, FirstNames
<1> HIDE DEF k
<1>7. /\ Front(k) \in Seq(Names) /\ Len(Front(k)) = Len(f)
      /\ \A i \in 1..Len(f) : Front(k)[i] = k[i]
  <2>1. /\ Front(k) \in Seq(Names) /\ Len(Front(k)) = Len(k) - 1
        /\ \A i \in 1..Len(k) - 1 : Front(k)[i] = k[i]
    BY <1>5, FolderIs
  <2>2. Len(k) - 1 = Len(f) BY <1>1, <1>6
  <2> QED BY <2>1, <2>2
<1>8. \A i \in 1..Len(f) : Front(k)[i] = f[i]
  <2>1. \A i \in 1..Len(f) : i \in 1..n BY <1>1
  <2> QED BY <1>2, <1>6, <1>7, <2>1
<1>9. Front(k) = f BY <1>7, <1>8, SeqEqual
<1>10. IsPrefix(k, p) BY <1>1, <1>4, <1>6, PrefixAt
<1> QED BY <1>5, <1>9, <1>10

-----------------------------------------------------------------------------
(* Moves: the path that comes to r when p goes to q.                       *)

Source(p, q, r) == p \o SubSeq(r, Len(q) + 1, Len(r))

LEMMA SourceAt ==
  ASSUME NEW p \in Paths, NEW q \in Paths, NEW r \in Under(q)
  PROVE  /\ Source(p, q, r) \in Seq(Names)
         /\ Len(Source(p, q, r)) = Len(p) + (Len(r) - Len(q))
         /\ \A i \in 1..Len(p) : Source(p, q, r)[i] = p[i]
         /\ \A i \in 1..Len(r) - Len(q) : Source(p, q, r)[Len(p) + i] = r[Len(q) + i]
         /\ Len(q) <= Len(r) /\ \A i \in 1..Len(q) : q[i] = r[i]
<1>1. r \in Paths /\ IsPrefix(q, r) BY DEF Under
<1>2. /\ p \in Seq(Names) /\ q \in Seq(Names) /\ r \in Seq(Names)
      /\ Len(p) \in Nat /\ Len(q) \in Nat /\ Len(r) \in Nat
      /\ \A i \in 1..Len(r) : r[i] \in Names
  BY <1>1, PathIs
<1>3. Len(q) <= Len(r) /\ \A i \in 1..Len(q) : q[i] = r[i] BY <1>1, <1>2, PrefixAt
<1> DEFINE m == Len(q) + 1
           t == SubSeq(r, m, Len(r))
<1>4. /\ t \in Seq(Names) /\ Len(t) = Len(r) - Len(q)
      /\ \A i \in 1..Len(r) - Len(q) : t[i] = r[Len(q) + i]
  <2>1. m \in Int /\ m >= 1 /\ Len(r) \in Int /\ \A i \in m..Len(r) : r[i] \in Names BY <1>2
  <2>2. /\ SubSeq(r, m, Len(r)) \in Seq(Names)
        /\ Len(SubSeq(r, m, Len(r))) = IF m <= Len(r) THEN Len(r) - m + 1 ELSE 0
        /\ \A i \in 1..Len(r) - m + 1 : SubSeq(r, m, Len(r))[i] = r[m + i - 1]
    BY <2>1, SubSeqProperties
  <2>3. \A i \in 1..Len(r) - Len(q) : m + i - 1 = Len(q) + i BY <1>2
  <2> QED BY <1>2, <1>3, <2>2, <2>3
<1> HIDE DEF t
<1>5. /\ p \o t \in Seq(Names) /\ Len(p \o t) = Len(p) + Len(t)
      /\ \A i \in 1..Len(p) + Len(t) : (p \o t)[i] = IF i <= Len(p) THEN p[i] ELSE t[i - Len(p)]
  BY <1>2, <1>4, ConcatProperties
<1>6. Source(p, q, r) = p \o t BY DEF Source, t
<1>7. ASSUME NEW i \in 1..Len(r) - Len(q) PROVE (p \o t)[Len(p) + i] = r[Len(q) + i]
  <2>1. Len(p) + i \in 1..Len(p) + Len(t) /\ ~(Len(p) + i <= Len(p)) /\ (Len(p) + i) - Len(p) = i
    BY <1>2, <1>4
  <2> QED BY <1>4, <1>5, <2>1
<1>8. Len(p \o t) = Len(p) + Len(r) - Len(q) BY <1>2, <1>4, <1>5
<1>9. ASSUME NEW i \in 1..Len(p) PROVE (p \o t)[i] = p[i]
  <2>1. i \in 1..Len(p) + Len(t) /\ i <= Len(p) BY <1>2, <1>3, <1>4
  <2> QED BY <1>5, <2>1
<1> HIDE DEF m
<1>10. Source(p, q, r) \in Seq(Names) BY <1>5, <1>6
<1> QED BY ONLY <1>3, <1>6, <1>7, <1>8, <1>9, <1>10

\* What goes to r comes back by the move from q to p.
LEMMA SourceBack ==
  ASSUME NEW p \in Paths, NEW q \in Paths, NEW s \in Under(p), Source(q, p, s) \in Under(q)
  PROVE  Source(p, q, Source(q, p, s)) = s
<1> DEFINE r == Source(q, p, s)
           back == Source(p, q, r)
<1>1. /\ r \in Seq(Names) /\ Len(r) = Len(q) + (Len(s) - Len(p))
      /\ \A i \in 1..Len(s) - Len(p) : r[Len(q) + i] = s[Len(p) + i]
      /\ Len(p) <= Len(s) /\ \A i \in 1..Len(p) : p[i] = s[i]
  BY SourceAt
<1>2. s \in Seq(Names) /\ Len(s) \in Nat /\ Len(p) \in Nat /\ Len(q) \in Nat BY PathIs DEF Under
<1> HIDE DEF r
<1>3. /\ back \in Seq(Names) /\ Len(back) = Len(p) + (Len(r) - Len(q))
      /\ \A i \in 1..Len(p) : back[i] = p[i]
      /\ \A i \in 1..Len(r) - Len(q) : back[Len(p) + i] = r[Len(q) + i]
  <2>1. r \in Under(q) BY DEF r
  <2> QED BY <2>1, SourceAt
<1> HIDE DEF back
<1>4. Len(r) - Len(q) = Len(s) - Len(p) /\ Len(back) = Len(s) BY <1>1, <1>2, <1>3
<1>5. ASSUME NEW i \in 1..Len(s) PROVE back[i] = s[i]
  <2>1. CASE i \in 1..Len(p) BY <1>1, <1>3, <2>1
  <2>2. CASE i \notin 1..Len(p)
    <3> DEFINE k == i - Len(p)
    <3>1. k \in 1..Len(s) - Len(p) /\ Len(p) + k = i BY <1>2, <2>2
    <3> HIDE DEF k
    <3>2. back[Len(p) + k] = r[Len(q) + k] BY <1>3, <1>4, <3>1
    <3> QED BY <1>1, <3>1, <3>2
  <2> QED BY <2>1, <2>2
<1>6. back = s BY <1>2, <1>3, <1>4, <1>5, SeqEqual
<1> QED BY <1>6 DEF back, r

\* The folder of what comes to r comes to the folder of r.
LEMMA SourceFolder ==
  ASSUME NEW p \in Paths, NEW q \in Paths, NEW r \in Under(q), r # q
  PROVE  /\ Front(r) \in Under(q)
         /\ Front(Source(p, q, r)) = Source(p, q, Front(r))
<1>0. r \in Paths /\ IsPrefix(q, r) /\ q \in Seq(Names) /\ q # <<>> BY PathIs DEF Under
<1>1. Front(r) \in Under(q) BY <1>0, FolderUnder DEF Under
<1>2. /\ r \in Seq(Names) /\ r # <<>> /\ Len(r) \in Nat /\ Len(p) \in Nat /\ Len(p) > 0 /\ Len(q) \in Nat
  BY <1>0, PathIs
<1>3. /\ Len(Front(r)) = Len(r) - 1 /\ \A i \in 1..Len(r) - 1 : Front(r)[i] = r[i]
  BY <1>0, FolderIs
<1> DEFINE s == Source(p, q, r)
           t == Source(p, q, Front(r))
<1>4. /\ s \in Seq(Names) /\ Len(s) = Len(p) + (Len(r) - Len(q))
      /\ \A i \in 1..Len(p) : s[i] = p[i]
      /\ \A i \in 1..Len(r) - Len(q) : s[Len(p) + i] = r[Len(q) + i]
  BY SourceAt
<1>5. /\ t \in Seq(Names) /\ Len(t) = Len(p) + (Len(r) - 1 - Len(q))
      /\ \A i \in 1..Len(p) : t[i] = p[i]
      /\ \A i \in 1..Len(r) - 1 - Len(q) : t[Len(p) + i] = Front(r)[Len(q) + i]
      /\ Len(q) <= Len(r) - 1
  <2> DEFINE w == Front(r)
  <2>1. w \in Under(q) /\ Len(w) = Len(r) - 1 BY <1>1, <1>3
  <2> HIDE DEF w
  <2>2. /\ Source(p, q, w) \in Seq(Names) /\ Len(Source(p, q, w)) = Len(p) + (Len(w) - Len(q))
        /\ \A i \in 1..Len(p) : Source(p, q, w)[i] = p[i]
        /\ \A i \in 1..Len(w) - Len(q) : Source(p, q, w)[Len(p) + i] = w[Len(q) + i]
        /\ Len(q) <= Len(w)
    BY <2>1, SourceAt
  <2> QED BY <2>1, <2>2 DEF w
<1> HIDE DEF s, t
<1> DEFINE n == Len(s) - 1
<1>6. n \in 0..Len(s) /\ n = Len(t) BY <1>2, <1>4, <1>5
<1>7. /\ Front(s) \in Seq(Names) /\ Len(Front(s)) = n /\ \A i \in 1..n : Front(s)[i] = s[i]
  <2>1. Front(s) = SubSeq(s, 1, n) BY DEF Front
  <2> HIDE DEF n
  <2> QED BY <1>4, <1>6, <2>1, FirstNames
<1> HIDE DEF n
<1>9. ASSUME NEW i \in 1..Len(t) PROVE Front(s)[i] = t[i]
  <2>0. Front(s)[i] = s[i] BY <1>6, <1>7
  <2>1. CASE i \in 1..Len(p) BY <1>4, <1>5, <2>0, <2>1
  <2>2. CASE i \notin 1..Len(p)
    <3> DEFINE k == i - Len(p)
    <3>1. /\ k \in 1..Len(r) - 1 - Len(q) /\ k \in 1..Len(r) - Len(q) /\ Len(p) + k = i
          /\ Len(q) + k \in 1..Len(r) - 1
      BY <1>2, <1>5, <2>2
    <3> HIDE DEF k
    <3>2. s[i] = r[Len(q) + k] BY <1>4, <3>1
    <3>3. t[i] = Front(r)[Len(q) + k] BY <1>5, <3>1
    <3> QED BY <1>3, <2>0, <3>1, <3>2, <3>3
  <2> QED BY <2>1, <2>2
<1>10. Front(s) = t BY <1>5, <1>6, <1>7, <1>9, SeqEqual
<1> QED BY <1>1, <1>10 DEF s, t

\* A path may go to another that has the same below it.
Fits(p, q) == {q \o SubSeq(r, Len(p) + 1, Len(r)) : r \in Under(p)} = Under(q)

LEMMA SourceUnder ==
  ASSUME NEW p \in Paths, NEW q \in Paths, Fits(p, q), NEW r \in Under(q)
  PROVE  Source(p, q, r) \in Under(p)
<1>1. PICK s \in Under(p) : r = Source(q, p, s) BY DEF Fits, Source
<1>2. Source(p, q, r) = s BY <1>1, SourceBack
<1> QED BY <1>2

LEMMA SourceSelf ==
  ASSUME NEW p \in Paths, NEW q \in Paths
  PROVE  Source(p, q, q) = p
<1>1. p \in Seq(Names) /\ Len(q) \in Nat BY PathIs
<1>2. SubSeq(q, Len(q) + 1, Len(q)) = <<>> BY <1>1, SubSeqEmpty
<1> QED BY <1>1, <1>2, ConcatEmptySeq DEF Source

-----------------------------------------------------------------------------
(* The disk stays a tree.                                                  *)

LEMMA TreeIs ==
  ASSUME NEW t \in Trees
  PROVE  /\ t \in [Paths -> Items \cup {Nil}]
         /\ \A p \in Paths : t[p] # Nil /\ Front(p) # <<>> => t[Front(p)] = Dir
  BY DEF Trees

LEMMA IsTree ==
  ASSUME NEW t \in [Paths -> Items \cup {Nil}],
         \A p \in Paths : t[p] # Nil /\ Front(p) # <<>> => t[Front(p)] = Dir
  PROVE  t \in Trees
  BY DEF Trees

LEMMA ItemsAre == /\ Dir \in Items /\ Sizes \subseteq Items /\ Nil \notin Items
                  /\ Dir \notin Sizes /\ Sizes \subseteq Nat
  BY SizesAssumption DEF Items

\* What is above something is a folder.
LEMMA AboveIsDir ==
  ASSUME disk \in Trees, NEW p \in Paths, disk[p] # Nil, NEW f \in Paths, IsPrefix(f, p), f # p
  PROVE  disk[f] = Dir
<1> DEFINE bad == {n \in Nat : \E q \in Paths : Len(q) = n /\ disk[q] # Nil /\ IsPrefix(f, q) /\ f # q}
<1> SUFFICES ASSUME disk[f] # Dir PROVE FALSE OBVIOUS
<1>0. f \in Seq(Names) /\ f # <<>> BY PathIs
<1>1. Len(p) \in bad BY PathIs
<1>2. Min(bad) \in bad /\ \A y \in bad : Min(bad) <= y
  <2> HIDE DEF bad
  <2>1. bad \subseteq Nat BY DEF bad
  <2> QED BY <1>1, <2>1, LeastNatural
<1>3. PICK q \in Paths : Len(q) = Min(bad) /\ disk[q] # Nil /\ IsPrefix(f, q) /\ f # q BY <1>2
<1>4. IsPrefix(f, Front(q)) /\ Front(q) \in Paths BY <1>0, <1>3, FolderUnder
<1>5. Front(q) # <<>> BY <1>4, PathIs
<1>6. disk[Front(q)] = Dir BY <1>3, <1>5, TreeIs
<1>7. f # Front(q) BY <1>6
<1>8. Len(Front(q)) \in bad BY <1>4, <1>6, <1>7, ItemsAre, PathIs
<1>9. Len(q) \in Nat /\ Len(Front(q)) = Len(q) - 1 BY PathIs, FolderIs
<1> HIDE DEF bad
<1>10. Len(q) <= Len(Front(q)) BY <1>2, <1>3, <1>8
<1> QED BY <1>9, <1>10

LEMMA GoneAt ==
  ASSUME disk \in Trees, NEW p \in Paths
  PROVE  /\ Gone(p) \in [Paths -> Items \cup {Nil}]
         /\ \A q \in Paths : Gone(p)[q] = IF q \in Under(p) THEN Nil ELSE disk[q]
  BY TreeIs DEF Gone

LEMMA GoneTree ==
  ASSUME disk \in Trees, NEW p \in Paths
  PROVE  Gone(p) \in Trees
<1> DEFINE t == Gone(p)
<1>1. /\ t \in [Paths -> Items \cup {Nil}]
      /\ \A q \in Paths : t[q] = IF q \in Under(p) THEN Nil ELSE disk[q]
  BY GoneAt
<1> HIDE DEF t
<1>2. ASSUME NEW r \in Paths, t[r] # Nil, Front(r) # <<>> PROVE t[Front(r)] = Dir
  <2>1. Front(r) \in Paths /\ disk[r] # Nil /\ r \notin Under(p) BY <1>1, <1>2, FolderIs
  <2>2. disk[Front(r)] = Dir BY <1>2, <2>1, TreeIs
  <2>3. Front(r) \notin Under(p) BY <2>1, PathIs, UnderFolder DEF Under
  <2> QED BY <1>1, <2>1, <2>2, <2>3
<1> QED BY <1>1, <1>2, IsTree DEF t

LEMMA FolderNotUnder ==
  ASSUME NEW p \in Paths
  PROVE  Front(p) \notin Under(p)
<1>1. Len(p) \in Nat /\ Len(Front(p)) = Len(p) - 1 BY PathIs, FolderIs
<1> QED BY <1>1 DEF Under, IsPrefix

LEMMA FolderThere ==
  ASSUME NEW p, p # <<>>, IsFolder(p)
  PROVE  p \in Paths /\ disk[p] = Dir
  BY DEF IsFolder

LEMMA OutsideTree ==
  ASSUME disk \in Trees, NEW p \in Paths, NEW entry \in Items \cup {Nil}, IsFolder(Front(p))
  PROVE  [Gone(p) EXCEPT ![p] = entry] \in Trees
<1> DEFINE t == [Gone(p) EXCEPT ![p] = entry]
<1>1. /\ Gone(p) \in [Paths -> Items \cup {Nil}]
      /\ \A q \in Paths : Gone(p)[q] = IF q \in Under(p) THEN Nil ELSE disk[q]
  BY GoneAt
<1>2. /\ t \in [Paths -> Items \cup {Nil}] /\ t[p] = entry
      /\ \A q \in Paths \ {p} : t[q] = IF q \in Under(p) THEN Nil ELSE disk[q]
  BY <1>1
<1> HIDE DEF t
<1>3. ASSUME NEW r \in Paths, t[r] # Nil, Front(r) # <<>> PROVE t[Front(r)] = Dir
  <2>1. Front(r) \in Paths BY <1>3, FolderIs
  <2>2. CASE r = p
    <3>1. disk[Front(p)] = Dir BY <1>3, <2>2, FolderThere
    <3>2. Front(p) \notin Under(p) /\ p \in Under(p) BY FolderNotUnder, UnderSelf
    <3> QED BY <1>2, <2>1, <2>2, <3>1, <3>2
  <2>3. CASE r # p
    <3>1. r \notin Under(p) /\ disk[r] # Nil BY <1>2, <1>3, <2>3
    <3>2. disk[Front(r)] = Dir BY <1>3, <3>1, TreeIs
    <3>3. Front(r) \notin Under(p) /\ p \in Under(p) BY <3>1, PathIs, UnderFolder, UnderSelf DEF Under
    <3> QED BY <1>2, <2>1, <3>2, <3>3
  <2> QED BY <2>2, <2>3
<1> QED BY <1>2, <1>3, IsTree DEF t

LEMMA RenamedTree ==
  ASSUME disk \in Trees, NEW p \in Paths, NEW q \in Paths,
         disk[p] # Nil, disk[q] = Nil, IsFolder(Front(q)), ~IsPrefix(p, q), Fits(p, q)
  PROVE  Renamed(p, q) \in Trees
<1> DEFINE t == Renamed(p, q)
           src(r) == Source(p, q, r)
<1>0. \A r \in Under(q) : src(r) \in Under(p) BY SourceUnder
<1>1. /\ t \in [Paths -> Items \cup {Nil}]
      /\ \A r \in Under(q) : t[r] = disk[src(r)]
      /\ \A r \in Paths \ Under(q) : t[r] = IF r \in Under(p) THEN Nil ELSE disk[r]
  <2>1. t = [r \in Paths |-> IF r \in Under(q) THEN disk[src(r)] ELSE Gone(p)[r]]
    BY DEF Renamed, Source
  <2>2. /\ Gone(p) \in [Paths -> Items \cup {Nil}]
        /\ \A r \in Paths : Gone(p)[r] = IF r \in Under(p) THEN Nil ELSE disk[r]
    BY GoneAt
  <2>3. disk \in [Paths -> Items \cup {Nil}] BY TreeIs
  <2>4. Under(p) \subseteq Paths /\ Under(q) \subseteq Paths BY DEF Under
  <2> HIDE DEF src, t
  <2> QED BY <1>0, <2>1, <2>2, <2>3, <2>4
<1> HIDE DEF t
<1>2. ASSUME NEW r \in Paths, t[r] # Nil, Front(r) # <<>> PROVE t[Front(r)] = Dir
  <2>0. Front(r) \in Paths BY <1>2, FolderIs
  <2>1. CASE r = q
    <3>1. disk[Front(q)] = Dir BY <1>2, <2>1, FolderThere
    <3>2. Front(q) \notin Under(p)
      <4>1. p \in Seq(Names) BY PathIs
      <4> QED BY <4>1, UnderFolder DEF Under
    <3>3. Front(q) \notin Under(q) BY FolderNotUnder
    <3> QED BY <1>1, <2>0, <2>1, <3>1, <3>2, <3>3
  <2>2. CASE r \in Under(q) /\ r # q
    <3>1. /\ Front(r) \in Under(q) /\ Front(src(r)) = src(Front(r)) BY <2>2, SourceFolder
    <3>2. src(r) \in Paths /\ disk[src(r)] # Nil BY <1>0, <1>1, <1>2, <2>2 DEF Under
    <3>3. src(Front(r)) \in Paths BY <1>0, <3>1 DEF Under
    <3>4. Front(src(r)) # <<>> BY <3>1, <3>3, PathIs
    <3>5. disk[Front(src(r))] = Dir BY <3>2, <3>4, TreeIs
    <3> QED BY <1>1, <3>1, <3>5
  <2>3. CASE r \notin Under(q)
    <3>1. r \notin Under(p) /\ disk[r] # Nil BY <1>1, <1>2, <2>3
    <3>2. Front(r) \notin Under(q) /\ Front(r) \notin Under(p)
      BY <2>3, <3>1, PathIs, UnderFolder DEF Under
    <3>3. disk[Front(r)] = Dir BY <1>2, <3>1, TreeIs
    <3> QED BY <1>1, <2>0, <3>2, <3>3
  <2>4. q \in Under(q) BY UnderSelf
  <2> QED BY <2>1, <2>2, <2>3, <2>4
<1> QED BY <1>1, <1>2, IsTree DEF t

\* A file is put where no folder is, and folders on the way to it.
LEMMA WrittenTree ==
  ASSUME disk \in Trees, NEW p \in Paths, NEW size \in Sizes, disk[p] # Dir,
         NEW way, way = {q \in Paths : IsStrictPrefix(q, p)},
         \A q \in way : disk[q] \notin Sizes
  PROVE  [q \in Paths |-> IF q = p THEN size ELSE IF q \in way THEN Dir ELSE disk[q]] \in Trees
<1> DEFINE t == [q \in Paths |-> IF q = p THEN size ELSE IF q \in way THEN Dir ELSE disk[q]]
<1>0. disk \in [Paths -> Items \cup {Nil}] BY TreeIs
<1>1. /\ t \in [Paths -> Items \cup {Nil}] /\ t[p] = size /\ p \notin way
      /\ \A q \in way : t[q] = Dir
      /\ \A q \in Paths \ ({p} \cup way) : t[q] = disk[q]
  BY <1>0, ItemsAre DEF IsStrictPrefix
<1> HIDE DEF t
<1>2. ASSUME NEW r \in Paths, t[r] # Nil, Front(r) # <<>> PROVE t[Front(r)] = Dir
  <2>1. Front(r) \in Paths /\ IsPrefix(Front(r), r) BY <1>2, FolderIs
  <2>2. ASSUME IsPrefix(r, p) PROVE Front(r) \in way
    <3>1. /\ Front(r) \in Seq(Names) /\ r \in Seq(Names) /\ p \in Seq(Names) BY <2>1, PathIs
    <3>2. IsPrefix(Front(r), p) BY <2>1, <2>2, <3>1, PrefixTransitive
    <3>3. Front(r) # p
      <4>1. Len(Front(r)) = Len(r) - 1 /\ Len(r) \in Nat /\ Len(p) \in Nat BY PathIs, FolderIs
      <4>2. Len(r) <= Len(p) BY <2>2 DEF IsPrefix
      <4>3. Len(Front(r)) # Len(p) BY <4>1, <4>2
      <4> QED BY <4>3
    <3> QED BY <2>1, <3>2, <3>3 DEF IsStrictPrefix
  <2>3. CASE r = p
    <3>1. IsPrefix(p, p) BY UnderSelf DEF Under
    <3> QED BY <1>1, <2>2, <2>3, <3>1
  <2>4. CASE r \in way
    <3>1. IsPrefix(r, p) BY <2>4 DEF IsStrictPrefix
    <3> QED BY <1>1, <2>2, <3>1
  <2>5. CASE r # p /\ r \notin way
    <3>1. disk[Front(r)] = Dir BY <1>1, <1>2, <2>5, TreeIs
    <3>2. Front(r) # p BY <3>1
    <3> QED BY <1>1, <2>1, <3>1, <3>2
  <2> QED BY <2>3, <2>4, <2>5
<1> QED BY <1>1, <1>2, IsTree DEF t

-----------------------------------------------------------------------------
(* Batches, rows and walks.                                                *)

IsBatch(b) == DOMAIN b \subseteq Paths /\ \A p \in DOMAIN b : b[p] \in Items

LEMMA EmptyBatch == IsBatch(<<>>) /\ Cardinality(DOMAIN <<>>) = 0 /\ DOMAIN <<>> = {}
<1>1. DOMAIN <<>> = {} OBVIOUS
<1> QED BY <1>1, FS_EmptySet DEF IsBatch

LEMMA WithIs ==
  ASSUME disk \in Trees, NEW b, IsBatch(b), NEW p \in Paths
  PROVE  /\ IsBatch(With(b, p))
         /\ DOMAIN With(b, p) = IF disk[p] = Nil THEN DOMAIN b ELSE DOMAIN b \cup {p}
         /\ disk[p] # Nil => With(b, p)[p] = disk[p]
         /\ \A q \in DOMAIN b : q # p => With(b, p)[q] = b[q]
         /\ IsFiniteSet(DOMAIN With(b, p)) /\ Cardinality(DOMAIN With(b, p)) \in Nat
<1>1. disk[p] \in Items \cup {Nil} BY TreeIs
<1>2. /\ IsBatch(With(b, p))
      /\ DOMAIN With(b, p) = IF disk[p] = Nil THEN DOMAIN b ELSE DOMAIN b \cup {p}
      /\ disk[p] # Nil => With(b, p)[p] = disk[p]
      /\ \A q \in DOMAIN b : q # p => With(b, p)[q] = b[q]
  BY <1>1 DEF With, IsBatch
<1>3. DOMAIN With(b, p) \in SUBSET Paths BY <1>2 DEF IsBatch
<1>4. IsFiniteSet(DOMAIN With(b, p)) BY <1>3, PathsAssumption, FS_Subset
<1> QED BY <1>2, <1>4, FS_CardinalityType

LEMMA RowIs ==
  ASSUME NEW entry \in Items \cup {Nil}, NEW ahead \in BOOLEAN
  PROVE  /\ IndexRow(entry, ahead) \in Rows
         /\ IndexRow(entry, ahead).item = entry /\ IndexRow(entry, ahead).ahead = ahead
  BY DEF IndexRow, Rows

LEMMA NoRowIs == NoRow \in Rows /\ NoRow.item = Nil /\ NoRow.ahead = FALSE
  BY DEF NoRow, Rows

LEMMA RowsAt ==
  ASSUME rows \in [Paths -> Rows], NEW p \in Paths
  PROVE  rows[p] \in Rows /\ rows[p].item \in Items \cup {Nil} /\ rows[p].ahead \in BOOLEAN
  BY DEF Rows

LEMMA UpsertedIs ==
  ASSUME rows \in [Paths -> Rows], NEW b, IsBatch(b), NEW ahead \in BOOLEAN
  PROVE  /\ Upserted(b, ahead) \in [Paths -> Rows]
         /\ \A p \in Paths : Upserted(b, ahead)[p] =
              IF p \in DOMAIN b THEN IndexRow(b[p], ahead) ELSE rows[p]
<1>1. \A p \in DOMAIN b : IndexRow(b[p], ahead) \in Rows BY RowIs DEF IsBatch
<1> QED BY <1>1 DEF Upserted

LEMMA DeletedTyped ==
  ASSUME rows \in [Paths -> Rows], NEW p
  PROVE  DeletedTree(p) \in [Paths -> Rows]
  BY NoRowIs DEF DeletedTree

\* A folder is listed in some order, and whole.
LEMMA EntriesAre ==
  ASSUME NEW f
  PROVE  /\ Entries(f) \in Seq(Paths) /\ Len(Entries(f)) \in Nat
         /\ \A k \in Paths : Front(k) = f /\ disk[k] # Nil =>
              \E i \in 1..Len(Entries(f)) : Entries(f)[i] = k
<1> DEFINE kids == {q \in Children(f) : disk[q] # Nil}
           n == Cardinality(kids)
<1>1. kids \in SUBSET Paths BY DEF Children
<1>2. IsFiniteSet(kids) BY <1>1, PathsAssumption, FS_Subset
<1> DEFINE l == CHOOSE s \in SetToSeqs(kids) : TRUE
<1>3. Entries(f) = l BY DEF Entries
<1>4. n \in Nat /\ ExistsBijection(1..n, kids) BY <1>2, FS_CardinalityType
<1> HIDE DEF kids
<1>5. PICK g \in Bijection(1..n, kids) : TRUE BY <1>4 DEF ExistsBijection
<1>6. g \in [1..n -> kids] /\ \A i, j \in 1..n : i # j => g[i] # g[j]
  BY <1>5 DEF Bijection, Injection, IsInjective
<1>7. g \in SetToSeqs(kids) BY <1>6 DEF SetToSeqs
<1>8. l \in SetToSeqs(kids) BY <1>7
<1> HIDE DEF l
<1>9. l \in [1..n -> kids] /\ \A i, j \in 1..n : i # j => l[i] # l[j] BY <1>8 DEF SetToSeqs
<1>10. l \in Seq(Paths) /\ Len(l) = n
  <2> HIDE DEF n
  <2>1. l \in [1..n -> Paths] BY <1>1, <1>9
  <2> QED BY <1>4, <2>1
<1>11. l \in Injection(1..n, kids) BY <1>9 DEF Injection, IsInjective
<1>12. l \in Surjection(1..n, kids)
  <2>1. Cardinality(1..n) = n /\ IsFiniteSet(1..n) BY <1>4, FS_Interval
  <2> QED BY <1>2, <1>11, <2>1, FS_Injection
<1>13. ASSUME NEW k \in kids PROVE \E i \in 1..n : l[i] = k BY <1>12 DEF Surjection
<1>14. \A k \in Paths : Front(k) = f /\ disk[k] # Nil => k \in kids BY DEF kids, Children
<1> HIDE DEF n
<1> QED BY <1>3, <1>4, <1>10, <1>13, <1>14

\* Something of the stack leads to p.
Leads(todo, p) == \E i \in 1..Len(todo) : IsPrefix(todo[i], p)

LEMMA LeadsIn ==
  ASSUME NEW a \in Seq(Paths), NEW b \in Seq(Paths), NEW p
  PROVE  a \o b \in Seq(Paths) /\ (Leads(a \o b, p) <=> Leads(a, p) \/ Leads(b, p))
<1>1. /\ a \o b \in Seq(Paths) /\ Len(a \o b) = Len(a) + Len(b)
      /\ \A i \in 1..Len(a) + Len(b) : (a \o b)[i] = IF i <= Len(a) THEN a[i] ELSE b[i - Len(a)]
  BY ConcatProperties
<1>2. Len(a) \in Nat /\ Len(b) \in Nat BY LenProperties
<1> DEFINE c == a \o b
<1> HIDE DEF c
<1>3. ASSUME NEW i \in 1..Len(a) PROVE i \in 1..Len(c) /\ c[i] = a[i] BY <1>1, <1>2 DEF c
<1>4. ASSUME NEW i \in 1..Len(b) PROVE Len(a) + i \in 1..Len(c) /\ c[Len(a) + i] = b[i]
  <2>1. /\ Len(a) + i \in 1..Len(a) + Len(b) /\ ~(Len(a) + i <= Len(a))
        /\ (Len(a) + i) - Len(a) = i
    BY <1>2
  <2> QED BY <1>1, <2>1 DEF c
<1>5. \A i \in 1..Len(c) :
        \/ i \in 1..Len(a) /\ c[i] = a[i]
        \/ i - Len(a) \in 1..Len(b) /\ c[i] = b[i - Len(a)]
  BY <1>1, <1>2 DEF c
<1>6. Leads(a, p) \/ Leads(b, p) => Leads(c, p) BY <1>3, <1>4 DEF Leads
<1>7. Leads(c, p) => Leads(a, p) \/ Leads(b, p) BY <1>5 DEF Leads
<1> QED BY <1>1, <1>6, <1>7 DEF c

\* A visit replaces a folder by what is in it.
LEMMA PushedIs ==
  ASSUME disk \in Trees, NEW todo \in Seq(Paths), todo # <<>>
  PROVE  /\ Head(todo) \in Paths /\ Pushed(todo, Head(todo)) \in Seq(Paths)
         /\ \A p \in Paths : disk[p] # Nil /\ Leads(todo, p) /\ p # Head(todo) =>
              Leads(Pushed(todo, Head(todo)), p)
<1> DEFINE h == Head(todo)
           l == IF disk[h] = Dir THEN Entries(h) ELSE <<>>
<1>1. /\ h \in Paths /\ Tail(todo) \in Seq(Paths) /\ Len(todo) \in Nat
      /\ Len(Tail(todo)) = Len(todo) - 1 /\ h = todo[1]
      /\ \A i \in 1..Len(Tail(todo)) : Tail(todo)[i] = todo[i + 1]
  BY HeadTailProperties, LenProperties
<1> HIDE DEF h
<1>2. l \in Seq(Paths) BY EntriesAre, EmptySeq
<1>3. Pushed(todo, h) = l \o Tail(todo) BY DEF Pushed
<1> HIDE DEF l
<1>4. Pushed(todo, h) \in Seq(Paths) BY <1>1, <1>2, <1>3, LeadsIn
<1>5. ASSUME NEW p \in Paths, disk[p] # Nil, Leads(todo, p), p # h PROVE Leads(Pushed(todo, h), p)
  <2>1. PICK i \in 1..Len(todo) : IsPrefix(todo[i], p) BY <1>5 DEF Leads
  <2>2. Leads(l, p) \/ Leads(Tail(todo), p)
    <3>1. CASE i > 1
      <4>1. i - 1 \in 1..Len(Tail(todo)) /\ (i - 1) + 1 = i BY <1>1, <3>1
      <4>2. Tail(todo)[i - 1] = todo[i] BY <1>1, <4>1
      <4> QED BY <2>1, <4>1, <4>2 DEF Leads
    <3>2. CASE i <= 1
      <4>1. IsPrefix(h, p)
        <5>1. i = 1 BY <1>1, <3>2
        <5> QED BY <1>1, <2>1, <5>1
      <4>2. disk[h] = Dir BY <1>1, <1>5, <4>1, AboveIsDir
      <4>3. PICK k \in Paths : Front(k) = h /\ IsPrefix(k, p)
        <5>1. h \in Seq(Names) BY <1>1, PathIs
        <5> QED BY <1>5, <4>1, <5>1, TheNext
      <4>4. disk[k] # Nil
        <5>1. CASE k = p BY <1>5, <5>1
        <5>2. CASE k # p BY <1>5, <4>3, <5>2, AboveIsDir, ItemsAre
        <5> QED BY <5>1, <5>2
      <4>5. PICK j \in 1..Len(Entries(h)) : Entries(h)[j] = k BY <4>3, <4>4, EntriesAre
      <4>6. l = Entries(h) BY <4>2 DEF l
      <4> QED BY <4>3, <4>5, <4>6 DEF Leads
    <3>3. i > 1 \/ i <= 1 BY <1>1
    <3> QED BY <3>1, <3>2, <3>3
  <2> QED BY <1>1, <1>2, <1>3, <2>2, LeadsIn
<1> QED BY <1>1, <1>4, <1>5 DEF h

\* The walk of a scan leads to everything.
LEMMA RootLeads ==
  ASSUME disk \in Trees, NEW p \in Paths, disk[p] # Nil
  PROVE  Leads(Entries(<<>>), p)
<1>1. /\ <<>> \in Seq(Names) /\ p \in Seq(Names) /\ p # <<>> /\ IsPrefix(<<>>, p)
  <2>1. <<>> \in Seq(Names) /\ Len(<<>>) = 0 BY EmptySeq
  <2>2. p \in Seq(Names) /\ p # <<>> /\ Len(p) \in Nat BY PathIs
  <2>3. Len(<<>>) <= Len(p) /\ \A i \in 1..Len(<<>>) : <<>>[i] = p[i] BY <2>1, <2>2
  <2> QED BY <2>1, <2>2, <2>3, PrefixAt
<1>2. PICK k \in Paths : Front(k) = <<>> /\ IsPrefix(k, p) BY <1>1, TheNext
<1>3. disk[k] # Nil
  <2>1. CASE k = p BY <2>1
  <2>2. CASE k # p BY <1>2, <2>2, AboveIsDir, ItemsAre
  <2> QED BY <2>1, <2>2
<1>4. PICK j \in 1..Len(Entries(<<>>)) : Entries(<<>>)[j] = k BY <1>2, <1>3, EntriesAre
<1> QED BY <1>2, <1>4 DEF Leads

-----------------------------------------------------------------------------
(* The invariant.                                                          *)

Tables ==
  /\ disk \in Trees /\ rows \in [Paths -> Rows]
  /\ ready \in BOOLEAN /\ used \in Nat \cup {Nil} /\ calm \subseteq Paths /\ ghosts \subseteq Paths

ScanShape ==
  /\ scan.pc \in {"idle", "walk", "sweep", "state", "prune"}
  /\ scan.pc = "walk" =>
       /\ scan = [pc |-> "walk", batch |-> scan.batch, todo |-> scan.todo]
       /\ IsBatch(scan.batch) /\ Cardinality(DOMAIN scan.batch) < BatchSize
       /\ scan.todo \in Seq(Paths)

HookKinds == {"touch", "tree", "walk", "remove"}
HookOK(h) ==
  /\ h = [id |-> h.id, kind |-> h.kind, todo |-> h.todo, got |-> h.got]
  /\ h.kind \in HookKinds /\ h.todo \in Seq(Paths) /\ IsBatch(h.got)
HookShapes == \A h \in hooks : HookOK(h)

Reqs ==
  {Idle} \cup [pc : {"sum", "cache", "write", "add"}, p : Paths \cup {<<>>}, size : Sizes, n : Nat]
ReqShapes ==
  /\ req \in [Requests -> Reqs]
  /\ \A r \in Requests : req[r].pc \in {"write", "add"} => req[r].p \in Paths

\* A calm path was met as it is, or will be; one with nothing there was not.
Walked(p) ==
  IF disk[p] = Nil THEN p \notin DOMAIN scan.batch /\ (rows[p].ahead => p \in ghosts)
  ELSE IF p \in DOMAIN scan.batch THEN scan.batch[p] = disk[p]
  ELSE rows[p] = IndexRow(disk[p], TRUE) \/ Leads(scan.todo, p)
Met(p) ==
  IF disk[p] = Nil THEN rows[p].ahead => p \in ghosts ELSE rows[p] = IndexRow(disk[p], TRUE)
Shown(p) == rows[p].item = disk[p] \/ (disk[p] = Nil /\ p \in ghosts)
ScanSound ==
  /\ scan.pc = "walk" => \A p \in calm : Walked(p)
  /\ scan.pc = "sweep" => \A p \in calm : Met(p)
  /\ scan.pc = "state" => \A p \in calm : Shown(p)

IndexInv == Tables /\ ScanShape /\ HookShapes /\ ReqShapes /\ ScanSound

LEMMA IdleIs == Idle \in Reqs /\ Idle.pc = "idle"
  BY DEF Idle, Reqs

LEMMA InitIndexInv ==
  ASSUME IndexInit
  PROVE  IndexInv
<1>1. Tables
  <2>1. disk \in [Paths -> Items \cup {Nil}] BY TreeIs DEF IndexInit
  <2>2. \A p \in Paths : IndexRow(disk[p], FALSE) \in Rows /\ NoRow \in Rows BY <2>1, RowIs, NoRowIs
  <2>3. rows \in [Paths -> Rows]
    <3>1. CASE ready BY <2>2, <3>1 DEF IndexInit
    <3>2. CASE ~ready BY <3>2, NoRowIs DEF IndexInit
    <3> QED BY <3>1, <3>2
  <2> QED BY <2>3 DEF Tables, IndexInit
<1>2. ScanShape /\ ScanSound BY IdleIs DEF ScanShape, ScanSound, IndexInit
<1>3. HookShapes BY DEF HookShapes, IndexInit
<1>4. ReqShapes BY IdleIs DEF ReqShapes, IndexInit
<1> QED BY <1>1, <1>2, <1>3, <1>4 DEF IndexInv

\* What a change disturbs is not calm after it.
LEMMA CalmKeeps ==
  ASSUME ScanSound, calm \subseteq Paths, ghosts \subseteq Paths, Calmed, scan' = scan
  PROVE  ScanSound' /\ calm' \subseteq Paths /\ ghosts' \subseteq Paths
<1>1. ghosts' = ghosts /\ \A p \in calm' : p \in calm /\ disk'[p] = disk[p] /\ rows'[p] = rows[p]
  BY DEF Calmed
<1>2. ASSUME scan'.pc = "walk", NEW p \in calm' PROVE Walked(p)'
  <2>1. Walked(p) BY <1>1, <1>2 DEF ScanSound
  <2> QED BY <1>1, <2>1 DEF Walked
<1>3. ASSUME scan'.pc = "sweep", NEW p \in calm' PROVE Met(p)'
  <2>1. Met(p) BY <1>1, <1>3 DEF ScanSound
  <2> QED BY <1>1, <2>1 DEF Met
<1>4. ASSUME scan'.pc = "state", NEW p \in calm' PROVE Shown(p)'
  BY <1>1, <1>4 DEF ScanSound, Shown
<1>5. calm' \subseteq Paths /\ ghosts' \subseteq Paths BY <1>1
<1> QED BY <1>2, <1>3, <1>4, <1>5 DEF ScanSound

\* A step of a scan ends in any state that is sound.
LEMMA ScanIdle == ASSUME scan' = Idle PROVE ScanShape' /\ ScanSound'
  BY IdleIs DEF ScanShape, ScanSound

-----------------------------------------------------------------------------
(* Steps of a scan.                                                        *)

LEMMA ScanStartInv == ASSUME IndexInv, ScanStart PROVE IndexInv'
<1>1. /\ scan' = [pc |-> "walk", batch |-> <<>>, todo |-> Entries(<<>>)]
      /\ calm' = Paths /\ ghosts' = {p \in Paths : rows[p].ahead}
      /\ UNCHANGED <<disk, rows, hooks, ready, used, req>>
  BY DEF ScanStart
<1>2. Tables' BY <1>1 DEF IndexInv, Tables
<1>3. ScanShape'
  <2>1. Cardinality(DOMAIN <<>>) < BatchSize BY EmptyBatch, NumbersAssumption
  <2> QED BY <1>1, <2>1, EmptyBatch, EntriesAre DEF ScanShape
<1>4. ASSUME NEW p \in calm' PROVE Walked(p)'
  <2>1. p \in Paths /\ (rows[p].ahead => p \in ghosts') BY <1>1, <1>4
  <2>2. disk[p] # Nil => Leads(Entries(<<>>), p) BY <2>1, RootLeads DEF IndexInv, Tables
  <2> QED BY <1>1, <2>1, <2>2, EmptyBatch DEF Walked
<1>5. ScanSound' BY <1>1, <1>4 DEF ScanSound
<1>6. HookShapes' /\ ReqShapes' BY <1>1 DEF IndexInv, HookShapes, ReqShapes
<1> QED BY <1>2, <1>3, <1>5, <1>6 DEF IndexInv

LEMMA ScanVisitInv == ASSUME IndexInv, ScanVisit PROVE IndexInv'
<1> DEFINE h == Head(scan.todo)
           b == With(scan.batch, h)
           todo == Pushed(scan.todo, h)
           next == IF Full(b) THEN <<>> ELSE b
<1>1. /\ scan.pc = "walk" /\ scan.todo # <<>>
      /\ scan' = [scan EXCEPT !.todo = todo, !.batch = next]
      /\ rows' = IF Full(b) THEN Upserted(b, TRUE) ELSE rows
      /\ UNCHANGED <<disk, hooks, ready, used, req, calm, ghosts>>
  BY DEF ScanVisit
<1>2. /\ scan = [pc |-> "walk", batch |-> scan.batch, todo |-> scan.todo]
      /\ IsBatch(scan.batch) /\ scan.todo \in Seq(Paths)
      /\ disk \in Trees /\ rows \in [Paths -> Rows] /\ calm \subseteq Paths
  BY <1>1 DEF IndexInv, Tables, ScanShape
<1>3. /\ h \in Paths /\ todo \in Seq(Paths)
      /\ \A p \in Paths : disk[p] # Nil /\ Leads(scan.todo, p) /\ p # h => Leads(todo, p)
  BY <1>1, <1>2, PushedIs
<1> HIDE DEF h, todo
<1>4. /\ IsBatch(b)
      /\ DOMAIN b = IF disk[h] = Nil THEN DOMAIN scan.batch ELSE DOMAIN scan.batch \cup {h}
      /\ disk[h] # Nil => b[h] = disk[h]
      /\ \A q \in DOMAIN scan.batch : q # h => b[q] = scan.batch[q]
      /\ Cardinality(DOMAIN b) \in Nat
  BY <1>2, <1>3, WithIs
<1> HIDE DEF b
<1>5. scan' = [pc |-> "walk", batch |-> next, todo |-> todo]
  <2> HIDE DEF next
  <2> QED BY <1>1, <1>2
<1>6. IsBatch(next) /\ Cardinality(DOMAIN next) < BatchSize
  BY <1>4, EmptyBatch, NumbersAssumption DEF Full
<1>7. /\ rows' \in [Paths -> Rows]
      /\ Full(b) => \A p \in Paths :
           rows'[p] = IF p \in DOMAIN b THEN IndexRow(b[p], TRUE) ELSE rows[p]
      /\ ~Full(b) => rows' = rows
  BY <1>1, <1>2, <1>4, UpsertedIs
<1>8. ASSUME NEW p \in calm PROVE Walked(p)'
  <2>1. p \in Paths /\ Walked(p) BY <1>1, <1>2 DEF IndexInv, ScanSound
  <2>2. CASE disk[p] = Nil
    <3>1. p \notin DOMAIN scan.batch /\ (rows[p].ahead => p \in ghosts) BY <2>1, <2>2 DEF Walked
    <3>2. p \notin DOMAIN b BY <1>4, <2>2, <3>1
    <3>3. p \notin DOMAIN next /\ rows'[p] = rows[p] BY <1>7, <2>1, <3>2, EmptyBatch
    <3> QED BY <1>1, <1>5, <2>2, <3>1, <3>3 DEF Walked
  <2>3. CASE disk[p] # Nil
    <3>1. p \in DOMAIN b => b[p] = disk[p]
      <4>1. CASE p = h BY <1>4, <2>3, <4>1
      <4>2. CASE p # h BY <1>4, <2>1, <2>3, <4>2 DEF Walked
      <4> QED BY <4>1, <4>2
    <3>2. CASE p \in DOMAIN b /\ Full(b)
      <4>1. rows'[p] = IndexRow(disk[p], TRUE) BY <1>7, <2>1, <3>1, <3>2
      <4>2. p \notin DOMAIN next BY <3>2, EmptyBatch
      <4> QED BY <1>1, <1>5, <2>3, <4>1, <4>2 DEF Walked
    <3>3. CASE p \in DOMAIN b /\ ~Full(b)
      BY <1>1, <1>5, <2>3, <3>1, <3>3 DEF Walked
    <3>4. CASE p \notin DOMAIN b
      <4>1. p # h /\ p \notin DOMAIN scan.batch BY <1>4, <2>3, <3>4
      <4>2. rows[p] = IndexRow(disk[p], TRUE) \/ Leads(scan.todo, p) BY <2>1, <2>3, <4>1 DEF Walked
      <4>3. rows'[p] = rows[p] /\ p \notin DOMAIN next BY <1>7, <2>1, <3>4, EmptyBatch
      <4>4. rows'[p] = IndexRow(disk[p], TRUE) \/ Leads(todo, p) BY <1>3, <2>1, <2>3, <4>1, <4>2, <4>3
      <4> HIDE DEF next
      <4> QED BY <1>1, <1>5, <2>3, <4>3, <4>4 DEF Walked
    <3> QED BY <3>2, <3>3, <3>4
  <2> QED BY <2>2, <2>3
<1> HIDE DEF next
<1>9. ScanSound' BY <1>1, <1>5, <1>8 DEF ScanSound
<1>10. ScanShape' BY <1>3, <1>5, <1>6 DEF ScanShape
<1>11. Tables' BY <1>1, <1>7 DEF IndexInv, Tables
<1>12. HookShapes' /\ ReqShapes' BY <1>1 DEF IndexInv, HookShapes, ReqShapes
<1> QED BY <1>9, <1>10, <1>11, <1>12 DEF IndexInv

LEMMA ScanFlushInv == ASSUME IndexInv, ScanFlush PROVE IndexInv'
<1>1. /\ scan.pc = "walk" /\ scan.todo = <<>>
      /\ rows' = Upserted(scan.batch, TRUE) /\ scan' = [pc |-> "sweep"]
      /\ UNCHANGED <<disk, hooks, ready, used, req, calm, ghosts>>
  BY DEF ScanFlush, LastBatch
<1>2. IsBatch(scan.batch) /\ rows \in [Paths -> Rows] /\ calm \subseteq Paths
  BY <1>1 DEF IndexInv, Tables, ScanShape
<1>3. /\ rows' \in [Paths -> Rows]
      /\ \A p \in Paths : rows'[p] =
           IF p \in DOMAIN scan.batch THEN IndexRow(scan.batch[p], TRUE) ELSE rows[p]
  BY <1>1, <1>2, UpsertedIs
<1>4. ASSUME NEW p \in calm PROVE Met(p)'
  <2>1. p \in Paths /\ Walked(p) BY <1>1, <1>2 DEF IndexInv, ScanSound
  <2>2. ~Leads(scan.todo, p) BY <1>1 DEF Leads
  <2> QED BY <1>1, <1>3, <2>1, <2>2 DEF Walked, Met
<1>5. ScanSound' /\ ScanShape' BY <1>1, <1>4 DEF ScanSound, ScanShape
<1>6. Tables' BY <1>1, <1>3 DEF IndexInv, Tables
<1>7. HookShapes' /\ ReqShapes' BY <1>1 DEF IndexInv, HookShapes, ReqShapes
<1> QED BY <1>5, <1>6, <1>7 DEF IndexInv

LEMMA ScanSweepInv == ASSUME IndexInv, ScanSweep PROVE IndexInv'
<1>1. /\ scan.pc = "sweep" /\ scan' = [pc |-> "state"]
      /\ rows' = [p \in Paths |-> IF rows[p].ahead THEN rows[p] ELSE NoRow]
      /\ UNCHANGED <<disk, hooks, ready, used, req, calm, ghosts>>
  BY DEF ScanSweep, DeletedNotGen
<1>2. rows \in [Paths -> Rows] /\ calm \subseteq Paths /\ disk \in [Paths -> Items \cup {Nil}]
  BY TreeIs DEF IndexInv, Tables
<1>3. rows' \in [Paths -> Rows] BY <1>1, <1>2, NoRowIs
<1>4. ASSUME NEW p \in calm PROVE Shown(p)'
  <2>1. p \in Paths /\ Met(p) BY <1>1, <1>2 DEF IndexInv, ScanSound
  <2>2. disk[p] \in Items \cup {Nil} BY <1>2, <2>1
  <2> QED BY <1>1, <2>1, <2>2, RowIs, NoRowIs DEF Met, Shown
<1>5. ScanSound' /\ ScanShape' BY <1>1, <1>4 DEF ScanSound, ScanShape
<1>6. Tables' BY <1>1, <1>3 DEF IndexInv, Tables
<1>7. HookShapes' /\ ReqShapes' BY <1>1 DEF IndexInv, HookShapes, ReqShapes
<1> QED BY <1>5, <1>6, <1>7 DEF IndexInv

LEMMA ScanStateInv == ASSUME IndexInv, ScanState PROVE IndexInv'
<1>1. /\ scan' = [pc |-> "prune"] /\ calm' = {} /\ ghosts' = {}
      /\ rows' = [p \in Paths |-> IndexRow(rows[p].item, FALSE)]
      /\ UNCHANGED <<disk, hooks, ready, used, req>>
  BY DEF ScanState, Forgotten
<1>2. rows' \in [Paths -> Rows] BY <1>1, RowsAt, RowIs DEF IndexInv, Tables
<1>3. Tables' BY <1>1, <1>2 DEF IndexInv, Tables
<1>4. ScanSound' /\ ScanShape' BY <1>1 DEF ScanSound, ScanShape
<1>5. HookShapes' /\ ReqShapes' BY <1>1 DEF IndexInv, HookShapes, ReqShapes
<1> QED BY <1>3, <1>4, <1>5 DEF IndexInv

LEMMA ScanEndInv == ASSUME IndexInv, ScanEnd PROVE IndexInv'
<1>1. ready' = TRUE /\ scan' = Idle /\ UNCHANGED <<disk, rows, hooks, used, req, calm, ghosts>> BY DEF ScanEnd
<1>2. Tables' BY <1>1 DEF IndexInv, Tables
<1>3. HookShapes' /\ ReqShapes' BY <1>1 DEF IndexInv, HookShapes, ReqShapes
<1> QED BY <1>1, <1>2, <1>3, ScanIdle DEF IndexInv

LEMMA ScanAbortInv == ASSUME IndexInv, ScanAbort PROVE IndexInv'
<1>1. scan' = Idle /\ Forgotten /\ UNCHANGED <<disk, rows, hooks, ready, used, req>> BY DEF ScanAbort
<1>2. Tables' BY <1>1 DEF IndexInv, Tables, Forgotten
<1>3. HookShapes' /\ ReqShapes' BY <1>1 DEF IndexInv, HookShapes, ReqShapes
<1> QED BY <1>1, <1>2, <1>3, ScanIdle DEF IndexInv

-----------------------------------------------------------------------------
(* Steps of hooks.                                                         *)

LEMMA HookIs ==
  ASSUME NEW who, NEW n, NEW kind \in HookKinds, NEW paths \in Seq(Paths)
  PROVE  HookOK(Hook(who, n, kind, paths))
  BY EmptyBatch DEF HookOK, Hook

\* One hook goes on or ends; the rows may change.
HookMoves(h, next) ==
  /\ hooks' = (hooks \ {h}) \cup next /\ \A g \in next : HookOK(g)
  /\ rows' \in [Paths -> Rows]
  /\ UNCHANGED <<disk, scan, ready, used, req>> /\ Calmed

LEMMA HookMovesInv ==
  ASSUME IndexInv, NEW h, NEW next, HookMoves(h, next)
  PROVE  IndexInv'
<1>1. ScanSound' /\ calm' \subseteq Paths /\ ghosts' \subseteq Paths BY CalmKeeps DEF IndexInv, Tables, HookMoves
<1>2. Tables' BY <1>1 DEF IndexInv, Tables, HookMoves
<1>3. HookShapes' BY DEF IndexInv, HookShapes, HookMoves
<1>4. ScanShape' /\ ReqShapes' BY DEF IndexInv, ScanShape, ReqShapes, HookMoves
<1> QED BY <1>1, <1>2, <1>3, <1>4 DEF IndexInv

\* What a walk or a look leaves of a hook is one.
LEMMA HookGoesOn ==
  ASSUME NEW h, HookOK(h), NEW todo \in Seq(Paths), NEW got, IsBatch(got)
  PROVE  HookOK([h EXCEPT !.todo = todo, !.got = got])
<1>1. PICK i, k, t, g : h = [id |-> i, kind |-> k, todo |-> t, got |-> g] /\ k \in HookKinds
  BY DEF HookOK
<1>2. [h EXCEPT !.todo = todo] = [id |-> i, kind |-> k, todo |-> todo, got |-> g]
  BY ONLY <1>1
<1> DEFINE f == [h EXCEPT !.todo = todo]
<1>3. [f EXCEPT !.got = got] = [id |-> i, kind |-> k, todo |-> todo, got |-> got]
  <2> HIDE DEF f
  <2>1. f = [id |-> i, kind |-> k, todo |-> todo, got |-> g] BY <1>2 DEF f
  <2> QED BY ONLY <2>1
<1> QED BY <1>3 DEF HookOK

LEMMA TouchStatInv == ASSUME IndexInv, NEW h \in hooks, TouchStat(h) PROVE IndexInv'
<1> DEFINE p == Head(h.todo)
           next == [h EXCEPT !.todo = Tail(h.todo), !.got = With(h.got, p)]
<1>0. /\ HookOK(h) /\ h.todo \in Seq(Paths) /\ IsBatch(h.got)
      /\ disk \in Trees /\ rows \in [Paths -> Rows]
  BY DEF IndexInv, Tables, HookShapes, HookOK
<1>1. /\ h.todo # <<>> /\ hooks' = (hooks \ {h}) \cup {next}
      /\ rows' = IF disk[p] = Nil THEN DeletedTree(p) ELSE rows
      /\ UNCHANGED <<disk, scan, ready, used, req>> /\ Calmed
  BY DEF TouchStat
<1>2. p \in Paths /\ Tail(h.todo) \in Seq(Paths) BY <1>0, <1>1, HeadTailProperties
<1> HIDE DEF p
<1>3. HookOK(next) BY <1>0, <1>2, WithIs, HookGoesOn
<1>4. rows' \in [Paths -> Rows] BY <1>0, <1>1, DeletedTyped
<1> HIDE DEF next
<1>5. HookMoves(h, {next}) BY <1>1, <1>3, <1>4 DEF HookMoves
<1> QED BY <1>5, HookMovesInv

LEMMA TreeDropInv == ASSUME IndexInv, NEW h \in hooks, TreeDrop(h) PROVE IndexInv'
<1> DEFINE next == [h EXCEPT !.kind = "walk"]
<1>0. HookOK(h) /\ rows \in [Paths -> Rows] BY DEF IndexInv, Tables, HookShapes
<1>1. /\ hooks' = (hooks \ {h}) \cup {next} /\ rows' = DeletedTree(Head(h.todo))
      /\ UNCHANGED <<disk, scan, ready, used, req>> /\ Calmed
  BY DEF TreeDrop
<1>2. HookOK(next)
  <2>1. next = [id |-> h.id, kind |-> "walk", todo |-> h.todo, got |-> h.got] BY <1>0 DEF HookOK
  <2> QED BY <1>0, <2>1 DEF HookOK, HookKinds
<1>3. rows' \in [Paths -> Rows] BY <1>0, <1>1, DeletedTyped
<1> HIDE DEF next
<1>4. HookMoves(h, {next}) BY <1>1, <1>2, <1>3 DEF HookMoves
<1> QED BY <1>4, HookMovesInv

LEMMA TreeVisitInv == ASSUME IndexInv, NEW h \in hooks, TreeVisit(h) PROVE IndexInv'
<1> DEFINE p == Head(h.todo)
           b == With(h.got, p)
           todo == Pushed(h.todo, p)
           got == IF Full(b) THEN <<>> ELSE b
           next == [h EXCEPT !.todo = todo, !.got = got]
<1>0. /\ HookOK(h) /\ h.todo \in Seq(Paths) /\ IsBatch(h.got)
      /\ disk \in Trees /\ rows \in [Paths -> Rows]
  BY DEF IndexInv, Tables, HookShapes, HookOK
<1>1. /\ h.todo # <<>> /\ hooks' = (hooks \ {h}) \cup {next}
      /\ rows' = IF Full(b) THEN Upserted(b, FALSE) ELSE rows
      /\ UNCHANGED <<disk, scan, ready, used, req>> /\ Calmed
  BY DEF TreeVisit
<1>2. p \in Paths /\ todo \in Seq(Paths) BY <1>0, <1>1, PushedIs
<1> HIDE DEF p, todo
<1>3. IsBatch(b) BY <1>0, <1>2, WithIs
<1> HIDE DEF b
<1>4. IsBatch(got) BY <1>3, EmptyBatch
<1> HIDE DEF got
<1>5. HookOK(next) BY <1>0, <1>2, <1>4, HookGoesOn
<1>6. rows' \in [Paths -> Rows] BY <1>0, <1>1, <1>3, UpsertedIs
<1> HIDE DEF next
<1>7. HookMoves(h, {next}) BY <1>1, <1>5, <1>6 DEF HookMoves
<1> QED BY <1>7, HookMovesInv

LEMMA HookEndsInv ==
  ASSUME IndexInv, NEW h \in hooks, HookWrite(h) \/ RemoveTree(h)
  PROVE  IndexInv'
<1>0. IsBatch(h.got) /\ rows \in [Paths -> Rows] BY DEF IndexInv, Tables, HookShapes, HookOK
<1>1. rows' \in [Paths -> Rows]
  <2>1. CASE HookWrite(h) BY <1>0, <2>1, UpsertedIs DEF HookWrite
  <2>2. CASE RemoveTree(h) BY <1>0, <2>2, DeletedTyped DEF RemoveTree
  <2> QED BY <2>1, <2>2
<1>2. HookMoves(h, {}) BY <1>1 DEF HookMoves, HookWrite, RemoveTree
<1> QED BY <1>2, HookMovesInv

-----------------------------------------------------------------------------
(* Steps of requests.                                                      *)

\* A request moves, or the usage does; the index and its disk stay.
ReqMoves ==
  /\ ReqShapes' /\ HookShapes' /\ used' \in Nat \cup {Nil}
  /\ UNCHANGED <<disk, rows, scan, ready, calm, ghosts>>

LEMMA ReqMovesInv == ASSUME IndexInv, ReqMoves PROVE IndexInv'
<1>1. Tables' /\ ScanShape' BY DEF IndexInv, Tables, ScanShape, ReqMoves
<1>2. ScanSound' BY DEF IndexInv, ScanSound, Walked, Met, Shown, ReqMoves
<1> QED BY <1>1, <1>2 DEF IndexInv, ReqMoves

LEMMA ReqIs ==
  ASSUME ReqShapes, NEW r \in Requests, req[r].pc # "idle"
  PROVE  /\ req[r] \in [pc : {"sum", "cache", "write", "add"}, p : Paths \cup {<<>>}, size : Sizes, n : Nat]
         /\ req[r].p \in Paths \cup {<<>>} /\ req[r].size \in Sizes /\ req[r].n \in Nat
         /\ req[r].pc \in {"write", "add"} => req[r].p \in Paths
  BY IdleIs DEF ReqShapes, Reqs

\* A request comes to its next state.
LEMMA ReqTo ==
  ASSUME ReqShapes, NEW r \in Requests, NEW q \in Reqs, q.pc \in {"write", "add"} => q.p \in Paths,
         req' = [req EXCEPT ![r] = q]
  PROVE  ReqShapes'
  BY DEF ReqShapes

LEMMA DecideTyped ==
  ASSUME ReqShapes, NEW r \in Requests, NEW n,
         NEW q \in [pc : {"sum", "cache", "write", "add"}, p : Paths \cup {<<>>}, size : Sizes, n : Nat],
         Decide(r, q, n)
  PROVE  ReqShapes'
<1> DEFINE w == [q EXCEPT !.pc = "write"]
<1>1. w \in Reqs /\ w.p = q.p /\ q.p \in Paths \cup {<<>>} BY DEF Reqs
<1>2. CASE q.p = <<>> \/ n + q.size > Quota
  <2>1. req' = [req EXCEPT ![r] = Idle] BY <1>2 DEF Decide
  <2> QED BY <2>1, IdleIs, ReqTo
<1>3. CASE ~(q.p = <<>> \/ n + q.size > Quota)
  <2>1. req' = [req EXCEPT ![r] = w] BY <1>3 DEF Decide
  <2> HIDE DEF w
  <2> QED BY <1>1, <1>3, <2>1, ReqTo
<1> QED BY <1>2, <1>3

LEMMA AskUsageInv == ASSUME IndexInv, NEW r \in Requests, AskUsage(r) PROVE IndexInv'
<1>0. ReqShapes BY DEF IndexInv
<1>1. PICK p \in Paths \cup {<<>>}, size \in Sizes :
        LET q == [pc |-> "sum", p |-> p, size |-> size, n |-> 0] IN
        IF used # Nil THEN Decide(r, q, used) ELSE req' = [req EXCEPT ![r] = q]
  BY DEF AskUsage
<1> DEFINE q == [pc |-> "sum", p |-> p, size |-> size, n |-> 0]
<1>2. q \in [pc : {"sum", "cache", "write", "add"}, p : Paths \cup {<<>>}, size : Sizes, n : Nat]
      /\ q.pc = "sum"
  OBVIOUS
<1>3. IF used # Nil THEN Decide(r, q, used) ELSE req' = [req EXCEPT ![r] = q] BY <1>1
<1> HIDE DEF q
<1>4. ReqShapes'
  <2>1. CASE used # Nil BY <1>0, <1>2, <1>3, <2>1, DecideTyped
  <2>2. CASE used = Nil
    <3>1. q \in Reqs BY <1>2 DEF Reqs
    <3> QED BY <1>0, <1>2, <1>3, <2>2, <3>1, ReqTo
  <2> QED BY <2>1, <2>2
<1>5. UNCHANGED <<disk, rows, scan, hooks, ready, used, calm, ghosts>> BY DEF AskUsage
<1>6. HookShapes' /\ used' \in Nat \cup {Nil} BY <1>5 DEF IndexInv, Tables, HookShapes
<1> QED BY <1>4, <1>5, <1>6, ReqMovesInv DEF ReqMoves

\* Bytes are added up of natural numbers.
LEMMA BytesNat == ASSUME NEW items PROVE Bytes(items) \in Nat
<1> DEFINE files == Files(items)
<1>1. Bytes(items) = SumOver(items, files) BY Zenon DEF Bytes, SumOver
<1>2. files \in SUBSET Paths /\ \A p \in files : items[p] \in Nat BY SizesAssumption DEF Files
<1>3. IsFiniteSet(files) BY <1>2, PathsAssumption, FS_Subset
<1> HIDE DEF files
<1> QED BY <1>1, <1>2, <1>3, SumNat

LEMMA SumInv == ASSUME IndexInv, NEW r \in Requests, Sum(r) PROVE IndexInv'
<1>0. ReqShapes BY DEF IndexInv
<1>1. /\ req[r].pc = "sum"
      /\ req' = [req EXCEPT ![r].pc = "cache", ![r].n = Bytes(IF ready THEN RowItems ELSE disk)]
      /\ UNCHANGED <<disk, rows, scan, hooks, ready, used, calm, ghosts>>
  BY DEF Sum
<1> DEFINE n == Bytes(IF ready THEN RowItems ELSE disk)
           q == [req[r] EXCEPT !.pc = "cache", !.n = n]
<1>2. n \in Nat BY BytesNat
<1>3. req' = [req EXCEPT ![r] = q] BY <1>0, <1>1 DEF ReqShapes
<1> HIDE DEF n
<1>4. q \in Reqs /\ q.pc = "cache" BY <1>0, <1>1, <1>2, ReqIs DEF Reqs
<1> HIDE DEF q
<1>5. ReqShapes' BY <1>0, <1>3, <1>4, ReqTo
<1>6. HookShapes' /\ used' \in Nat \cup {Nil} BY <1>1 DEF IndexInv, Tables, HookShapes
<1> QED BY <1>1, <1>5, <1>6, ReqMovesInv DEF ReqMoves

LEMMA CacheInv == ASSUME IndexInv, NEW r \in Requests, Cache(r) PROVE IndexInv'
<1>0. ReqShapes BY DEF IndexInv
<1>1. /\ req[r].pc = "cache" /\ used' = req[r].n /\ Decide(r, req[r], req[r].n)
      /\ UNCHANGED <<disk, rows, scan, hooks, ready, calm, ghosts>>
  BY DEF Cache
<1>2. /\ req[r] \in [pc : {"sum", "cache", "write", "add"}, p : Paths \cup {<<>>}, size : Sizes, n : Nat]
      /\ req[r].n \in Nat
  BY <1>0, <1>1, ReqIs
<1>3. ReqShapes' BY <1>0, <1>1, <1>2, DecideTyped
<1>4. HookShapes' BY <1>1 DEF IndexInv, HookShapes
<1> QED BY <1>1, <1>2, <1>3, <1>4, ReqMovesInv DEF ReqMoves

LEMMA AncestorsTyped == ASSUME NEW p \in Paths PROVE Ancestors(p) \in Seq(Paths)
<1>1. Len(p) \in Nat BY PathIs
<1>2. \A i \in 1..Len(p) : Len(p) + 1 - i \in 1..Len(p) BY <1>1
<1>3. \A i \in 1..Len(p) : SubSeq(p, 1, Len(p) + 1 - i) \in Paths BY <1>2, PathsAssumption
<1>4. Ancestors(p) \in [1..Len(p) -> Paths] BY <1>3 DEF Ancestors
<1> QED BY <1>1, <1>4

LEMMA UsageAddInv == ASSUME IndexInv, NEW r \in Requests, UsageAdd(r) PROVE IndexInv'
<1>0. ReqShapes BY DEF IndexInv
<1> DEFINE h == Hook(r, left.upload, "touch", Ancestors(req[r].p))
<1>1. /\ req[r].pc = "add" /\ used' = (IF used = Nil THEN Nil ELSE used + req[r].size)
      /\ hooks' = hooks \cup {h} /\ req' = [req EXCEPT ![r] = Idle]
      /\ UNCHANGED <<disk, rows, scan, ready, calm, ghosts>>
  BY DEF UsageAdd
<1>2. req[r].p \in Paths /\ req[r].size \in Nat BY <1>0, <1>1, ReqIs, SizesAssumption
<1>3. HookOK(h) BY <1>2, AncestorsTyped, HookIs DEF HookKinds
<1> HIDE DEF h
<1>4. HookShapes' BY <1>1, <1>3 DEF IndexInv, HookShapes
<1>5. ReqShapes' BY <1>0, <1>1, IdleIs, ReqTo
<1>6. used' \in Nat \cup {Nil} BY <1>1, <1>2 DEF IndexInv, Tables
<1> QED BY <1>1, <1>4, <1>5, <1>6, ReqMovesInv DEF ReqMoves

LEMMA ExpireInv == ASSUME IndexInv, Expire PROVE IndexInv'
<1>1. used' = Nil /\ UNCHANGED <<disk, rows, scan, hooks, ready, req, calm, ghosts>> BY DEF Expire, Expired
<1>2. HookShapes' /\ ReqShapes' BY <1>1 DEF IndexInv, HookShapes, ReqShapes
<1> QED BY <1>1, <1>2, ReqMovesInv DEF ReqMoves

-----------------------------------------------------------------------------
(* Changes of the disk.                                                    *)

DiskMoves ==
  /\ disk' \in Trees /\ HookShapes' /\ ReqShapes'
  /\ UNCHANGED <<rows, scan, ready, used>> /\ Calmed

LEMMA DiskMovesInv == ASSUME IndexInv, DiskMoves PROVE IndexInv'
<1>1. ScanSound' /\ calm' \subseteq Paths /\ ghosts' \subseteq Paths BY CalmKeeps DEF IndexInv, Tables, DiskMoves
<1>2. Tables' BY <1>1 DEF IndexInv, Tables, DiskMoves
<1>3. ScanShape' BY DEF IndexInv, ScanShape, DiskMoves
<1> QED BY <1>1, <1>2, <1>3 DEF IndexInv, DiskMoves

LEMMA WriteInv == ASSUME IndexInv, NEW r \in Requests, Write(r) PROVE IndexInv'
<1>0. ReqShapes /\ disk \in Trees BY DEF IndexInv, Tables
<1> DEFINE p == req[r].p
           size == req[r].size
           way == {q \in Paths : IsStrictPrefix(q, p)}
           stuck == disk[p] = Dir \/ \E q \in way : disk[q] \in Sizes
<1>1. /\ req[r].pc = "write" /\ UNCHANGED <<rows, scan, hooks, ready, used>> /\ Calmed
      /\ stuck => disk' = disk /\ req' = [req EXCEPT ![r] = Idle]
      /\ ~stuck =>
           /\ disk' = [q \in Paths |-> IF q = p THEN size ELSE IF q \in way THEN Dir ELSE disk[q]]
           /\ req' = [req EXCEPT ![r].pc = "add"]
  BY DEF Write
<1>2. p \in Paths /\ size \in Sizes BY <1>0, <1>1, ReqIs
<1>3. disk' \in Trees
  <2>1. CASE stuck BY <1>0, <1>1, <2>1
  <2>2. CASE ~stuck
    <3>1. disk[p] # Dir /\ \A q \in way : disk[q] \notin Sizes BY <2>2
    <3> HIDE DEF p, size, stuck
    <3>2. [q \in Paths |-> IF q = p THEN size ELSE IF q \in way THEN Dir ELSE disk[q]] \in Trees
      BY <1>0, <1>2, <3>1, WrittenTree
    <3> QED BY <1>1, <2>2, <3>2
  <2> QED BY <2>1, <2>2
<1>4. ReqShapes'
  <2>1. CASE stuck BY <1>0, <1>1, <2>1, IdleIs, ReqTo
  <2>2. CASE ~stuck
    <3> DEFINE q == [req[r] EXCEPT !.pc = "add"]
    <3>1. req' = [req EXCEPT ![r] = q] BY <1>0, <1>1, <2>2 DEF ReqShapes
    <3>2. q \in Reqs /\ q.p \in Paths BY <1>0, <1>1, <1>2, ReqIs DEF Reqs
    <3> HIDE DEF q, stuck
    <3> QED BY <1>0, <3>1, <3>2, ReqTo
  <2> QED BY <2>1, <2>2
<1> HIDE DEF stuck
<1>5. HookShapes' BY <1>1 DEF IndexInv, HookShapes
<1> QED BY <1>1, <1>3, <1>4, <1>5, DiskMovesInv DEF DiskMoves

LEMMA OnePath == ASSUME NEW p \in Paths PROVE <<p>> \in Seq(Paths)
  OBVIOUS

LEMMA DeleteInv == ASSUME IndexInv, NEW p \in Paths, Delete(p) PROVE IndexInv'
<1> DEFINE h == Hook("change", left.change, "remove", <<p>>)
<1>1. /\ disk' = Gone(p) /\ hooks' = hooks \cup {h}
      /\ UNCHANGED <<rows, scan, ready, used, req>> /\ Calmed
  BY DEF Delete
<1>2. HookOK(h) BY OnePath, HookIs DEF HookKinds
<1> HIDE DEF h
<1>3. disk' \in Trees BY <1>1, GoneTree DEF IndexInv, Tables
<1>4. HookShapes' /\ ReqShapes' BY <1>1, <1>2 DEF IndexInv, HookShapes, ReqShapes
<1> QED BY <1>1, <1>3, <1>4, DiskMovesInv DEF DiskMoves

LEMMA RenameInv == ASSUME IndexInv, NEW p \in Paths, NEW q \in Paths, Rename(p, q) PROVE IndexInv'
<1> DEFINE h == Hook("change", left.change, "remove", <<p>>)
           g == Hook("change", left.change, "tree", <<q>>)
<1>1. /\ disk[p] # Nil /\ disk[q] = Nil /\ IsFolder(Front(q)) /\ ~IsPrefix(p, q) /\ Fits(p, q)
      /\ disk' = Renamed(p, q) /\ hooks' = hooks \cup {h, g}
      /\ UNCHANGED <<rows, scan, ready, used, req>> /\ Calmed
  BY DEF Rename, Fits
<1>2. HookOK(h) /\ HookOK(g) BY OnePath, HookIs DEF HookKinds
<1> HIDE DEF h, g
<1>3. disk' \in Trees BY <1>1, RenamedTree DEF IndexInv, Tables
<1>4. HookShapes' /\ ReqShapes' BY <1>1, <1>2 DEF IndexInv, HookShapes, ReqShapes
<1> QED BY <1>1, <1>3, <1>4, DiskMovesInv DEF DiskMoves

LEMMA OutsideInv == ASSUME IndexInv, NEW p \in Paths, Outside(p) PROVE IndexInv'
<1>1. /\ IsFolder(Front(p)) /\ UNCHANGED <<rows, scan, hooks, ready, used, req>> /\ Calmed
      /\ \E entry \in Items \cup {Nil} : disk' = [Gone(p) EXCEPT ![p] = entry]
  BY DEF Outside
<1>2. disk' \in Trees BY <1>1, OutsideTree DEF IndexInv, Tables
<1>3. HookShapes' /\ ReqShapes' BY <1>1 DEF IndexInv, HookShapes, ReqShapes
<1> QED BY <1>1, <1>2, <1>3, DiskMovesInv DEF DiskMoves

LEMMA RestartInv == ASSUME IndexInv, Restart PROVE IndexInv'
<1>1. /\ scan' = Idle /\ hooks' = {} /\ used' = Nil /\ req' = [r \in Requests |-> Idle]
      /\ ready' \in BOOLEAN /\ calm' = {} /\ ghosts' = {} /\ UNCHANGED <<disk, rows>>
  BY DEF Restart, Forgotten, IndexInv, Tables
<1>2. Tables' BY <1>1 DEF IndexInv, Tables
<1>3. HookShapes' /\ ReqShapes' BY <1>1, IdleIs DEF HookShapes, ReqShapes
<1> QED BY <1>1, <1>2, <1>3, ScanIdle DEF IndexInv

-----------------------------------------------------------------------------
(* The theorem.                                                            *)

LEMMA StepIndexInv == ASSUME IndexInv, [IndexNext]_indexVars PROVE IndexInv'
<1>1. CASE ScanStep \/ ScanStart \/ ScanAbort
  BY <1>1, ScanStartInv, ScanVisitInv, ScanFlushInv, ScanSweepInv, ScanStateInv, ScanEndInv,
     ScanAbortInv DEF ScanStep
<1>2. CASE \E h \in hooks : HookStep(h)
  BY <1>2, TouchStatInv, TreeDropInv, TreeVisitInv, HookEndsInv DEF HookStep
<1>3. CASE \E r \in Requests : AskUsage(r) \/ ReqStep(r)
  BY <1>3, AskUsageInv, SumInv, CacheInv, WriteInv, UsageAddInv DEF ReqStep
<1>4. CASE \E p \in Paths : Delete(p) \/ Outside(p) BY <1>4, DeleteInv, OutsideInv
<1>5. CASE \E p, q \in Paths : Rename(p, q) BY <1>5, RenameInv
<1>6. CASE UNCHANGED indexVars
  <2>1. UNCHANGED <<disk, rows, scan, hooks, ready, used, req, calm, ghosts>> BY <1>6 DEF indexVars
  <2>2. HookShapes' /\ ReqShapes' /\ used' \in Nat \cup {Nil}
    BY <2>1 DEF IndexInv, Tables, HookShapes, ReqShapes
  <2> QED BY <2>1, <2>2, ReqMovesInv DEF ReqMoves
<1> QED BY <1>1, <1>2, <1>3, <1>4, <1>5, <1>6, ExpireInv, RestartInv DEF IndexNext

LEMMA SoundScan == ASSUME IndexInv PROVE ScanIsTheDisk
<1>1. \A h \in hooks : h.kind \in {"touch", "tree", "walk", "remove"}
  BY DEF IndexInv, HookShapes, HookOK, HookKinds
<1>2. \A r \in Requests : req[r].pc \in {"idle", "sum", "cache", "write", "add"}
  BY IdleIs DEF IndexInv, ReqShapes, Reqs
<1>3. IndexTypeOK BY <1>1, <1>2 DEF IndexTypeOK, IndexInv, Tables, ScanShape
<1> QED BY <1>3 DEF ScanIsTheDisk, IndexInv, ScanSound, Shown

\* A full scan records itself only after each path that nothing else touched
\* since it started has the row of what is there, whatever hooks, requests and
\* other programs do meanwhile; where nothing is there, it has none, unless a scan
\* that failed had stamped it before (FullScan in index/indexer.go).
THEOREM ScansAreTrue == IndexSpec => []ScanIsTheDisk
<1>1. IndexInit => IndexInv BY InitIndexInv
<1>2. IndexInv /\ [IndexNext]_indexVars => IndexInv' BY StepIndexInv
<1>3. IndexInv => ScanIsTheDisk BY SoundScan
<1> QED BY <1>1, <1>2, <1>3, PTL DEF IndexSpec

=============================================================================
