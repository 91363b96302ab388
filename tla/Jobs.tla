-------------------------------- MODULE Jobs --------------------------------
(***************************************************************************)
(* Background jobs and their recovery (internal/jobs/manager.go,           *)
(* internal/server/recovery.go, internal/store/jobs.go) with the jobs that *)
(* leave something on disk: extractions, archives and copies.              *)
(*                                                                         *)
(* All of them work in one folder, which may be on a disk that is not      *)
(* there after a restart. A job writes down in job_cleanup what a crash    *)
(* would leave behind; the hourly maintenance consumes the rows of jobs    *)
(* that run no more. Every call to the disk or the database is a step.     *)
(***************************************************************************)
CONSTANTS
  Extract, Archive, Copy,   \* ids of jobs, by type
  Name,                     \* names in the folder
  Absent, Owner             \* nothing at a name; an item no job made

Job == Extract \cup Archive \cup Copy

ASSUME TypesAreDisjoint ==
  Extract \cap Archive = {} /\ Copy \cap (Extract \cup Archive) = {}
ASSUME SomethingToDo == Job # {} /\ Name # {}
ASSUME NothingIsNoJob == Absent # Owner /\ {Absent, Owner} \cap Job = {}

VARIABLES
  pc, result,   \* the goroutine of a job, and the state it ends in
  target,       \* the name it works on
  tick,         \* jobs whose ticker holds a snapshot that says running
  state, told,  \* table jobs: column state, and rows whose error says what was removed
  cleanup,      \* table job_cleanup: pairs of a job and a name
  placed,       \* what is at each name: the job that made it, Owner or Absent
  zip,          \* the job whose temporary archive is beside a name, or Absent
  temp,         \* copies with a temporary on disk
  filled,       \* extractions that wrote an entry
  whole,        \* extractions that wrote their last
  mounted,      \* the disk of the folder is there
  rec           \* the maintenance

goroutines == <<pc, result, target, tick>>
table == <<state, told, cleanup>>
content == <<filled, whole>>
folder == <<placed, zip, temp, content>>
jobsVars == <<goroutines, table, folder, mounted, rec>>

-----------------------------------------------------------------------------
\* A job that was cancelled counts as failed.
Final == {"done", "failed"}
Steps == {"new", "name", "guard", "open", "work", "publish", "undo", "unguard", "finish", "persist", "over"}
Row == Job \X Name
AnyName == CHOOSE n \in Name : TRUE
AnyRow == CHOOSE r \in Row : TRUE
RecIdle == [pc |-> "idle", todo |-> {}, cur |-> AnyRow, listed |-> {}, pending |-> {}]

JobsTypeOK ==
  /\ pc \in [Job -> Steps] /\ result \in [Job -> Final] /\ target \in [Job -> Name]
  /\ \A j \in Job : pc[j] = "undo" => j \in Extract
  /\ tick \subseteq {j \in Job : pc[j] # "new"}
  /\ state \in [Job -> Final \cup {"none", "running"}]
  /\ \A j \in Job : state[j] = "none" <=> pc[j] = "new"
  /\ cleanup \subseteq Row
  /\ placed \in [Name -> Job \cup {Absent, Owner}]
  /\ zip \in [Name -> Archive \cup {Absent}]
  /\ temp \subseteq Copy /\ filled \cup whole \subseteq Extract /\ told \subseteq Job
  /\ mounted \in BOOLEAN
  /\ rec \in [pc : {"idle", "row", "forget", "tell"}, todo : SUBSET Row, cur : Row,
              listed : SUBSET Job, pending : SUBSET Job]

JobsInit ==
  /\ pc = [j \in Job |-> "new"] /\ result = [j \in Job |-> "done"]
  /\ target = [j \in Job |-> AnyName]
  /\ tick = {} /\ told = {} /\ cleanup = {} /\ temp = {} /\ filled = {} /\ whole = {}
  /\ state = [j \in Job |-> "none"]
  /\ placed = [n \in Name |-> Absent] /\ zip = [n \in Name |-> Absent]
  /\ mounted = TRUE /\ rec = RecIdle

Goto(j, l) == pc' = [pc EXCEPT ![j] = l]
Running(j) == pc[j] \notin {"new", "persist", "over"}

\* The function of the job returns an error, or the error of its context.
Fail(j, l) ==
  /\ Goto(j, l)
  /\ result' = [result EXCEPT ![j] = "failed"]

-----------------------------------------------------------------------------
(* Manager.StartLabeled and its goroutine.                                 *)

\* The row of the history precedes the goroutine.
Start(j) ==
  /\ mounted /\ pc[j] = "new"
  /\ Goto(j, "name")
  /\ state' = [state EXCEPT ![j] = "running"]
  /\ UNCHANGED <<result, target, tick, told, cleanup, folder, mounted, rec>>

\* Scope, sizes, quota: what may fail before the job touches the disk.
JobRefuse(j) ==
  /\ pc[j] = "name"
  /\ Fail(j, "unguard")
  /\ UNCHANGED <<target, tick, table, folder, mounted, rec>>

\* Mutant: the ticker starts before the row is written.
TickReadEarly(j) ==
  /\ pc[j] \notin {"persist", "over"} /\ j \notin tick
  /\ tick' = tick \cup {j}
  /\ UNCHANGED <<pc, result, target, table, folder, mounted, rec>>

\* The ticker reads a snapshot and writes it some time later, perhaps after the
\* job wrote its last.
TickRead(j) ==
  /\ Running(j) /\ j \notin tick
  /\ tick' = tick \cup {j}
  /\ UNCHANGED <<pc, result, target, table, folder, mounted, rec>>

TickWrite(j) ==
  /\ j \in tick
  /\ tick' = tick \ {j}
  /\ state' = [state EXCEPT ![j] = "running"]
  /\ UNCHANGED <<pc, result, target, told, cleanup, folder, mounted, rec>>

\* Mutant: nothing is written down.
GuardNothing(j) ==
  /\ pc[j] = "guard"
  /\ Goto(j, "open")
  /\ UNCHANGED <<result, target, tick, table, folder, mounted, rec>>

\* guardJob
Guard(j) ==
  /\ pc[j] = "guard"
  /\ cleanup' = cleanup \cup {<<j, target[j]>>}
  /\ Goto(j, "open")
  /\ UNCHANGED <<result, target, tick, state, told, folder, mounted, rec>>

\* unguardJob, deferred: it runs however the job ends.
Unguard(j) ==
  /\ pc[j] = "unguard"
  /\ cleanup' = {r \in cleanup : r[1] # j}
  /\ Goto(j, "finish")
  /\ UNCHANGED <<result, target, tick, state, told, folder, mounted, rec>>

\* The view gets its final state, and then the row.
JobFinish(j) ==
  /\ pc[j] = "finish"
  /\ Goto(j, "persist")
  /\ UNCHANGED <<result, target, tick, table, folder, mounted, rec>>

Persist(j) ==
  /\ pc[j] = "persist"
  /\ state' = [state EXCEPT ![j] = result[j]]
  /\ Goto(j, "over")
  /\ UNCHANGED <<result, target, tick, told, cleanup, folder, mounted, rec>>

-----------------------------------------------------------------------------
(* handleExtract                                                           *)

FreeNames == {n \in Name : placed[n] = Absent}

\* newExtractDir tries further names as long as it loses them to others.
Mkdir(j) ==
  /\ j \in Extract /\ pc[j] = "name"
  /\ \E n \in FreeNames :
       /\ placed' = [placed EXCEPT ![n] = j]
       /\ target' = [target EXCEPT ![j] = n]
  /\ Goto(j, "guard")
  /\ UNCHANGED <<result, tick, table, zip, temp, content, mounted, rec>>

\* ExtractZip opens the folder by its path and then works in what it opened.
ExtractOpen(j) ==
  /\ j \in Extract /\ pc[j] = "open"
  /\ \/ placed[target[j]] # Absent /\ Goto(j, "work") /\ UNCHANGED result
     \/ Fail(j, "undo")
  /\ UNCHANGED <<target, tick, table, folder, mounted, rec>>

ExtractEntry(j) ==
  /\ j \in Extract /\ pc[j] = "work"
  /\ filled' = filled \cup {j}
  /\ UNCHANGED <<goroutines, table, placed, zip, temp, whole, mounted, rec>>

ExtractDone(j) ==
  /\ j \in Extract /\ pc[j] = "work"
  /\ whole' = whole \cup {j}
  /\ Goto(j, "unguard") /\ result' = [result EXCEPT ![j] = "done"]
  /\ UNCHANGED <<target, tick, table, placed, zip, temp, filled, mounted, rec>>

\* Limits and cancellation; other errors skip an entry.
ExtractFails(j) ==
  /\ j \in Extract /\ pc[j] = "work"
  /\ Fail(j, "undo")
  /\ UNCHANGED <<target, tick, table, folder, mounted, rec>>

\* What is at the path by then is removed.
Undo(j) ==
  /\ pc[j] = "undo"
  /\ placed' = [placed EXCEPT ![target[j]] = Absent]
  /\ Goto(j, "unguard")
  /\ UNCHANGED <<result, target, tick, table, zip, temp, content, mounted, rec>>

-----------------------------------------------------------------------------
(* handleArchive, handleCopy: a free name is looked up first.              *)

\* UniqueIfExists, ResolveDest
Lookup(j) ==
  /\ j \in Archive \cup Copy /\ pc[j] = "name"
  /\ \E n \in FreeNames : target' = [target EXCEPT ![j] = n]
  /\ Goto(j, "guard")
  /\ UNCHANGED <<result, tick, table, folder, mounted, rec>>

\* WriteZipFile: the temporary is named after the archive, and must be new.
ZipOpen(j) ==
  LET n == target[j] IN
  /\ j \in Archive /\ pc[j] = "open"
  /\ \/ zip[n] = Absent /\ zip' = [zip EXCEPT ![n] = j] /\ Goto(j, "work") /\ UNCHANGED result
     \/ Fail(j, "unguard") /\ UNCHANGED zip
  /\ UNCHANGED <<target, tick, table, placed, temp, content, mounted, rec>>

ZipDone(j) ==
  /\ j \in Archive /\ pc[j] = "work"
  /\ Goto(j, "publish")
  /\ UNCHANGED <<result, target, tick, table, folder, mounted, rec>>

ZipFails(j) ==
  /\ j \in Archive /\ pc[j] = "work"
  /\ zip' = [zip EXCEPT ![target[j]] = Absent]
  /\ Fail(j, "unguard")
  /\ UNCHANGED <<target, tick, table, placed, temp, content, mounted, rec>>

\* Rename of whatever has the name of the temporary, over a file if one came to
\* the name in the meantime.
ZipPublish(j) ==
  LET n == target[j] IN
  /\ j \in Archive /\ pc[j] = "publish"
  /\ IF zip[n] # Absent /\ placed[n] \notin Extract
     THEN /\ placed' = [placed EXCEPT ![n] = zip[n]]
          /\ Goto(j, "unguard") /\ result' = [result EXCEPT ![j] = "done"]
     ELSE Fail(j, "unguard") /\ UNCHANGED placed
  /\ zip' = [zip EXCEPT ![n] = Absent]
  /\ UNCHANGED <<target, tick, table, temp, content, mounted, rec>>

\* Policy skip: the name of every further source is taken.
CopySkips(j) ==
  /\ j \in Copy /\ pc[j] = "name" /\ FreeNames # Name
  /\ Goto(j, "unguard") /\ result' = [result EXCEPT ![j] = "done"]
  /\ UNCHANGED <<target, tick, table, folder, mounted, rec>>

\* copyFile: the temporary bears the id of the job.
CopyOpen(j) ==
  /\ j \in Copy /\ pc[j] = "open"
  /\ \/ temp' = temp \cup {j} /\ Goto(j, "work") /\ UNCHANGED result
     \/ Fail(j, "unguard") /\ UNCHANGED temp
  /\ UNCHANGED <<target, tick, table, placed, zip, content, mounted, rec>>

CopyFails(j) ==
  /\ j \in Copy /\ pc[j] = "work"
  /\ temp' = temp \ {j}
  /\ Fail(j, "unguard")
  /\ UNCHANGED <<target, tick, table, placed, zip, content, mounted, rec>>

\* The link refuses a name that was taken; another source may follow.
CopyPublish(j) ==
  LET n == target[j] IN
  /\ j \in Copy /\ pc[j] = "work"
  /\ temp' = temp \ {j}
  /\ IF placed[n] # Absent
     THEN Fail(j, "unguard") /\ UNCHANGED placed
     ELSE /\ placed' = [placed EXCEPT ![n] = j]
          /\ \/ Goto(j, "name") /\ UNCHANGED result
             \/ Goto(j, "unguard") /\ result' = [result EXCEPT ![j] = "done"]
  /\ UNCHANGED <<target, tick, table, zip, content, mounted, rec>>

-----------------------------------------------------------------------------
(* recoverInterruptedJobs                                                  *)

\* Mutant: rows of every job.
RecListAll ==
  /\ rec.pc = "idle" /\ cleanup # {}
  /\ rec' = [RecIdle EXCEPT !.pc = "row", !.todo = cleanup, !.listed = {r[1] : r \in cleanup}]
  /\ UNCHANGED <<goroutines, table, folder, mounted>>

\* The rows of jobs that run no more.
RecList ==
  /\ rec.pc = "idle"
  /\ LET rows == {r \in cleanup : state[r[1]] # "running"} IN
     /\ rows # {}
     /\ rec' = [RecIdle EXCEPT !.pc = "row", !.todo = rows, !.listed = {r[1] : r \in rows}]
  /\ UNCHANGED <<goroutines, table, folder, mounted>>

\* Mutant: a row that must wait does not keep its job from being closed.
RecSkipForgetful ==
  /\ rec.pc = "row"
  /\ \E r \in rec.todo : rec' = [rec EXCEPT !.todo = @ \ {r}]
  /\ UNCHANGED <<goroutines, table, folder, mounted>>

\* The folder is not there, or the removal fails.
RecSkip ==
  /\ rec.pc = "row"
  /\ \E r \in rec.todo : rec' = [rec EXCEPT !.todo = @ \ {r}, !.pending = @ \cup {r[1]}]
  /\ UNCHANGED <<goroutines, table, folder, mounted>>

\* The five minutes of a round are over.
RecAbort ==
  /\ rec.pc = "row"
  /\ rec' = RecIdle
  /\ UNCHANGED <<goroutines, table, folder, mounted>>

\* RemoveTree of a folder or of a temporary archive, RemoveTemps of a copy.
RecRemove ==
  /\ rec.pc = "row" /\ mounted
  /\ \E r \in rec.todo :
       LET j == r[1]
           n == r[2]
       IN
       /\ placed' = IF j \in Extract THEN [placed EXCEPT ![n] = Absent] ELSE placed
       /\ zip' = IF j \in Archive THEN [zip EXCEPT ![n] = Absent] ELSE zip
       /\ temp' = temp \ {j}
       /\ rec' = [rec EXCEPT !.pc = "forget", !.cur = r]
  /\ UNCHANGED <<goroutines, table, content, mounted>>

RecForget ==
  /\ rec.pc = "forget"
  /\ cleanup' = cleanup \ {rec.cur}
  /\ rec' = [rec EXCEPT !.pc = "row", !.todo = @ \ {rec.cur}, !.cur = AnyRow]
  /\ UNCHANGED <<goroutines, state, told, folder, mounted>>

RecEnd ==
  /\ rec.pc = "row" /\ rec.todo = {}
  /\ rec' = [rec EXCEPT !.pc = "tell"]
  /\ UNCHANGED <<goroutines, table, folder, mounted>>

\* SetJobError of every job with no row left over.
RecTell ==
  /\ rec.pc = "tell"
  /\ told' = told \cup (rec.listed \ rec.pending)
  /\ rec' = RecIdle
  /\ UNCHANGED <<goroutines, state, cleanup, folder, mounted>>

-----------------------------------------------------------------------------
(* The environment.                                                        *)

\* A user puts an item of his own at a free name, or removes one.
OwnerPuts(n) ==
  /\ mounted /\ placed[n] = Absent
  /\ placed' = [placed EXCEPT ![n] = Owner]
  /\ UNCHANGED <<goroutines, table, zip, temp, content, mounted, rec>>

OwnerRemoves(n) ==
  /\ mounted /\ placed[n] # Absent
  /\ placed' = [placed EXCEPT ![n] = Absent]
  /\ UNCHANGED <<goroutines, table, zip, temp, content, mounted, rec>>

\* Mutant: the next process leaves the history as it is.
CrashUnmarked ==
  /\ pc' = [j \in Job |-> IF pc[j] = "new" THEN "new" ELSE "over"]
  /\ tick' = {} /\ rec' = RecIdle
  /\ mounted' \in BOOLEAN
  /\ UNCHANGED <<result, target, table, folder>>

\* The process dies, and the next one marks what it finds running
\* (MarkInterruptedJobs). The disk may be late.
Crash ==
  /\ pc' = [j \in Job |-> IF pc[j] = "new" THEN "new" ELSE "over"]
  /\ state' = [j \in Job |-> IF state[j] = "running" THEN "failed" ELSE state[j]]
  /\ tick' = {} /\ rec' = RecIdle
  /\ mounted' \in BOOLEAN
  /\ UNCHANGED <<result, target, told, cleanup, folder>>

Mount ==
  /\ ~mounted
  /\ mounted' = TRUE
  /\ UNCHANGED <<goroutines, table, folder, rec>>

-----------------------------------------------------------------------------
Manage(j) ==
  \/ Start(j) \/ JobRefuse(j) \/ TickRead(j) \/ TickWrite(j) \/ Guard(j) \/ Unguard(j)
  \/ JobFinish(j) \/ Persist(j)
Unzip(j) ==
  \/ Mkdir(j) \/ ExtractOpen(j) \/ ExtractEntry(j) \/ ExtractDone(j) \/ ExtractFails(j)
  \/ Undo(j)
ZipUp(j) == ZipOpen(j) \/ ZipDone(j) \/ ZipFails(j) \/ ZipPublish(j)
CopyFiles(j) == CopySkips(j) \/ CopyOpen(j) \/ CopyFails(j) \/ CopyPublish(j)
Recover == RecList \/ RecRemove \/ RecForget \/ RecEnd \/ RecTell

Steady ==
  \/ \E j \in Job : Manage(j) \/ Unzip(j) \/ Lookup(j) \/ ZipUp(j) \/ CopyFiles(j)
  \/ Recover \/ (~mounted /\ RecSkip) \/ Mount
  \/ \E n \in Name : OwnerPuts(n) \/ OwnerRemoves(n)

JobsNext == Steady \/ RecSkip \/ RecAbort \/ Crash

JobsSpec == JobsInit /\ [][JobsNext]_jobsVars

-----------------------------------------------------------------------------
(* Fairness: the maintenance starts every hour and goes on, a disk that is *)
(* late arrives, and from some time on there is neither a crash nor a      *)
(* round that fails or is cut.                                             *)

FairSpec == JobsSpec /\ WF_jobsVars(Recover \/ RecSkip) /\ WF_jobsVars(Mount) /\ <>[][Steady]_jobsVars

-----------------------------------------------------------------------------
(* Properties.                                                             *)

HalfExtracted(j) == j \in filled \ whole /\ \E n \in Name : placed[n] = j
Leftover(j) == HalfExtracted(j) \/ j \in temp \/ \E n \in Name : zip[n] = j

\* What a crash leaves half-made is always written down for the maintenance, and
\* a row of the history that still says running never hides it (guardJob before
\* the disk, unguardJob after it, ListOrphanCleanup).
LeftoversListed ==
  \A j \in Job : Leftover(j) /\ pc[j] = "over" =>
    state[j] # "running" /\ \E r \in cleanup : r[1] = j

\* The history tells that the leftovers of a job were removed only if they were,
\* in rounds that fail in part, without the disk, or cut by a crash.
TextIsTrue == \A j \in told : ~Leftover(j)

\* The maintenance takes the rows of jobs that ended or died, never those of one
\* that runs, whatever its ticker and the maintenance wrote or read before
\* (StartLabeled writes the row first, unguardJob precedes the final state).
RunningSpared == \A r \in rec.todo : pc[r[1]] = "over"

\* In the end nothing half-made is left of any job that ended or died, with the
\* disk late and rounds of maintenance that fail (recoverInterruptedJobs).
LeftoversGo == <>[](\A j \in Job : pc[j] = "over" => ~Leftover(j))

=============================================================================
