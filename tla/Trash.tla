-------------------------------- MODULE Trash --------------------------------
(***************************************************************************)
(* The trash (internal/server/handlers_trash.go, internal/vfs/trash.go):   *)
(* an item is moved into .filezam-trash/<id>/, across devices by copying   *)
(* and removing, and restored, purged or expired from there. The row of a  *)
(* deletion precedes the move and is pending until the item is whole in    *)
(* the trash; maintenance resumes those that a crash cut short.            *)
(*                                                                         *)
(* Workers run concurrently and stop between any two calls; a crash ends   *)
(* them all. Temporaries of copies are left out: a copy appears whole.     *)
(***************************************************************************)
EXTENDS Integers, FiniteSets, FiniteSetsExt

CONSTANTS
  Job,      \* deletion jobs
  User,     \* requests that restore or delete for good
  Hourly,   \* the maintenance goroutine
  Id,       \* ids of deletions
  Path,     \* a path and the variants UniqueIfExists tries, in order
  Folder,   \* those that name folders; the others name files
  Mount,    \* those on another device than the trash
  File      \* files: a name in its folder, and a content

ASSUME PathsAreOrdered ==
  Path \subseteq Nat /\ IsFiniteSet(Path) /\ Folder \subseteq Path /\ Mount \subseteq Path
ASSUME SortsAreDisjoint ==
  Path \cap Id = {} /\ Job \cap User = {} /\ Hourly \notin Job \cup User
ASSUME SomethingToDelete == Path # {} /\ Id # {}

Place == Path \cup Id          \* an item at its path, or in the trash under an id
Worker == Job \cup User \cup {Hourly}

VARIABLES
  at,         \* the files of the item at each place
  there,      \* places where an item exists, perhaps an empty folder
  box,        \* ids whose folder exists in the trash
  row,        \* table trash
  origin,     \* its column path
  old,        \* rows written before this process started
  wk,         \* the workers
  queue,      \* ids the maintenance has listed and not reached
  taken,      \* per id, the files the item had when it was moved
  disturbed,  \* ids somebody else interfered with
  born        \* files that were ever written

disk == <<at, there, box>>
table == <<row, origin, old>>
ghost == <<taken, disturbed, born>>
vars == <<disk, table, wk, queue, ghost>>

-----------------------------------------------------------------------------
Steps == {"idle", "next", "check", "move", "copy", "remove", "purge", "unbox", "finish", "undo", "drop"}
WorkerState == [pc : Steps, id : Id, src : Place, dst : Place, todo : SUBSET File]

IsFolder(x) == IF x \in Path THEN x \in Folder ELSE origin[x] \in Folder
SameDevice(x, y) == {x, y} \cap Mount = {} \/ {x, y} \subseteq Mount
HasLeaf(x, f) == \E g \in at[x] : g[1] = f[1]

TypeOK ==
  /\ at \in [Place -> SUBSET File]
  /\ there \subseteq Place /\ \A x \in Place : at[x] # {} => x \in there
  /\ \A x \in Place : \A f, g \in at[x] : f[1] = g[1] => f = g
  /\ \A x \in there : IsFolder(x) \/ Cardinality(at[x]) = 1
  /\ there \cap Id \subseteq box /\ box \subseteq Id
  /\ row \in [Id -> {"none", "pending", "done"}]
  /\ origin \in [Id -> Path]
  /\ old \subseteq Id
  /\ wk \in [Worker -> WorkerState]
  /\ queue \subseteq Id
  /\ taken \in [Id -> SUBSET File]
  /\ disturbed \subseteq Id /\ born \subseteq File

NoId == CHOOSE d \in Id : TRUE
Resting == [pc |-> "idle", id |-> NoId, src |-> NoId, dst |-> NoId, todo |-> {}]

\* Empty; Write fills the paths.
Init ==
  /\ at = [x \in Place |-> {}] /\ there = {} /\ born = {}
  /\ box = {} /\ old = {} /\ queue = {} /\ disturbed = {}
  /\ row = [d \in Id |-> "none"]
  /\ origin = [d \in Id |-> Min(Path)]
  /\ wk = [w \in Worker |-> Resting]
  /\ taken = [d \in Id |-> {}]

At(w, l) == wk[w].pc = l
Become(w, r) == wk' = [wk EXCEPT ![w] = r]
Goto(w, l) == Become(w, [wk[w] EXCEPT !.pc = l, !.todo = {}])
Rest(w) == Become(w, Resting)

\* What ends a job or a request sends the maintenance to its next row.
End(w) == IF w = Hourly THEN Become(w, [Resting EXCEPT !.pc = "next"]) ELSE Rest(w)

\* Deletions of a path that are pending, or that the maintenance or a job still
\* takes for pending.
Claims(p) ==
  {d \in Id : /\ origin[d] = p
              /\ \/ row[d] = "pending" \/ d \in queue
                 \/ \E w \in Worker : wk[w].id = d /\ wk[w].src = p}
Fresh == {d \in Id : row[d] = "none" /\ d \notin box \cup queue /\ \A w \in Worker : At(w, "idle") \/ wk[w].id # d}

-----------------------------------------------------------------------------
(* How a worker goes on when moveOrCopy or RemoveTree ends.                *)

Restoring(w) == wk[w].dst \in Path
Purging(w) == wk[w].src = wk[w].dst

Moved(w) ==
  \/ Restoring(w) /\ Goto(w, "unbox")
  \/ Purging(w) /\ Goto(w, "drop")
  \/ ~Restoring(w) /\ ~Purging(w) /\ Goto(w, "finish")

\* Mutant: a copy that failed counts like a removal that failed.
FailedAsMoved(w) == IF w \in Job THEN Goto(w, "finish") ELSE End(w)

\* Any error before the item is whole at its destination: a deletion is undone,
\* the maintenance leaves its row for the next round.
Failed(w) == IF w \in Job THEN Goto(w, "undo") ELSE End(w)

\* ErrNotFound, which makes a restore drop the row.
NotFound(w) == IF Restoring(w) THEN Goto(w, "drop") ELSE Failed(w)

\* ErrSourceNotRemoved: a deletion counts as done.
NotRemoved(w) == IF w \in Job THEN Goto(w, "finish") ELSE End(w)
NotFoundToRemove(w) == IF Restoring(w) \/ Purging(w) THEN Goto(w, "drop") ELSE NotRemoved(w)

-----------------------------------------------------------------------------
(* moveOrCopy, CopyTree and RemoveTree, one call at a time.                *)

\* What arrives at a path disturbs the deletions that are pending there.
Disturb(x) == disturbed' = disturbed \cup (IF x \in Path THEN Claims(x) ELSE {})

\* The item is renamed, or its folder made and its files listed.
Move(w) ==
  LET src == wk[w].src
      dst == wk[w].dst
  IN
  /\ At(w, "move") /\ src \in there /\ dst \notin there
  /\ box' = box \cup ({dst} \cap Id)
  /\ taken' = IF dst \in Id THEN [taken EXCEPT ![dst] = at[src]] ELSE taken
  /\ Disturb(dst)
  /\ \/ /\ SameDevice(src, dst)
        /\ at' = [at EXCEPT ![src] = {}, ![dst] = at[src]]
        /\ there' = (there \ {src}) \cup {dst}
        /\ Moved(w)
     \/ /\ ~SameDevice(src, dst)
        /\ there' = there \cup (IF IsFolder(src) THEN {dst} ELSE {})
        /\ Become(w, [wk[w] EXCEPT !.pc = "copy", !.todo = at[src]])
        /\ UNCHANGED at
  /\ UNCHANGED <<table, queue, born>>

MoveFails(w) ==
  /\ At(w, "move")
  /\ \/ wk[w].src \notin there /\ NotFound(w)
     \/ Failed(w)
  /\ UNCHANGED <<disk, table, queue, ghost>>

\* The folder a file is copied into is still where it was.
Reachable(x) == (x \in Id => x \in box) /\ (IsFolder(x) => x \in there)

\* CopyTree keeps what is already at the destination.
Copy(w) ==
  LET dst == wk[w].dst IN
  /\ At(w, "copy") /\ Reachable(dst)
  /\ \E f \in wk[w].todo \cap at[wk[w].src] :
       /\ IsFolder(dst) \/ dst \notin there
       /\ at' = IF HasLeaf(dst, f) THEN at ELSE [at EXCEPT ![dst] = @ \cup {f}]
       /\ Become(w, [wk[w] EXCEPT !.todo = @ \ {f}])
  /\ there' = there \cup {dst}
  /\ Disturb(dst)
  /\ UNCHANGED <<box, table, queue, taken, born>>

\* A file that vanished is skipped, or found missing a moment later.
CopyGone(w) ==
  /\ At(w, "copy")
  /\ \E f \in wk[w].todo \ at[wk[w].src] :
       Become(w, [wk[w] EXCEPT !.todo = @ \ {f}]) \/ NotFound(w)
  /\ UNCHANGED <<disk, table, queue, ghost>>

\* An error of the file system, the cancellation of the job, or the end of the
\* five minutes of a round of maintenance.
CopyFails(w) ==
  /\ At(w, "copy")
  /\ \/ ~Reachable(wk[w].dst) /\ NotFound(w)
     \/ Failed(w)
  /\ UNCHANGED <<disk, table, queue, ghost>>

CopyDone(w) ==
  /\ At(w, "copy") /\ wk[w].todo = {}
  /\ \/ wk[w].src \in there
        /\ Become(w, [wk[w] EXCEPT !.pc = "remove", !.todo = at[wk[w].src]])
     \/ wk[w].src \notin there /\ NotFoundToRemove(w)
  /\ UNCHANGED <<disk, table, queue, ghost>>

RemoveOne(w) ==
  LET src == wk[w].src IN
  /\ At(w, "remove")
  /\ \E f \in wk[w].todo \cap at[src] :
       /\ at' = [at EXCEPT ![src] = @ \ {f}]
       /\ Become(w, [wk[w] EXCEPT !.todo = @ \ {f}])
  /\ there' = IF IsFolder(src) THEN there ELSE there \ {src}
  /\ UNCHANGED <<box, table, queue, ghost>>

\* The folder itself goes last, if it is empty. A purge takes the folder of the
\* id with it.
RemoveLast(w) ==
  LET src == wk[w].src IN
  /\ At(w, "remove") /\ wk[w].todo = {}
  /\ IsFolder(src) \/ Purging(w) => at[src] = {}
  /\ there' = IF IsFolder(src) THEN there \ {src} ELSE there
  /\ box' = IF Purging(w) THEN box \ {src} ELSE box
  /\ Moved(w)
  /\ UNCHANGED <<at, table, queue, ghost>>

RemoveFails(w) ==
  /\ At(w, "remove")
  /\ \/ wk[w].todo \ at[wk[w].src] # {} /\ NotFoundToRemove(w)
     \/ NotRemoved(w)
  /\ UNCHANGED <<disk, table, queue, ghost>>

-----------------------------------------------------------------------------
(* trashOne                                                                *)

\* The row comes first.
Delete(w) ==
  /\ w \in Job /\ At(w, "idle") /\ Fresh # {}
  /\ \E p \in Path \cap there :
       LET d == CHOOSE d \in Fresh : TRUE IN
       /\ row' = [row EXCEPT ![d] = "pending"]
       /\ origin' = [origin EXCEPT ![d] = p]
       /\ old' = old \ {d}
       /\ Become(w, [Resting EXCEPT !.pc = "move", !.id = d, !.src = p, !.dst = d])
       /\ taken' = [taken EXCEPT ![d] = {}]
       /\ disturbed' = IF Claims(p) = {} THEN disturbed \ {d} ELSE disturbed \cup Claims(p) \cup {d}
  /\ UNCHANGED <<disk, queue, born>>

\* FinishTrash; an error of the database is only logged.
Finish(w) ==
  /\ At(w, "finish")
  /\ row' = [row EXCEPT ![wk[w].id] = IF @ = "pending" THEN "done" ELSE @]
  /\ End(w)
  /\ UNCHANGED <<disk, origin, old, queue, ghost>>

FinishFails(w) ==
  /\ At(w, "finish")
  /\ End(w)
  /\ UNCHANGED <<disk, table, queue, ghost>>

\* RemoveTrashItem of a deletion that failed, and of a row without an item.
Undo(w) ==
  /\ At(w, "undo")
  /\ at' = [at EXCEPT ![wk[w].id] = {}]
  /\ there' = there \ {wk[w].id}
  /\ box' = box \ {wk[w].id}
  /\ Goto(w, "drop")
  /\ UNCHANGED <<table, queue, ghost>>

\* DeleteTrash
Drop(w) ==
  /\ At(w, "drop")
  /\ row' = [row EXCEPT ![wk[w].id] = "none"]
  /\ End(w)
  /\ UNCHANGED <<disk, origin, old, queue, ghost>>

-----------------------------------------------------------------------------
(* recoverPendingTrash                                                     *)

Recover ==
  /\ At(Hourly, "idle")
  /\ queue' = {d \in old : row[d] = "pending"} /\ queue' # {}
  /\ End(Hourly)
  /\ UNCHANGED <<disk, table, ghost>>

RecoverNext ==
  /\ At(Hourly, "next")
  /\ \/ \E d \in queue :
          /\ queue' = queue \ {d}
          /\ Become(Hourly, [Resting EXCEPT !.pc = "check", !.id = d, !.src = origin[d], !.dst = d])
     \/ queue = {} /\ Rest(Hourly) /\ UNCHANGED queue
  /\ UNCHANGED <<disk, table, ghost>>

\* Mutant: what is in the trash is taken for whole.
ResumeWhole(w) ==
  LET src == wk[w].src IN
  Become(w, [wk[w] EXCEPT
    !.pc = IF wk[w].dst \notin there THEN "move" ELSE "remove",
    !.todo = IF wk[w].dst \notin there THEN {} ELSE at[src]])

\* ResumeMoveToTrash: the normal move if nothing is in the trash yet, else a
\* folder is completed, and a file is whole already.
Resume(w) ==
  LET src == wk[w].src IN
  Become(w, [wk[w] EXCEPT
    !.pc = IF wk[w].dst \notin there THEN "move" ELSE IF IsFolder(src) THEN "copy" ELSE "remove",
    !.todo = IF wk[w].dst \notin there THEN {} ELSE at[src]])

\* Mutant: an item that is in the trash already is left alone.
CheckUnfinished(w) ==
  /\ At(w, "check")
  /\ \/ wk[w].src \in there /\ Resume(w)
     \/ wk[w].src \notin there /\ wk[w].dst \in there /\ End(w)
     \/ wk[w].src \notin there /\ wk[w].dst \notin there /\ Goto(w, "undo")
  /\ UNCHANGED <<disk, table, queue, ghost>>

\* The source decides: while it exists the deletion has not ended.
Check(w) ==
  /\ At(w, "check")
  /\ \/ wk[w].src \in there /\ Resume(w)
     \/ wk[w].src \notin there /\ wk[w].dst \in there /\ Goto(w, "finish")
     \/ wk[w].src \notin there /\ wk[w].dst \notin there /\ Goto(w, "undo")
  /\ UNCHANGED <<disk, table, queue, ghost>>

-----------------------------------------------------------------------------
(* Restores and purges, of every row that is visible, pending or not.      *)

\* UniqueIfExists
FreePaths(d) == {p \in Path : p >= origin[d] /\ (p \in Folder <=> origin[d] \in Folder) /\ p \notin there}

Restore(w) ==
  /\ w \in User /\ At(w, "idle")
  /\ \E d \in Id :
       /\ row[d] # "none" /\ FreePaths(d) # {}
       /\ Become(w, [Resting EXCEPT !.pc = "move", !.id = d, !.src = d, !.dst = Min(FreePaths(d))])
       /\ disturbed' = disturbed \cup {d}
  /\ UNCHANGED <<disk, table, queue, taken, born>>

\* The folder of the id is removed if it is empty, else the row stays.
Unbox(w) ==
  /\ At(w, "unbox")
  /\ IF wk[w].id \in there
     THEN End(w) /\ UNCHANGED box
     ELSE box' = box \ {wk[w].id} /\ Goto(w, "drop")
  /\ UNCHANGED <<at, there, table, queue, ghost>>

\* handleTrashDelete and handleTrashEmpty take any row, sweepTrash those that
\* are done and expired.
Expirable(w) == {d \in Id : row[d] = "done" \/ (row[d] = "pending" /\ w \in User)}

Purge(w) ==
  /\ w \notin Job /\ At(w, "idle")
  /\ \E d \in Expirable(w) :
       /\ Become(w, [Resting EXCEPT !.pc = "purge", !.id = d, !.src = d, !.dst = d])
       /\ disturbed' = disturbed \cup {d}
  /\ UNCHANGED <<disk, table, queue, taken, born>>

PurgeStart(w) ==
  /\ At(w, "purge")
  /\ \/ wk[w].src \in box
        /\ Become(w, [wk[w] EXCEPT !.pc = "remove", !.todo = at[wk[w].src]])
     \/ wk[w].src \notin box /\ Goto(w, "drop")
  /\ UNCHANGED <<disk, table, queue, ghost>>

-----------------------------------------------------------------------------
(* The environment.                                                        *)

\* A user writes a file that never existed before.
Write(p) ==
  /\ \E f \in File :
       /\ f \notin born
       /\ p \in Folder \/ p \notin there
       /\ ~HasLeaf(p, f)
       /\ at' = [at EXCEPT ![p] = @ \cup {f}]
       /\ born' = born \cup {f}
  /\ there' = there \cup {p}
  /\ Disturb(p)
  /\ UNCHANGED <<box, table, wk, queue, taken>>

\* The next process finds the rows of this one old.
Crash ==
  /\ wk' = [w \in Worker |-> Resting]
  /\ queue' = {}
  /\ old' = {d \in Id : row[d] # "none"}
  /\ UNCHANGED <<disk, row, origin, ghost>>

-----------------------------------------------------------------------------
MoveOrCopy(w) == Move(w) \/ Copy(w) \/ CopyGone(w) \/ CopyDone(w)
RemoveTree(w) == RemoveOne(w) \/ RemoveLast(w)
Rows(w) == Finish(w) \/ Undo(w) \/ Drop(w)
Request(w) == Delete(w) \/ Restore(w) \/ Purge(w) \/ PurgeStart(w) \/ Unbox(w)
Fails(w) == MoveFails(w) \/ CopyFails(w) \/ RemoveFails(w) \/ FinishFails(w)
Maintenance == Recover \/ RecoverNext \/ Check(Hourly)

\* What happens when the process stays up and the maintenance meets no error.
Steady ==
  \/ \E w \in Worker : Request(w) \/ MoveOrCopy(w) \/ RemoveTree(w) \/ Rows(w)
  \/ \E w \in Worker \ {Hourly} : Fails(w)
  \/ Maintenance
  \/ \E p \in Path : Write(p)

Next == Steady \/ Fails(Hourly) \/ Crash

Spec == Init /\ [][Next]_vars

-----------------------------------------------------------------------------
(* Fairness: the maintenance starts every hour and goes on, and from some  *)
(* time on it meets neither a crash nor an error.                          *)

UnderWay ==
  \/ MoveOrCopy(Hourly) \/ RemoveTree(Hourly) \/ Rows(Hourly) \/ Fails(Hourly)
  \/ PurgeStart(Hourly) \/ RecoverNext \/ Check(Hourly)

FairSpec == Spec /\ WF_vars(UnderWay) /\ SF_vars(Recover) /\ <>[][Steady]_vars

-----------------------------------------------------------------------------
(* Properties.                                                             *)

\* A deletion that nobody interferes with loses nothing: through failures,
\* cancellations, crashes at any step and the rounds that resume it, each file it
\* found is at the path or in the trash (trashOne, ResumeMoveToTrash), and the
\* disk stays a tree.
NothingLost ==
  TypeOK /\ \A d \in Id \ disturbed : row[d] # "none" => taken[d] \subseteq at[origin[d]] \cup at[d]

\* A row that is not pending any more offers the whole item (FinishTrash).
WholeWhenDone ==
  \A d \in Id \ disturbed : row[d] = "done" => taken[d] \subseteq at[d]

\* A deletion that a crash cut short is resumed until it is done or its row is
\* gone, unless somebody interferes with it (recoverPendingTrash).
PendingResolved ==
  \A d \in Id : (row[d] = "pending" /\ d \in old) ~> (row[d] # "pending" \/ d \in disturbed)

=============================================================================
