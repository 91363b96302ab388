------------------------------ MODULE DropLink ------------------------------
(***************************************************************************)
(* One public drop link (internal/server/handlers_drop.go): visitors who   *)
(* have no account send files into one flat folder, under a byte quota, a  *)
(* limit of files and a limit of open sessions per sender.                 *)
(*                                                                         *)
(* A request stops between any two database or file system calls. dropMu,  *)
(* one mutex per link, covers admission and the choice of a name, never a  *)
(* transfer. Chunks are left to UploadSessions: a session here may be      *)
(* completed or swept at any time.                                         *)
(***************************************************************************)
EXTENDS Integers, FiniteSets, FiniteSetsExt

CONSTANTS
  Proc,       \* concurrent requests of visitors
  Sender,     \* the identities the link handed out
  Sid,        \* ids of sessions and of rowless parts
  Name,       \* a name and the variants "name (i)", in the order of freeName
  Size,       \* declared sizes
  Quota,      \* quota_bytes of the link
  MaxFiles,   \* max_files of the link
  PerSender,  \* dropOpenPerSender
  Tries,      \* the attempts of publish
  Absent,     \* a free name
  Foreign     \* a file of the owner

ASSUME NamesAreOrdered == Name \subseteq Nat /\ IsFiniteSet(Name) /\ Name # {}
ASSUME SizesAreNatural == Size \subseteq Nat /\ Size # {}
\* dropLimits refuses a link without a quota and gives every link a limit of files.
ASSUME LimitsAreNatural == {Quota, MaxFiles, PerSender, Tries} \subseteq Nat \ {0}
ASSUME FilesAreDistinguishable == Absent \notin Sid /\ Foreign \notin Sid /\ Absent # Foreign
ASSUME SomebodySends == Sender # {} /\ Sid # {}

VARIABLES
  alive,   \* the link is neither revoked nor deleted
  pc,      \* where each request is
  req,     \* its arguments and local variables
  open,    \* table uploads: the sessions of the link
  parts,   \* the parts of sessions in the folder
  meta,    \* per id: who sent what under which name
  file,    \* the folder: a file the link published, the owner's, none
  booked,  \* table share_uploads: how many receipts an id has
  loose,   \* sessions whose mutex unlock took out of the map
  shown,   \* ids that were published
  late,    \* those among them whose session had ended by then
  reaper   \* the sweep, and the owner who revokes the link

table == <<open, meta, booked>>
folder == <<parts, file, shown, late>>
vars == <<alive, pc, req, table, folder, loose, reaper>>

-----------------------------------------------------------------------------
Steps == {"idle", "a_lock", "a_receipts", "a_sessions", "n_rows", "n_disk", "c_insert",
          "c_part", "c_undo", "t_copy", "l_link", "f_lock", "f_link", "f_unlink",
          "f_delete", "f_stat", "b_part", "b_delete", "book"}
Locked == {"a_receipts", "a_sessions", "n_rows", "n_disk", "c_insert", "c_part", "c_undo", "l_link"}
Finalizing == {"f_link", "f_unlink", "f_delete", "f_stat"}

Request == [put : BOOLEAN, who : Sender, sid : Sid, want : Name, size : Size,
            bytes : Nat, count : Nat, taken : SUBSET Name, tries : 0 .. Tries - 1]
Meta == [who : Sender, name : Name, size : Size]
Reapers == {"sweep", "owner"}
Reaper == [pc : {"idle", "part", "row"}, todo : SUBSET Sid, cur : Sid]

TypeOK ==
  /\ alive \in BOOLEAN
  /\ pc \in [Proc -> Steps]
  /\ req \in [Proc -> Request]
  /\ open \subseteq Sid /\ parts \subseteq Sid /\ loose \subseteq Sid /\ shown \subseteq Sid
  /\ late \subseteq shown
  /\ meta \in [Sid -> Meta]
  /\ file \in [Name -> Sid \cup {Absent, Foreign}]
  /\ booked \in [Sid -> Nat]
  /\ reaper \in [Reapers -> Reaper]

AnySid == CHOOSE s \in Sid : TRUE
NoMeta == [who |-> CHOOSE c \in Sender : TRUE, name |-> CHOOSE n \in Name : TRUE,
           size |-> CHOOSE z \in Size : TRUE]
NoRequest == [put |-> FALSE, who |-> NoMeta.who, sid |-> AnySid, want |-> NoMeta.name,
              size |-> NoMeta.size, bytes |-> 0, count |-> 0, taken |-> {}, tries |-> 0]
NoReaper == [pc |-> "idle", todo |-> {}, cur |-> AnySid]

\* The folder of a link is created empty.
Init ==
  /\ alive = TRUE
  /\ pc = [p \in Proc |-> "idle"]
  /\ req = [p \in Proc |-> NoRequest]
  /\ open = {} /\ parts = {} /\ loose = {} /\ shown = {} /\ late = {}
  /\ meta = [s \in Sid |-> NoMeta]
  /\ file = [n \in Name |-> Absent]
  /\ booked = [s \in Sid |-> 0]
  /\ reaper = [r \in Reapers |-> NoReaper]

Goto(p, l) == pc' = [pc EXCEPT ![p] = l]
Reply(p) == Goto(p, "idle") /\ req' = [req EXCEPT ![p] = NoRequest]

\* Mutant: the mutex of the link excludes nobody.
MuIgnored == TRUE

\* dropMu of the link.
MuFree == \A p \in Proc : pc[p] \notin Locked

Bytes(S) == MapThenSumSet(LAMBDA s : meta[s].size, S)
Receipts == {s \in Sid : booked[s] > 0}
OpenOf(who) == {s \in open : meta[s].who = who}

\* Ids nothing refers to.
Fresh ==
  Sid \ (open \cup parts \cup Receipts \cup shown \cup {req[p].sid : p \in {q \in Proc : pc[q] # "idle"}}
           \cup UNION {reaper[r].todo \cup {reaper[r].cur} : r \in {r \in Reapers : reaper[r].pc # "idle"}})

-----------------------------------------------------------------------------
(* admit: receipts first, sessions second, on two snapshots of the table.  *)

Begin(p) ==
  /\ alive /\ pc[p] = "idle" /\ Fresh # {}
  /\ \E who \in Sender, n \in Name, z \in Size, put \in BOOLEAN :
       req' = [req EXCEPT ![p] = [NoRequest EXCEPT !.put = put, !.who = who, !.want = n, !.size = z,
                                    !.sid = CHOOSE s \in Fresh : TRUE]]
  /\ Goto(p, "a_lock")
  /\ UNCHANGED <<alive, table, folder, loose, reaper>>

AdmitLock(p) ==
  /\ pc[p] = "a_lock" /\ MuFree
  /\ Goto(p, "a_receipts")
  /\ UNCHANGED <<alive, req, table, folder, loose, reaper>>

AdmitReceipts(p) ==
  /\ pc[p] = "a_receipts"
  /\ req' = [req EXCEPT ![p].bytes = Bytes(Receipts), ![p].count = Cardinality(Receipts)]
  /\ Goto(p, "a_sessions")
  /\ UNCHANGED <<alive, table, folder, loose, reaper>>

\* One more file fits by count, by bytes and by the sessions of its sender. The
\* table of sessions is read once for the three: under the mutex rows only leave.
Fits(p) ==
  /\ req[p].count + Cardinality(open) < MaxFiles
  /\ req[p].bytes + Bytes(open) + req[p].size <= Quota
  /\ Cardinality(OpenOf(req[p].who)) < PerSender

\* A single request gives the mutex back, a session keeps it.
AdmitSessions(p) ==
  /\ pc[p] = "a_sessions" /\ Fits(p)
  /\ req' = [req EXCEPT ![p].bytes = 0, ![p].count = 0]
  /\ Goto(p, IF req[p].put THEN "t_copy" ELSE "n_rows")
  /\ UNCHANGED <<alive, table, folder, loose, reaper>>

\* Refused by a limit, by the quota of the owner, by an error of the database
\* or of the disk, or because the visitor went away.
Refuse(p) ==
  /\ pc[p] \in {"a_receipts", "a_sessions", "n_rows", "n_disk", "c_insert", "t_copy"}
  /\ Reply(p)
  /\ UNCHANGED <<alive, table, folder, loose, reaper>>

-----------------------------------------------------------------------------
(* freeName: the reserved names first, the folder second.                  *)

NameRows(p) ==
  /\ pc[p] = "n_rows"
  /\ req' = [req EXCEPT ![p].taken = {meta[s].name : s \in open}]
  /\ Goto(p, "n_disk")
  /\ UNCHANGED <<alive, table, folder, loose, reaper>>

\* Mutant: the names that sessions hold are not looked at.
FreeOnDisk(p) == {n \in Name : n >= req[p].want /\ file[n] = Absent}

FreeNames(p) == {n \in Name : n >= req[p].want /\ n \notin req[p].taken /\ file[n] = Absent}

NameDisk(p) ==
  /\ pc[p] = "n_disk" /\ FreeNames(p) # {}
  /\ req' = [req EXCEPT ![p].want = Min(FreeNames(p)), ![p].taken = {}]
  /\ Goto(p, IF req[p].put THEN "l_link" ELSE "c_insert")
  /\ UNCHANGED <<alive, table, folder, loose, reaper>>

-----------------------------------------------------------------------------
(* A session: its row exists before the mutex is given back.               *)

MetaOf(p) == [who |-> req[p].who, name |-> req[p].want, size |-> req[p].size]

\* The target of the row is unique in the table.
CreateInsert(p) ==
  /\ pc[p] = "c_insert"
  /\ \/ /\ \E s \in open : meta[s].name = req[p].want
        /\ Reply(p)
        /\ UNCHANGED <<open, meta, loose>>
     \/ /\ \A s \in open : meta[s].name # req[p].want
        /\ open' = open \cup {req[p].sid}
        /\ meta' = [meta EXCEPT ![req[p].sid] = MetaOf(p)]
        /\ loose' = loose \ {req[p].sid}
        /\ Goto(p, "c_part")
        /\ UNCHANGED req
  /\ UNCHANGED <<alive, booked, folder, reaper>>

CreatePart(p) ==
  /\ pc[p] = "c_part"
  /\ \/ parts' = parts \cup {req[p].sid} /\ Reply(p)
     \/ Goto(p, "c_undo") /\ UNCHANGED <<req, parts>>
  /\ UNCHANGED <<alive, table, file, shown, late, loose, reaper>>

\* A visitor who went away cancels the context of the deletion.
RowGone(p) == open' \in {open, open \ {req[p].sid}}

CreateUndo(p) ==
  /\ pc[p] = "c_undo"
  /\ RowGone(p)
  /\ Reply(p)
  /\ UNCHANGED <<alive, meta, booked, folder, loose, reaper>>

-----------------------------------------------------------------------------
(* A single request: the transfer outside the mutex, then publish.         *)

PublishLock(p) ==
  /\ pc[p] = "t_copy" /\ MuFree
  /\ Goto(p, "n_rows")
  /\ UNCHANGED <<alive, req, table, folder, loose, reaper>>

\* Attempts are left after the current one.
TriesLeft(p) == req[p].tries + 1 < Tries

\* link(2) never replaces; a name that appeared meanwhile costs a try.
PublishLink(p) ==
  /\ pc[p] = "l_link"
  /\ \/ /\ file[req[p].want] = Absent
        /\ file' = [file EXCEPT ![req[p].want] = req[p].sid]
        /\ shown' = shown \cup {req[p].sid}
        /\ meta' = [meta EXCEPT ![req[p].sid] = MetaOf(p)]
        /\ Goto(p, "book")
        /\ UNCHANGED req
     \/ /\ file[req[p].want] # Absent
        /\ IF TriesLeft(p)
           THEN req' = [req EXCEPT ![p].tries = @ + 1] /\ Goto(p, "n_rows")
           ELSE Reply(p)
        /\ UNCHANGED <<file, shown, meta>>
  /\ UNCHANGED <<alive, open, booked, parts, late, loose, reaper>>

\* recordDrop; an error of the database is only logged.
Book(p) ==
  /\ pc[p] = "book"
  /\ booked' \in {booked, [booked EXCEPT ![req[p].sid] = @ + 1]}
  /\ Reply(p)
  /\ UNCHANGED <<alive, open, meta, folder, loose, reaper>>

-----------------------------------------------------------------------------
(* Complete and abort of a session, by its sender.                         *)

CompleteBegin(p) ==
  /\ alive /\ pc[p] = "idle"
  /\ \E s \in open : req' = [req EXCEPT ![p] = [NoRequest EXCEPT !.who = meta[s].who, !.sid = s]]
  /\ Goto(p, "f_lock")
  /\ UNCHANGED <<alive, table, folder, loose, reaper>>

\* The mutex of the session, unless unlock replaced it meanwhile.
MutexFree(p) ==
  req[p].sid \in loose \/ \A q \in Proc \ {p} : ~(pc[q] \in Finalizing /\ req[q].sid = req[p].sid)

CompleteEnter(p) ==
  /\ pc[p] = "f_lock" /\ MutexFree(p)
  /\ \/ req[p].sid \in open /\ Goto(p, "f_link") /\ UNCHANGED req
     \/ Reply(p)   \* the row is gone, or chunks are missing
  /\ UNCHANGED <<alive, table, folder, loose, reaper>>

\* Mutant: a name that is taken counts as a completion already done.
CompleteLinkOnce(p) ==
  LET s == req[p].sid
      n == meta[s].name
  IN
  /\ pc[p] = "f_link" /\ s \in parts
  /\ file' = IF file[n] = Absent THEN [file EXCEPT ![n] = s] ELSE file
  /\ shown' = IF file[n] = Absent THEN shown \cup {s} ELSE shown
  /\ Goto(p, "f_unlink")
  /\ UNCHANGED <<alive, req, table, parts, late, loose, reaper>>

CompleteLink(p) ==
  LET s == req[p].sid
      n == meta[s].name
  IN
  /\ pc[p] = "f_link"
  /\ \/ /\ s \in parts /\ file[n] = Absent
        /\ file' = [file EXCEPT ![n] = s]
        /\ shown' = shown \cup {s}
        /\ late' = IF s \in open THEN late ELSE late \cup {s}
        /\ Goto(p, "f_unlink") /\ UNCHANGED req
     \/ /\ s \notin parts \/ file[n] # Absent
        /\ Reply(p) /\ UNCHANGED <<file, shown, late>>
  /\ UNCHANGED <<alive, table, parts, loose, reaper>>

\* The removal of the part fails when somebody else removed it.
CompleteUnlink(p) ==
  /\ pc[p] = "f_unlink"
  /\ \/ req[p].sid \in parts /\ Goto(p, "f_delete") /\ UNCHANGED req
     \/ req[p].sid \notin parts /\ Reply(p)
  /\ parts' = parts \ {req[p].sid}
  /\ UNCHANGED <<alive, table, file, shown, late, loose, reaper>>

CompleteDelete(p) ==
  /\ pc[p] = "f_delete"
  /\ open' = open \ {req[p].sid}
  /\ loose' = loose \cup {req[p].sid}
  /\ Goto(p, "f_stat")
  /\ UNCHANGED <<alive, req, meta, booked, folder, reaper>>

CompleteStat(p) ==
  /\ pc[p] = "f_stat"
  /\ IF file[meta[req[p].sid].name] = Absent THEN Reply(p) ELSE Goto(p, "book") /\ UNCHANGED req
  /\ UNCHANGED <<alive, table, folder, loose, reaper>>

AbortBegin(p) ==
  /\ alive /\ pc[p] = "idle"
  /\ \E s \in open : req' = [req EXCEPT ![p] = [NoRequest EXCEPT !.who = meta[s].who, !.sid = s]]
  /\ Goto(p, "b_part")
  /\ UNCHANGED <<alive, table, folder, loose, reaper>>

AbortPart(p) ==
  /\ pc[p] = "b_part"
  /\ parts' = parts \ {req[p].sid}
  /\ loose' = loose \cup {req[p].sid}
  /\ Goto(p, "b_delete")
  /\ UNCHANGED <<alive, req, table, file, shown, late, reaper>>

AbortDelete(p) ==
  /\ pc[p] = "b_delete"
  /\ RowGone(p)
  /\ Reply(p)
  /\ UNCHANGED <<alive, meta, booked, folder, loose, reaper>>

-----------------------------------------------------------------------------
(* CleanupStale, and the end of the link: its sessions first, the link     *)
(* second (handleShareDelete, dropShares, sweepBrokenShares).              *)

\* A session is stale hours after its last chunk: nobody is creating it.
Idle(s) == \A p \in Proc : ~(pc[p] \in {"c_part", "c_undo"} /\ req[p].sid = s)

ReapList(r) ==
  /\ reaper[r].pc = "idle"
  /\ \/ r = "sweep" /\ \E S \in SUBSET {s \in open : Idle(s)} :
          S # {} /\ reaper' = [reaper EXCEPT ![r] = [NoReaper EXCEPT !.pc = "part", !.todo = S]]
     \/ r = "owner" /\ alive
        /\ reaper' = [reaper EXCEPT ![r] = [NoReaper EXCEPT !.pc = "part", !.todo = open]]
  /\ UNCHANGED <<alive, pc, req, table, folder, loose>>

ReapPart(r) ==
  /\ reaper[r].pc = "part"
  /\ \E s \in reaper[r].todo :
       /\ parts' = parts \ {s}
       /\ reaper' = [reaper EXCEPT ![r] = [pc |-> "row", todo |-> @.todo \ {s}, cur |-> s]]
  /\ UNCHANGED <<alive, pc, req, table, file, shown, late, loose>>

ReapRow(r) ==
  /\ reaper[r].pc = "row"
  /\ open' = open \ {reaper[r].cur}
  /\ loose' = IF r = "sweep" THEN loose \cup {reaper[r].cur} ELSE loose
  /\ reaper' = [reaper EXCEPT ![r].pc = "part", ![r].cur = AnySid]
  /\ UNCHANGED <<alive, pc, req, meta, booked, folder>>

ReapEnd(r) ==
  /\ reaper[r].pc = "part" /\ reaper[r].todo = {}
  /\ reaper' = [reaper EXCEPT ![r] = NoReaper]
  /\ alive' = (alive /\ r # "owner")
  /\ UNCHANGED <<pc, req, table, folder, loose>>

-----------------------------------------------------------------------------
(* The environment.                                                        *)

\* The owner puts a file of his own in the folder, or takes one out of it.
OwnerWrites(n) ==
  /\ file' \in {[file EXCEPT ![n] = Foreign], [file EXCEPT ![n] = Absent]}
  /\ file' # file
  /\ UNCHANGED <<alive, pc, req, table, parts, shown, late, loose, reaper>>

Crash ==
  /\ pc' = [p \in Proc |-> "idle"]
  /\ req' = [p \in Proc |-> NoRequest]
  /\ reaper' = [r \in Reapers |-> NoReaper]
  /\ UNCHANGED <<alive, table, folder, loose>>

-----------------------------------------------------------------------------
Admit(p) == Begin(p) \/ AdmitLock(p) \/ AdmitReceipts(p) \/ AdmitSessions(p) \/ Refuse(p)
FreeName(p) == NameRows(p) \/ NameDisk(p)
Create(p) == CreateInsert(p) \/ CreatePart(p) \/ CreateUndo(p)
Publish(p) == PublishLock(p) \/ PublishLink(p) \/ Book(p)
Complete(p) ==
  \/ CompleteBegin(p) \/ CompleteEnter(p) \/ CompleteLink(p) \/ CompleteUnlink(p)
  \/ CompleteDelete(p) \/ CompleteStat(p)
Abort(p) == AbortBegin(p) \/ AbortPart(p) \/ AbortDelete(p)
Reap(r) == ReapList(r) \/ ReapPart(r) \/ ReapRow(r) \/ ReapEnd(r)

Next ==
  \/ \E p \in Proc : Admit(p) \/ FreeName(p) \/ Create(p) \/ Publish(p) \/ Complete(p) \/ Abort(p)
  \/ \E r \in Reapers : Reap(r)
  \/ \E n \in Name : OwnerWrites(n)
  \/ Crash

Spec == Init /\ [][Next]_vars

-----------------------------------------------------------------------------
(* Properties.                                                             *)

\* What open sessions reserve never exceeds the quota, the number of files or
\* the sessions of one sender, however many visitors ask at once (admit keeps
\* dropMu until the row exists, handlers_drop.go:179-181); the tables keep their
\* types.
ReservationsFit ==
  /\ TypeOK
  /\ Bytes(open) <= Quota
  /\ Cardinality(open) <= MaxFiles
  /\ \A who \in Sender : Cardinality(OpenOf(who)) <= PerSender

\* A name that one visitor holds is never given to another: no creation meets
\* the unique index of the table, and no completion a file of another visitor,
\* so nobody learns from an error what the others send (share_uploads.go:91).
\* Left out is the file of a completion that outlived its own session, which an
\* abort or the sweep ended under it.
VisitorsNeverCollide ==
  /\ \A p \in Proc : pc[p] = "c_insert" => \A s \in open : meta[s].name # req[p].want
  /\ \A s \in open : file[meta[s].name] \in {s, Absent, Foreign} \cup late

\* A receipt, which uses up the quota for ever, is written at most once and only
\* for what was published, with completions of one session racing each other,
\* an abort, the sweep and the owner's own files (recordDrop).
ReceiptsTrue == \A s \in Sid : booked[s] <= 1 /\ (booked[s] > 0 => s \in shown)

=============================================================================
