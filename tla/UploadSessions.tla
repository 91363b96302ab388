--------------------------- MODULE UploadSessions ---------------------------
(***************************************************************************)
(* Chunked upload sessions (internal/uploads/service.go) of ONE account in *)
(* ONE destination folder, together with everything that touches the same  *)
(* rows, parts and names:                                                  *)
(*                                                                         *)
(*   - the request handlers create / chunk / complete / abort, each a      *)
(*     goroutine that stops between any two database or file system calls; *)
(*   - the single-request writer storeSmallFile, whose part has no row;    *)
(*   - the hourly sweep CleanupStale and the listing sweep PruneOrphans;   *)
(*   - cancelled requests and a crash of the process.                      *)
(*                                                                         *)
(* The rows of table uploads and the folder survive a crash; the mutexes   *)
(* and the requests in flight do not.                                      *)
(***************************************************************************)
EXTENDS Integers, FiniteSets, FiniteSetsExt

CONSTANTS
  Proc,          \* concurrent request handlers
  Client,        \* who sends: the account itself or a visitor of its drop link
  Sid,           \* ids drawn by auth.NewID: session ids and ids of rowless parts
  Name,          \* names of the folder, one per class of equivalent spellings
  SessionFile,   \* what a client declares for a session: [size, mtime]
  PutFile,       \* what a client sends in one request
  Overwrite,     \* the values of the flag overwrite that clients send
  ChunkSize,     \* Service.chunkSize
  MaxReserved,   \* Service.maxReserved, 0: no cap
  Mutex,         \* mutex objects: more than handlers, so that a new one is at hand
  Hardlinks,     \* does the file system of the folder support link(2)?
  NoMtime,       \* a declaration without mtime
  Absent,        \* a free name
  Foreign        \* a file no upload of this model put there

File == SessionFile \cup PutFile

ASSUME SizesAreNatural == \A f \in File : f.size \in Nat
ASSUME ChunkSizeIsPositive == ChunkSize \in Nat \ {0}
ASSUME CapIsNatural == MaxReserved \in Nat
ASSUME FlagsAreBoolean == Hardlinks \in BOOLEAN /\ Overwrite \subseteq BOOLEAN
ASSUME MutexesSuffice ==
  /\ IsFiniteSet(Proc) /\ IsFiniteSet(Mutex)
  /\ Cardinality(Mutex) > Cardinality(Proc)
ASSUME NamesAreDistinguishable == Absent \notin Sid /\ Foreign \notin Sid /\ Absent # Foreign
ASSUME SomethingToSend == File # {} /\ Name # {} /\ Client # {} /\ Sid # {}

VARIABLES
  pc,        \* where each request handler is
  req,       \* its arguments and local variables
  open,      \* ids with a row in table uploads
  meta,      \* the immutable columns of the row (or the arguments of a PUT)
  received,  \* column received: the chunks marked as stored
  stale,     \* ids whose updated_at is older than the cutoff of CleanupStale
  used,      \* ids already drawn
  parts,     \* directory entries .filezam-upload-<id>.part
  bytes,     \* per inode of a part: the chunks whose bytes reached the disk
  quiet,     \* parts whose mtime is older than OrphanGrace
  file,      \* what each final name holds: the inode of a part, Foreign, Absent
  locks,     \* the mutex Service.locks hands out for a session
  sweep,     \* CleanupStale
  prune      \* PruneOrphans

rows == <<open, meta, received, stale, used>>
disk == <<parts, bytes, quiet, file>>
tasks == <<sweep, prune>>
vars == <<pc, req, rows, disk, locks, tasks>>

-----------------------------------------------------------------------------
(* Chunk arithmetic and the declared file.                                 *)

NChunks(f) == (f.size + ChunkSize - 1) \div ChunkSize
\* Mutant: the index of a chunk has no lower bound.
ChunksNoLowerBound(f) == -1 .. NChunks(f) - 1

Chunks(f) == 0 .. NChunks(f) - 1

\* The declaration certainly describes other bytes: another size, or both
\* mtimes known and at least a second apart.
OtherFile(a, b) ==
  \/ a.size # b.size
  \/ /\ a.mtime # NoMtime /\ b.mtime # NoMtime
     /\ a.mtime - b.mtime <= -1000 \/ a.mtime - b.mtime >= 1000

\* Mutant: the last chunk is not asked for.
MissingButLast(s) == (Chunks(meta[s].file) \ received[s]) \ {NChunks(meta[s].file) - 1}

Missing(s) == Chunks(meta[s].file) \ received[s]

\* Mutant: anybody's session.
OwnsAny(who, s) == s \in open

\* load: the session exists and belongs to the caller.
Owns(who, s) == s \in open /\ meta[s].who = who
Loads(p) == Owns(req[p].who, req[p].sid)

ReservedBytes == MapThenSumSet(LAMBDA s : meta[s].file.size, open)

\* The id of the session that occupies a target: the unique index of the
\* table makes it at most one.
AtTarget(n) == {s \in open : meta[s].name = n}

-----------------------------------------------------------------------------
(* Locks. createMu and the per-session mutexes are held by the handlers    *)
(* inside the stretches below; the mutex of a session is the object handed *)
(* out by lock(id), and unlock(id) only drops that object from the map:    *)
(* two handlers may be inside the same session with different mutexes.     *)

Creating == {"c_target", "c_drop", "c_delold", "c_reserve", "c_insert"}
Finalizing == {"f_look", "f_pub", "f_rename", "f_unlink", "f_delete"}
InSession == {"w_mark"} \cup Finalizing
ChunkInFlight == {"w_load", "w_open", "w_copy", "w_lock", "w_mark"}

\* Mutant: creations are not serialized.
CreateMuIgnored == TRUE

CreateMuFree == \A q \in Proc : pc[q] \notin Creating

\* The mutexes of a session that some handler waits for or holds.
Referenced(s) ==
  {req[q].mutex : q \in {r \in Proc : req[r].sid = s /\ pc[r] \in {"w_lock", "f_lock"} \cup InSession}}

\* Mutants: no mutex at all, and one that yields to whoever waits for it.
MutexIgnored(p) == TRUE
MutexUnwanted(p) ==
  \A q \in Proc \ {p} :
    ~(/\ pc[q] \in {"w_lock", "f_lock"} \cup InSession
      /\ req[q].sid = req[p].sid /\ req[q].mutex = req[p].mutex)

MutexFree(p) ==
  \A q \in Proc \ {p} :
    ~(pc[q] \in InSession /\ req[q].sid = req[p].sid /\ req[q].mutex = req[p].mutex)

\* beginWrite counts a chunk from before its session is loaded.
WritingNow(s) == \E q \in Proc : pc[q] \in ChunkInFlight /\ req[q].sid = s

-----------------------------------------------------------------------------
(* Values and the initial state.                                           *)

Steps == {"idle", "c_lock", "c_part", "c_undo", "w_load", "w_open", "w_copy",
          "w_lock", "f_lock", "a_part", "a_delete", "p_copy", "p_look", "p_pub",
          "p_rename", "p_unlink", "p_undo"} \cup Creating \cup InSession

Meta == [who : Client, name : Name, file : File, over : BOOLEAN]
Request == [who : Client, name : Name, file : File, over : BOOLEAN, sid : Sid,
            old : Sid, index : Nat, mutex : Mutex, seen : SUBSET Nat]

SweepState == [pc : {"idle", "part", "row"}, todo : SUBSET Sid, cur : Sid]
PruneState == [pc : {"idle", "ids", "remove"}, todo : SUBSET Sid]

TypeOK ==
  /\ pc \in [Proc -> Steps]
  /\ req \in [Proc -> Request]
  /\ open \subseteq Sid
  /\ meta \in [Sid -> Meta]
  /\ received \in [Sid -> SUBSET Nat]
  /\ stale \subseteq Sid
  /\ used \subseteq Sid
  /\ parts \subseteq Sid
  /\ bytes \in [Sid -> SUBSET Nat]
  /\ quiet \subseteq Sid
  /\ file \in [Name -> Sid \cup {Absent, Foreign}]
  /\ locks \in [Sid -> Mutex]
  /\ sweep \in SweepState
  /\ prune \in PruneState

AnySid == CHOOSE s \in Sid : TRUE
AnyMutex == CHOOSE m \in Mutex : TRUE
NoMeta == [who |-> CHOOSE c \in Client : TRUE, name |-> CHOOSE n \in Name : TRUE,
           file |-> CHOOSE f \in File : TRUE, over |-> FALSE]
NoRequest == [who |-> NoMeta.who, name |-> NoMeta.name, file |-> NoMeta.file,
              over |-> FALSE, sid |-> AnySid, old |-> AnySid, index |-> 0,
              mutex |-> AnyMutex, seen |-> {}]
SweepIdle == [pc |-> "idle", todo |-> {}, cur |-> AnySid]
PruneIdle == [pc |-> "idle", todo |-> {}]

Init ==
  /\ pc = [p \in Proc |-> "idle"]
  /\ req = [p \in Proc |-> NoRequest]
  /\ open = {} /\ stale = {} /\ used = {}
  /\ meta = [s \in Sid |-> NoMeta]
  /\ received = [s \in Sid |-> {}]
  /\ parts = {} /\ quiet = {}
  /\ bytes = [s \in Sid |-> {}]
  /\ file \in [Name -> {Absent, Foreign}]
  /\ locks = [s \in Sid |-> AnyMutex]
  /\ sweep = SweepIdle /\ prune = PruneIdle

Goto(p, l) == pc' = [pc EXCEPT ![p] = l]

\* The handler replies: its locals die with it.
Reply(p) == Goto(p, "idle") /\ req' = [req EXCEPT ![p] = NoRequest]

-----------------------------------------------------------------------------
(* Create. The folder lookup precedes createMu, the part follows it: both  *)
(* windows are open to every other handler. An id whose session never      *)
(* reached the table leaves no trace and goes back to the pool.            *)

CreateBegin(p) ==
  /\ pc[p] = "idle"
  /\ \E who \in Client, n \in Name, f \in SessionFile, over \in Overwrite, s \in Sid \ used :
       /\ file[n] = Absent \/ over
       /\ req' = [req EXCEPT ![p] = [NoRequest EXCEPT !.who = who, !.name = n,
                                       !.file = f, !.over = over, !.sid = s]]
       /\ used' = used \cup {s}
  /\ Goto(p, "c_lock")
  /\ UNCHANGED <<open, meta, received, stale, disk, locks, tasks>>

CreateLock(p) ==
  /\ pc[p] = "c_lock" /\ CreateMuFree
  /\ Goto(p, "c_target")
  /\ UNCHANGED <<req, rows, disk, locks, tasks>>

\* The session at the target gives way to u when it is the same sender's, of
\* another file, and no chunk of it is in flight.
Supersedable(s, p) ==
  /\ meta[s].who = req[p].who
  /\ OtherFile(meta[s].file, req[p].file)
  /\ ~WritingNow(s)

CreateTarget(p) ==
  /\ pc[p] = "c_target"
  /\ \/ \E s \in AtTarget(req[p].name) :
          /\ Supersedable(s, p)
          /\ req' = [req EXCEPT ![p].old = s]
          /\ Goto(p, "c_drop")
     \/ /\ \A s \in AtTarget(req[p].name) : ~Supersedable(s, p)
        /\ Goto(p, "c_reserve")
        /\ UNCHANGED req
  /\ UNCHANGED <<rows, disk, locks, tasks>>

\* unlock(id) drops the mutex from the map: whoever asks from here on gets
\* a mutex no handler refers to.
Unlock(s) ==
  /\ Mutex \ Referenced(s) # {}
  /\ locks' = [locks EXCEPT ![s] = CHOOSE m \in Mutex \ Referenced(s) : TRUE]

\* RemovePart, then unlock.
Discard(s) ==
  /\ parts' = parts \ {s}
  /\ Unlock(s)

\* DeleteUpload: the row goes with its columns.
DeleteRow(s) ==
  /\ open' = open \ {s}
  /\ received' = [received EXCEPT ![s] = {}]
  /\ stale' = stale \ {s}

CreateDrop(p) ==
  /\ pc[p] = "c_drop"
  /\ Discard(req[p].old)
  /\ Goto(p, "c_delold")
  /\ UNCHANGED <<req, rows, bytes, quiet, file, tasks>>

CreateDeleteOld(p) ==
  /\ pc[p] = "c_delold"
  /\ DeleteRow(req[p].old)
  /\ Goto(p, "c_reserve")
  /\ UNCHANGED <<req, meta, used, disk, locks, tasks>>

ReserveFits(f) == MaxReserved = 0 \/ ReservedBytes + f.size <= MaxReserved

\* Refused before the row exists: createMu is released and the id unused.
Refuse(p) ==
  /\ used' = used \ {req[p].sid}
  /\ Reply(p)
  /\ UNCHANGED <<open, meta, received, stale, disk, locks, tasks>>

CreateReserve(p) ==
  /\ pc[p] = "c_reserve"
  /\ \/ ~ReserveFits(req[p].file) /\ Refuse(p)
     \/ /\ ReserveFits(req[p].file)
        /\ Goto(p, "c_insert")
        /\ UNCHANGED <<req, rows, disk, locks, tasks>>

InsertRow(p, s) ==
  /\ open' = open \cup {s}
  /\ meta' = [meta EXCEPT ![s] = [who |-> req[p].who, name |-> req[p].name,
                                  file |-> req[p].file, over |-> req[p].over]]
  /\ received' = [received EXCEPT ![s] = {}]

CreateInsert(p) ==
  /\ pc[p] = "c_insert"
  /\ \/ AtTarget(req[p].name) # {} /\ Refuse(p)
     \/ /\ AtTarget(req[p].name) = {}
        /\ InsertRow(p, req[p].sid)
        /\ Goto(p, "c_part")
        /\ UNCHANGED <<req, stale, used, disk, locks, tasks>>

NewPart(s) == parts' = parts \cup {s} /\ bytes' = [bytes EXCEPT ![s] = {}]

\* O_EXCL and preallocation succeed, or the disk is full.
CreatePart(p) ==
  /\ pc[p] = "c_part"
  /\ \/ NewPart(req[p].sid) /\ Reply(p)
     \/ Goto(p, "c_undo") /\ UNCHANGED <<req, parts, bytes>>
  /\ UNCHANGED <<rows, quiet, file, locks, tasks>>

CreateUndo(p) ==
  /\ pc[p] = "c_undo"
  /\ DeleteRow(req[p].sid)
  /\ Reply(p)
  /\ UNCHANGED <<meta, used, disk, locks, tasks>>

-----------------------------------------------------------------------------
(* WriteChunk. The bytes go to the part outside any lock; the bit is set   *)
(* under the session mutex on a row read again.                            *)

ChunkBegin(p) ==
  /\ pc[p] = "idle"
  /\ \E who \in Client, s \in open : \E i \in Chunks(meta[s].file) :
       req' = [req EXCEPT ![p] = [NoRequest EXCEPT !.who = who, !.sid = s, !.index = i]]
  /\ Goto(p, "w_load")
  /\ UNCHANGED <<rows, disk, locks, tasks>>

ChunkLoad(p) ==
  /\ pc[p] = "w_load"
  /\ \/ Loads(p) /\ Goto(p, "w_open") /\ UNCHANGED req
     \/ ~Loads(p) /\ Reply(p)
  /\ UNCHANGED <<rows, disk, locks, tasks>>

ChunkOpen(p) ==
  /\ pc[p] = "w_open"
  /\ \/ req[p].sid \in parts /\ Goto(p, "w_copy") /\ UNCHANGED req
     \/ req[p].sid \notin parts /\ Reply(p)
  /\ UNCHANGED <<rows, disk, locks, tasks>>

\* The copy reaches the open inode whatever became of its name. A body that
\* ends early replies bad_length: no full chunk was stored.
ChunkCopy(p) ==
  /\ pc[p] = "w_copy"
  /\ \/ /\ bytes' = [bytes EXCEPT ![req[p].sid] = @ \cup {req[p].index}]
        /\ req' = [req EXCEPT ![p].mutex = locks[req[p].sid]]
        /\ Goto(p, "w_lock")
     \/ Reply(p) /\ UNCHANGED bytes
  /\ quiet' = quiet \ {req[p].sid}
  /\ UNCHANGED <<rows, parts, file, locks, tasks>>

ChunkEnter(p) ==
  /\ pc[p] = "w_lock" /\ MutexFree(p)
  /\ \/ /\ Loads(p)
        /\ req' = [req EXCEPT ![p].seen = received[req[p].sid]]
        /\ Goto(p, "w_mark")
     \/ ~Loads(p) /\ Reply(p)
  /\ UNCHANGED <<rows, disk, locks, tasks>>

\* UPDATE ... WHERE id: no row, no effect.
ChunkMark(p) ==
  LET s == req[p].sid IN
  /\ pc[p] = "w_mark"
  /\ \/ /\ s \in open
        /\ received' = [received EXCEPT ![s] = req[p].seen \cup {req[p].index}]
        /\ stale' = stale \ {s}
     \/ s \notin open /\ UNCHANGED <<received, stale>>
  /\ Reply(p)
  /\ UNCHANGED <<open, meta, used, disk, locks, tasks>>

-----------------------------------------------------------------------------
(* Complete holds the session mutex from the load to the end.              *)

CompleteBegin(p) ==
  /\ pc[p] = "idle"
  /\ \E who \in Client, s \in open :
       req' = [req EXCEPT ![p] = [NoRequest EXCEPT !.who = who, !.sid = s, !.mutex = locks[s]]]
  /\ Goto(p, "f_lock")
  /\ UNCHANGED <<rows, disk, locks, tasks>>

CompleteEnter(p) ==
  /\ pc[p] = "f_lock" /\ MutexFree(p)
  /\ \/ /\ Loads(p) /\ Missing(req[p].sid) = {}
        /\ Goto(p, "f_look")
        /\ UNCHANGED req
     \/ ~(Loads(p) /\ Missing(req[p].sid) = {}) /\ Reply(p)
  /\ UNCHANGED <<rows, disk, locks, tasks>>

\* Chtimes gives the part the mtime the client declared, maybe an old one.
Stamp(s) == \/ quiet' = quiet
            \/ quiet' = quiet \cup ({s} \cap parts)

Taken(s) == file[meta[s].name] # Absent /\ ~meta[s].over

\* The fsync of FILEZAM_FSYNC opens the part by name, the lookup of Finalize
\* finds the name free or asks for overwrite; either may fail.
CompleteLookup(p) ==
  /\ pc[p] = "f_look"
  /\ Stamp(req[p].sid)
  /\ \/ (Taken(req[p].sid) \/ req[p].sid \notin parts) /\ Reply(p)
     \/ ~Taken(req[p].sid) /\ Goto(p, "f_pub") /\ UNCHANGED req
  /\ UNCHANGED <<rows, parts, bytes, file, locks, tasks>>

\* rename(part, final): atomic, and it replaces what is there.
RenameTo(s, n) ==
  /\ s \in parts
  /\ file' = [file EXCEPT ![n] = s]
  /\ parts' = parts \ {s}

\* Mutant: a link that replaces.
LinkOver(s, n) ==
  /\ s \in parts
  /\ file' = [file EXCEPT ![n] = s]
  /\ UNCHANGED parts

\* link(part, final): fails on a name that exists.
LinkTo(s, n) ==
  /\ s \in parts /\ file[n] = Absent
  /\ file' = [file EXCEPT ![n] = s]
  /\ UNCHANGED parts

\* Root.publish as seen by a caller: done names the step after a rename,
\* unlink the one after a link, late the second half of the fallback and
\* failed the step on an error.
Publish(p, done, unlink, late, failed) ==
  LET s == req[p].sid
      n == meta[s].name
  IN \/ meta[s].over /\ RenameTo(s, n) /\ done
     \/ ~meta[s].over /\ Hardlinks /\ LinkTo(s, n) /\ unlink
     \/ ~meta[s].over /\ ~Hardlinks /\ file[n] = Absent /\ late /\ UNCHANGED <<parts, file>>
     \/ /\ \/ (meta[s].over \/ Hardlinks) /\ s \notin parts
           \/ ~meta[s].over /\ file[n] # Absent
        /\ failed /\ UNCHANGED <<parts, file>>

CompletePublish(p) ==
  /\ pc[p] = "f_pub"
  /\ Publish(p, Goto(p, "f_delete") /\ UNCHANGED req, Goto(p, "f_unlink") /\ UNCHANGED req,
                Goto(p, "f_rename") /\ UNCHANGED req, Reply(p))
  /\ UNCHANGED <<rows, bytes, quiet, locks, tasks>>

\* The fallback without hardlinks: the check is over, the rename replaces.
CompleteRename(p) ==
  /\ pc[p] = "f_rename"
  /\ \/ RenameTo(req[p].sid, meta[req[p].sid].name) /\ Goto(p, "f_delete") /\ UNCHANGED req
     \/ req[p].sid \notin parts /\ Reply(p) /\ UNCHANGED <<parts, file>>
  /\ UNCHANGED <<rows, bytes, quiet, locks, tasks>>

\* Remove(part) after link: a part somebody else removed is an error.
CompleteUnlink(p) ==
  /\ pc[p] = "f_unlink"
  /\ \/ req[p].sid \in parts /\ parts' = parts \ {req[p].sid} /\ Goto(p, "f_delete") /\ UNCHANGED req
     \/ req[p].sid \notin parts /\ Reply(p) /\ UNCHANGED parts
  /\ UNCHANGED <<rows, bytes, quiet, file, locks, tasks>>

\* DeleteUpload without the request's cancellation, unlock, release.
CompleteDelete(p) ==
  /\ pc[p] = "f_delete"
  /\ DeleteRow(req[p].sid)
  /\ Unlock(req[p].sid)
  /\ Reply(p)
  /\ UNCHANGED <<meta, used, disk, tasks>>

-----------------------------------------------------------------------------
(* Abort takes no lock: part, mutex entry, row.                            *)

AbortLoad(p) ==
  /\ pc[p] = "idle"
  /\ \E who \in Client, s \in Sid :
       /\ Owns(who, s)
       /\ req' = [req EXCEPT ![p] = [NoRequest EXCEPT !.who = who, !.sid = s]]
  /\ Goto(p, "a_part")
  /\ UNCHANGED <<rows, disk, locks, tasks>>

AbortPart(p) ==
  /\ pc[p] = "a_part"
  /\ Discard(req[p].sid)
  /\ Goto(p, "a_delete")
  /\ UNCHANGED <<req, rows, bytes, quiet, file, tasks>>

AbortDelete(p) ==
  /\ pc[p] = "a_delete"
  /\ DeleteRow(req[p].sid)
  /\ Reply(p)
  /\ UNCHANGED <<meta, used, disk, locks, tasks>>

-----------------------------------------------------------------------------
(* storeSmallFile: PUT of a whole file and each file of a batch. Its part  *)
(* has no row, and no lock is taken.                                       *)

PutBegin(p) ==
  /\ pc[p] = "idle"
  /\ \E who \in Client, n \in Name, f \in PutFile, over \in Overwrite, s \in Sid \ used :
       /\ file[n] = Absent \/ over
       /\ req' = [req EXCEPT ![p] = [NoRequest EXCEPT !.who = who, !.sid = s]]
       /\ used' = used \cup {s}
       /\ meta' = [meta EXCEPT ![s] = [who |-> who, name |-> n, file |-> f, over |-> over]]
       /\ NewPart(s)
  /\ Goto(p, "p_copy")
  /\ UNCHANGED <<open, received, stale, quiet, file, locks, tasks>>

\* The body, then Chtimes with the mtime the client sent.
PutCopy(p) ==
  LET s == req[p].sid IN
  /\ pc[p] = "p_copy"
  /\ bytes' = [bytes EXCEPT ![s] = Chunks(meta[s].file)]
  /\ Stamp(s)
  /\ Goto(p, "p_look")
  /\ UNCHANGED <<req, rows, parts, file, locks, tasks>>

\* A cut body, a full disk, or a file newer than the one the editor read.
PutFail(p) ==
  /\ pc[p] \in {"p_copy", "p_look"}
  /\ Goto(p, "p_undo")
  /\ UNCHANGED <<req, rows, disk, locks, tasks>>

PutLookup(p) ==
  /\ pc[p] = "p_look"
  /\ Goto(p, IF Taken(req[p].sid) THEN "p_undo" ELSE "p_pub")
  /\ UNCHANGED <<req, rows, disk, locks, tasks>>

PutPublish(p) ==
  /\ pc[p] = "p_pub"
  /\ Publish(p, Reply(p), Goto(p, "p_unlink") /\ UNCHANGED req,
                Goto(p, "p_rename") /\ UNCHANGED req, Goto(p, "p_undo") /\ UNCHANGED req)
  /\ UNCHANGED <<rows, bytes, quiet, locks, tasks>>

PutRename(p) ==
  /\ pc[p] = "p_rename"
  /\ \/ RenameTo(req[p].sid, meta[req[p].sid].name) /\ Reply(p)
     \/ /\ req[p].sid \notin parts
        /\ Goto(p, "p_undo")
        /\ UNCHANGED <<req, parts, file>>
  /\ UNCHANGED <<rows, bytes, quiet, locks, tasks>>

PutUnlink(p) ==
  /\ pc[p] = "p_unlink"
  /\ parts' = parts \ {req[p].sid}
  /\ Reply(p)
  /\ UNCHANGED <<rows, bytes, quiet, file, locks, tasks>>

PutUndo(p) ==
  /\ pc[p] = "p_undo"
  /\ parts' = parts \ {req[p].sid}
  /\ Reply(p)
  /\ UNCHANGED <<rows, bytes, quiet, file, locks, tasks>>

-----------------------------------------------------------------------------
(* CleanupStale works on a list it read once; nothing is checked again.    *)

SweepList ==
  /\ sweep.pc = "idle" /\ open \cap stale # {}
  /\ sweep' = [sweep EXCEPT !.pc = "part", !.todo = open \cap stale]
  /\ UNCHANGED <<pc, req, rows, disk, locks, prune>>

\* Mutant: a part that is already gone stops the sweep.
SweepPartPresent ==
  /\ sweep.pc = "part"
  /\ \E s \in sweep.todo \cap parts :
       /\ parts' = parts \ {s}
       /\ sweep' = [pc |-> "row", todo |-> sweep.todo \ {s}, cur |-> s]
  /\ UNCHANGED <<pc, req, rows, bytes, quiet, file, locks, prune>>

SweepPart ==
  /\ sweep.pc = "part"
  /\ \E s \in sweep.todo :
       /\ parts' = parts \ {s}
       /\ sweep' = [pc |-> "row", todo |-> sweep.todo \ {s}, cur |-> s]
  /\ UNCHANGED <<pc, req, rows, bytes, quiet, file, locks, prune>>

SweepOn == sweep' = IF sweep.todo = {} THEN SweepIdle ELSE [sweep EXCEPT !.pc = "part", !.cur = AnySid]

\* The maintenance round ran out of its five minutes: the row stays, for the
\* next round to find.
SweepCut ==
  /\ sweep.pc = "row"
  /\ Unlock(sweep.cur)
  /\ SweepOn
  /\ UNCHANGED <<pc, req, rows, disk, prune>>

SweepRow ==
  /\ sweep.pc = "row"
  /\ DeleteRow(sweep.cur)
  /\ Unlock(sweep.cur)
  /\ SweepOn
  /\ UNCHANGED <<pc, req, meta, used, disk, prune>>

-----------------------------------------------------------------------------
(* PruneOrphans: the listing first, the table second.                      *)

PruneKeep(todo) == IF todo = {} THEN PruneIdle ELSE [pc |-> "remove", todo |-> todo]

\* Mutant: the table is asked before the folder is listed.
PruneIdsFirst ==
  /\ prune.pc = "idle"
  /\ prune' = PruneKeep(Sid \ open)
  /\ UNCHANGED <<pc, req, rows, disk, locks, sweep>>

PruneList ==
  /\ prune.pc = "idle" /\ parts # {}
  /\ prune' = [pc |-> "ids", todo |-> parts]
  /\ UNCHANGED <<pc, req, rows, disk, locks, sweep>>

PruneIds ==
  /\ prune.pc = "ids"
  /\ prune' = PruneKeep(prune.todo \ open)
  /\ UNCHANGED <<pc, req, rows, disk, locks, sweep>>

PruneRemove ==
  /\ prune.pc = "remove"
  /\ \E s \in prune.todo :
       /\ parts' = IF s \in quiet THEN parts \ {s} ELSE parts
       /\ prune' = PruneKeep(prune.todo \ {s})
  /\ UNCHANGED <<pc, req, rows, bytes, quiet, file, locks, sweep>>

-----------------------------------------------------------------------------
(* The environment.                                                        *)

\* Somebody deletes the file.
Unlink(n) ==
  /\ file[n] # Absent
  /\ file' = [file EXCEPT ![n] = Absent]
  /\ UNCHANGED <<pc, req, rows, parts, bytes, quiet, locks, tasks>>

\* A session goes without a stored chunk for the cleanup age, which no
\* preallocation of its part lasts.
GoStale(s) ==
  /\ s \in open \ stale
  /\ \A p \in Proc : ~(pc[p] = "c_part" /\ req[p].sid = s)
  /\ stale' = stale \cup {s}
  /\ UNCHANGED <<pc, req, open, meta, received, used, disk, locks, tasks>>

\* A part goes without a write for OrphanGrace; a body that stops for 60 s
\* ends its request, so no transfer is under way.
GoQuiet(s) ==
  /\ s \in parts \ quiet
  /\ \A p \in Proc : ~(pc[p] \in {"w_copy", "p_copy", "p_look", "p_pub"} /\ req[p].sid = s)
  /\ quiet' = quiet \cup {s}
  /\ UNCHANGED <<pc, req, rows, parts, bytes, file, locks, tasks>>

\* The client gives up: the next database call of the request fails and the
\* handler returns, releasing its locks. DeleteUpload of a finalization is
\* the one call that ignores it.
InDatabase == {"c_target", "c_delold", "c_reserve", "c_insert", "c_undo",
               "w_load", "w_lock", "w_mark", "f_lock", "a_delete"}

Cancel(p) ==
  /\ pc[p] \in InDatabase
  /\ pc[p] \in {"w_lock", "f_lock"} => MutexFree(p)
  /\ Reply(p)
  /\ UNCHANGED <<rows, disk, locks, tasks>>

\* The process dies: requests, background work and mutexes are gone, the
\* database and the folder stay.
Crash ==
  /\ pc' = [p \in Proc |-> "idle"]
  /\ req' = [p \in Proc |-> NoRequest]
  /\ sweep' = SweepIdle /\ prune' = PruneIdle
  /\ locks' = [s \in Sid |-> AnyMutex]
  /\ UNCHANGED <<rows, disk>>

-----------------------------------------------------------------------------

Create(p) ==
  \/ CreateBegin(p) \/ CreateLock(p) \/ CreateTarget(p) \/ CreateDrop(p)
  \/ CreateDeleteOld(p) \/ CreateReserve(p) \/ CreateInsert(p) \/ CreatePart(p)
  \/ CreateUndo(p)

WriteChunk(p) ==
  \/ ChunkBegin(p) \/ ChunkLoad(p) \/ ChunkOpen(p) \/ ChunkCopy(p)
  \/ ChunkEnter(p) \/ ChunkMark(p)

Complete(p) ==
  \/ CompleteBegin(p) \/ CompleteEnter(p) \/ CompleteLookup(p) \/ CompletePublish(p)
  \/ CompleteRename(p) \/ CompleteUnlink(p) \/ CompleteDelete(p)

Abort(p) == AbortLoad(p) \/ AbortPart(p) \/ AbortDelete(p)

StoreSmallFile(p) ==
  \/ PutBegin(p) \/ PutCopy(p) \/ PutFail(p) \/ PutLookup(p) \/ PutPublish(p)
  \/ PutRename(p) \/ PutUnlink(p) \/ PutUndo(p)

CleanupStale == SweepList \/ SweepPart \/ SweepRow \/ SweepCut
PruneOrphans == PruneList \/ PruneIds \/ PruneRemove

Next ==
  \/ \E p \in Proc : Create(p) \/ WriteChunk(p) \/ Complete(p) \/ Abort(p)
                       \/ StoreSmallFile(p) \/ Cancel(p)
  \/ CleanupStale \/ PruneOrphans
  \/ \E n \in Name : Unlink(n)
  \/ \E s \in Sid : GoStale(s) \/ GoQuiet(s)
  \/ Crash

Spec == Init /\ [][Next]_vars

-----------------------------------------------------------------------------
(* Fairness. A request under way moves on: a body that stops for 60 s is   *)
(* cut, and a waiter of a sync.Mutex is eventually served. The sweep runs  *)
(* every hour and at each start; restarts and its time limit do not hit    *)
(* the same gap of it forever. Nobody has to send, cancel, abort or delete *)
(* anything.                                                               *)

Proceed(p) ==
  \/ CreateTarget(p) \/ CreateDrop(p) \/ CreateDeleteOld(p) \/ CreateReserve(p)
  \/ CreateInsert(p) \/ CreatePart(p) \/ CreateUndo(p)
  \/ ChunkLoad(p) \/ ChunkOpen(p) \/ ChunkCopy(p) \/ ChunkMark(p)
  \/ CompleteLookup(p) \/ CompletePublish(p) \/ CompleteRename(p)
  \/ CompleteUnlink(p) \/ CompleteDelete(p) \/ AbortPart(p) \/ AbortDelete(p)
  \/ PutCopy(p) \/ PutLookup(p) \/ PutPublish(p) \/ PutRename(p) \/ PutUnlink(p)
  \/ PutUndo(p)

Acquire(p) == CreateLock(p) \/ ChunkEnter(p) \/ CompleteEnter(p)

Fairness ==
  /\ \A p \in Proc : WF_vars(Proceed(p)) /\ SF_vars(Acquire(p))
  /\ \A s \in Sid : WF_vars(GoStale(s))
  /\ WF_vars(SweepList) /\ SF_vars(SweepPart) /\ SF_vars(SweepRow)

FairSpec == Spec /\ Fairness

-----------------------------------------------------------------------------
(* Properties.                                                             *)

\* The declared sizes of the open sessions never exceed the cap, however many
\* creations run at once (insert under createMu, service.go:261).
ReservedUnderCap == MaxReserved = 0 \/ ReservedBytes <= MaxReserved

\* A name never shows part of an upload: every chunk the client declared is
\* on disk, with chunks in parallel, repeated, cut and racing Complete.
DeliveredWhole ==
  \A n \in Name : file[n] \in Sid => bytes[file[n]] = Chunks(meta[file[n]].file)

\* As long as a session still has its part, a chunk once marked stays marked:
\* parallel chunks do not overwrite each other's bit (service.go:416-426).
AckedChunksKept ==
  [][\A s \in open \cap open' \cap parts' : received[s] \subseteq received'[s]]_vars

\* A session ends only by a request of its own sender or by the sweep: the
\* account cannot end a visitor's session by aiming at the same name, nor the
\* other way round (load, supersede).
OnlySenderEnds ==
  [][\A s \in open \ open' :
        \/ sweep.pc = "row" /\ sweep.cur = s /\ sweep'.pc # "row"
        \/ \E p \in Proc : pc'[p] # pc[p] /\ req[p].who = meta[s].who]_vars

\* PruneOrphans never removes the part of a session in the table, whatever is
\* created or finalized between its listing and its query (service.go:512).
PruneSparesSessions ==
  [][prune' # prune => parts \cap open \subseteq parts']_vars

InPut(s) ==
  \E p \in Proc : /\ pc[p] \in {"p_copy", "p_look", "p_pub", "p_rename", "p_unlink", "p_undo"}
                  /\ req[p].sid = s

\* The finalization of s is past its checks: it no longer asks whether the
\* session is still there.
InComplete(s) == \E p \in Proc : pc[p] \in Finalizing /\ req[p].sid = s

Shown == [n \in Name |->
  IF file[n] \in Sid /\ bytes[file[n]] # Chunks(meta[file[n]].file) THEN "torn" ELSE file[n]]
Accepted == open \cup {s \in Sid : InPut(s) \/ InComplete(s)}
Ordered == [s \in Sid |-> [name |-> meta[s].name, over |-> meta[s].over]]

Promise == INSTANCE UploadPromise WITH
  folder <- Shown, accepted <- Accepted, order <- Ordered

\* The folder behaves as UploadPromise: names change only in whole steps, a
\* file is replaced only when asked, and an upload that was aborted, superseded
\* or swept does not show up afterwards, unless its finalization was already
\* under way (Abort and CleanupStale take no lock, service.go:478-510).
KeepsPromise == Promise!Spec

\* A session whose part is gone (a crash or a cancelled request between part
\* and row) holds its reservation and its name only for a while.
DeadSessionReleased ==
  \A s \in Sid : (s \in open /\ s \notin parts) ~> (s \notin open \/ s \in parts)

\* No request waits forever for createMu or for a session mutex.
RequestsEnd == \A p \in Proc : pc[p] # "idle" ~> pc[p] = "idle"
=============================================================================
