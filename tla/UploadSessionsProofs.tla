------------------------ MODULE UploadSessionsProofs ------------------------
(***************************************************************************)
(* Theorems about UploadSessions, for every set of handlers, clients, ids, *)
(* names and files, every chunk size and every cap: types; the names the   *)
(* folder shows, and that it keeps UploadPromise; and the lifetimes of     *)
(* sessions.                                                               *)
(***************************************************************************)
EXTENDS UploadSessions, SumTheorems

-----------------------------------------------------------------------------
(* Type correctness.                                                       *)

\* There is always a mutex to hand out: Service.lock makes one on demand.
LEMMA MutexExists == Mutex # {}
<1>1. Cardinality(Proc) \in Nat /\ Cardinality({}) = 0
  BY MutexesSuffice, FS_CardinalityType, FS_EmptySet
<1> QED BY <1>1, MutexesSuffice

LEMMA DefaultsTyped ==
  /\ AnySid \in Sid /\ AnyMutex \in Mutex
  /\ NoMeta \in Meta /\ NoRequest \in Request
  /\ SweepIdle \in SweepState /\ PruneIdle \in PruneState
<1>1. AnySid \in Sid /\ AnyMutex \in Mutex
  BY MutexExists, SomethingToSend DEF AnySid, AnyMutex
<1>2. NoMeta \in Meta
  BY SomethingToSend DEF NoMeta, Meta
<1>3. NoRequest \in Request
  BY <1>1, <1>2 DEF NoRequest, Request, Meta
<1> QED BY <1>1, <1>2, <1>3 DEF SweepIdle, PruneIdle, SweepState, PruneState

\* The chunks of a file are numbered by naturals.
LEMMA ChunksAreNatural == ASSUME NEW f \in File PROVE Chunks(f) \subseteq Nat
  BY DEF Chunks

LEMMA InitTyped == Init => TypeOK
  BY DefaultsTyped DEF Init, TypeOK, Steps

LEMMA ReplyTyped ==
  ASSUME TypeOK, NEW p \in Proc, Reply(p)
  PROVE  pc' \in [Proc -> Steps] /\ req' \in [Proc -> Request]
  BY DefaultsTyped DEF TypeOK, Reply, Goto, Steps

LEMMA GotoTyped ==
  ASSUME TypeOK, NEW p \in Proc, NEW l \in Steps, Goto(p, l)
  PROVE  pc' \in [Proc -> Steps]
  BY DEF TypeOK, Goto

LEMMA UnlockTyped ==
  ASSUME TypeOK, NEW s \in Sid, Unlock(s)
  PROVE  locks' \in [Sid -> Mutex]
<1> DEFINE free == Mutex \ Referenced(s)
<1>1. (CHOOSE m \in free : TRUE) \in free
  BY DEF Unlock
<1> QED BY <1>1 DEF Unlock, TypeOK

LEMMA CreateTyped ==
  ASSUME TypeOK, NEW p \in Proc, Create(p)
  PROVE  TypeOK'
<1> USE DEF rows, disk, tasks
<1>1. CASE CreateBegin(p)
  <2>1. PICK who \in Client, n \in Name, f \in SessionFile, over \in Overwrite, s \in Sid \ used :
          /\ req' = [req EXCEPT ![p] = [NoRequest EXCEPT !.who = who, !.name = n,
                                          !.file = f, !.over = over, !.sid = s]]
          /\ used' = used \cup {s}
    BY <1>1 DEF CreateBegin
  <2>2. [NoRequest EXCEPT !.who = who, !.name = n, !.file = f, !.over = over, !.sid = s] \in Request
    BY DefaultsTyped, FlagsAreBoolean DEF Request, File
  <2>3. req' \in [Proc -> Request] BY <2>1, <2>2 DEF TypeOK
  <2> QED BY <1>1, <2>1, <2>3 DEF CreateBegin, TypeOK, Goto, Steps
<1>2. CASE CreateLock(p)
  BY <1>2 DEF CreateLock, TypeOK, Goto, Steps, Creating
<1>3. CASE CreateTarget(p)
  BY <1>3 DEF CreateTarget, TypeOK, Goto, Steps, Creating, AtTarget, Request
<1>4. CASE CreateDrop(p)
  <2>1. req[p].old \in Sid BY DEF TypeOK, Request
  <2>2. locks' \in [Sid -> Mutex] BY <1>4, <2>1, UnlockTyped DEF CreateDrop, Discard
  <2> QED BY <1>4, <2>2 DEF CreateDrop, Discard, TypeOK, Goto, Steps, Creating
<1>5. CASE CreateDeleteOld(p)
  BY <1>5 DEF CreateDeleteOld, DeleteRow, TypeOK, Goto, Steps, Creating
<1>6. CASE CreateReserve(p)
  BY <1>6, ReplyTyped DEF CreateReserve, Refuse, TypeOK, Goto, Steps, Creating
<1>7. CASE CreateInsert(p)
  <2>1. CASE Refuse(p)
    BY <1>7, <2>1, ReplyTyped DEF Refuse, TypeOK
  <2>2. CASE InsertRow(p, req[p].sid) /\ Goto(p, "c_part") /\ UNCHANGED <<req, stale, used, disk, locks, tasks>>
    <3>1. req[p].sid \in Sid /\ req[p].who \in Client /\ req[p].name \in Name
             /\ req[p].file \in File /\ req[p].over \in BOOLEAN
      BY DEF TypeOK, Request
    <3> QED BY <2>2, <3>1 DEF InsertRow, TypeOK, Goto, Steps, Meta
  <2> QED BY <1>7, <2>1, <2>2 DEF CreateInsert
<1>8. CASE CreatePart(p)
  <2>1. req[p].sid \in Sid BY DEF TypeOK, Request
  <2>2. CASE NewPart(req[p].sid) /\ Reply(p)
    BY <1>8, <2>1, <2>2, ReplyTyped DEF CreatePart, NewPart, TypeOK
  <2>3. CASE Goto(p, "c_undo") /\ UNCHANGED <<req, parts, bytes>>
    BY <1>8, <2>3 DEF CreatePart, TypeOK, Goto, Steps
  <2> QED BY <1>8, <2>2, <2>3 DEF CreatePart
<1>9. CASE CreateUndo(p)
  BY <1>9, ReplyTyped DEF CreateUndo, DeleteRow, TypeOK
<1> QED BY <1>1, <1>2, <1>3, <1>4, <1>5, <1>6, <1>7, <1>8, <1>9 DEF Create

LEMMA WriteChunkTyped ==
  ASSUME TypeOK, NEW p \in Proc, WriteChunk(p)
  PROVE  TypeOK'
<1> USE DEF rows, disk, tasks
<1>1. CASE ChunkBegin(p)
  <2>0. PICK who \in Client, s \in open : \E i \in Chunks(meta[s].file) :
          req' = [req EXCEPT ![p] = [NoRequest EXCEPT !.who = who, !.sid = s, !.index = i]]
    BY <1>1 DEF ChunkBegin
  <2>1. PICK i \in Chunks(meta[s].file) :
          req' = [req EXCEPT ![p] = [NoRequest EXCEPT !.who = who, !.sid = s, !.index = i]]
    BY <2>0
  <2>2. s \in Sid /\ meta[s].file \in File BY DEF TypeOK, Meta
  <2>3. i \in Nat BY <2>2, ChunksAreNatural
  <2>4. [NoRequest EXCEPT !.who = who, !.sid = s, !.index = i] \in Request
    BY <2>2, <2>3, DefaultsTyped DEF Request
  <2> QED BY <1>1, <2>1, <2>4 DEF ChunkBegin, TypeOK, Goto, Steps
<1>2. CASE ChunkLoad(p)
  BY <1>2, ReplyTyped DEF ChunkLoad, TypeOK, Goto, Steps
<1>3. CASE ChunkOpen(p)
  BY <1>3, ReplyTyped DEF ChunkOpen, TypeOK, Goto, Steps
<1>4. CASE ChunkCopy(p)
  <2>1. req[p].sid \in Sid /\ req[p].index \in Nat BY DEF TypeOK, Request
  <2>2. CASE Reply(p) /\ UNCHANGED bytes
    BY <1>4, <2>2, ReplyTyped DEF ChunkCopy, TypeOK
  <2>3. CASE /\ bytes' = [bytes EXCEPT ![req[p].sid] = @ \cup {req[p].index}]
             /\ req' = [req EXCEPT ![p].mutex = locks[req[p].sid]]
             /\ Goto(p, "w_lock")
    <3>1. bytes' \in [Sid -> SUBSET Nat]
      <4>1. bytes \in [Sid -> SUBSET Nat] BY DEF TypeOK
      <4> QED BY <2>1, <2>3, <4>1
    <3>2. locks[req[p].sid] \in Mutex BY <2>1 DEF TypeOK
    <3>3. [req[p] EXCEPT !.mutex = locks[req[p].sid]] \in Request
      BY <3>2 DEF TypeOK, Request
    <3>4. req' \in [Proc -> Request] BY <2>3, <3>3 DEF TypeOK
    <3> QED BY <1>4, <2>3, <3>1, <3>4 DEF ChunkCopy, TypeOK, Goto, Steps
  <2> QED BY <1>4, <2>2, <2>3 DEF ChunkCopy
<1>5. CASE ChunkEnter(p)
  <2>1. req[p].sid \in Sid BY DEF TypeOK, Request
  <2>2. received[req[p].sid] \in SUBSET Nat BY <2>1 DEF TypeOK
  <2>3. req' \in [Proc -> Request]
    <3>1. CASE Reply(p) BY <3>1, ReplyTyped
    <3>2. CASE req' = [req EXCEPT ![p].seen = received[req[p].sid]]
      <4> DEFINE r == [req[p] EXCEPT !.seen = received[req[p].sid]]
      <4>1. req[p] \in Request BY DEF TypeOK
      <4>2. r \in Request BY <2>2, <4>1 DEF Request
      <4>3. req' = [req EXCEPT ![p] = r] BY <3>2, <4>1 DEF TypeOK
      <4> HIDE DEF r
      <4> QED BY <4>2, <4>3 DEF TypeOK
    <3> QED BY <1>5, <3>1, <3>2 DEF ChunkEnter
  <2> QED BY <1>5, <2>3, ReplyTyped DEF ChunkEnter, TypeOK, Goto, Steps, InSession
<1>6. CASE ChunkMark(p)
  <2>1. req[p].sid \in Sid /\ req[p].index \in Nat /\ req[p].seen \subseteq Nat
    BY DEF TypeOK, Request
  <2>2. received' \in [Sid -> SUBSET Nat] /\ stale' \subseteq Sid
    BY <1>6, <2>1 DEF ChunkMark, TypeOK
  <2> QED BY <1>6, <2>2, ReplyTyped DEF ChunkMark, TypeOK
<1> QED BY <1>1, <1>2, <1>3, <1>4, <1>5, <1>6 DEF WriteChunk

\* What publish leaves: the directory and the names stay typed.
LEMMA RenameTyped ==
  ASSUME TypeOK, NEW s \in Sid, NEW n \in Name, RenameTo(s, n) \/ LinkTo(s, n)
  PROVE  file' \in [Name -> Sid \cup {Absent, Foreign}] /\ parts' \subseteq Sid
  BY DEF RenameTo, LinkTo, TypeOK

LEMMA CompleteTyped ==
  ASSUME TypeOK, NEW p \in Proc, Complete(p)
  PROVE  TypeOK'
<1> USE DEF rows, disk, tasks
<1> DEFINE sid == req[p].sid
<1>a. sid \in Sid /\ meta[sid].name \in Name BY DEF TypeOK, Request, Meta
<1>1. CASE CompleteBegin(p)
  <2>1. PICK who \in Client, s \in open :
          req' = [req EXCEPT ![p] = [NoRequest EXCEPT !.who = who, !.sid = s, !.mutex = locks[s]]]
    BY <1>1 DEF CompleteBegin
  <2>2. s \in Sid /\ locks[s] \in Mutex BY DEF TypeOK
  <2>3. [NoRequest EXCEPT !.who = who, !.sid = s, !.mutex = locks[s]] \in Request
    BY <2>2, DefaultsTyped DEF Request
  <2> QED BY <1>1, <2>1, <2>3 DEF CompleteBegin, TypeOK, Goto, Steps
<1>2. CASE CompleteEnter(p)
  BY <1>2, ReplyTyped DEF CompleteEnter, TypeOK, Goto, Steps, InSession, Finalizing
<1>3. CASE CompleteLookup(p)
  <2>1. quiet' \subseteq Sid BY <1>3 DEF CompleteLookup, Stamp, TypeOK
  <2> QED BY <1>3, <2>1, ReplyTyped DEF CompleteLookup, TypeOK, Goto, Steps, InSession, Finalizing
<1>4. CASE CompletePublish(p)
  <2>1. file' \in [Name -> Sid \cup {Absent, Foreign}] /\ parts' \subseteq Sid
        /\ \/ Goto(p, "f_delete") /\ UNCHANGED req
           \/ Goto(p, "f_unlink") /\ UNCHANGED req
           \/ Goto(p, "f_rename") /\ UNCHANGED req
           \/ Reply(p)
    BY <1>4 DEF CompletePublish, Publish, RenameTo, LinkTo, TypeOK, Request, Meta
  <2>2. pc' \in [Proc -> Steps] /\ req' \in [Proc -> Request]
    BY <2>1, ReplyTyped DEF TypeOK, Goto, Steps, InSession, Finalizing
  <2> QED BY <1>4, <2>1, <2>2 DEF CompletePublish, TypeOK
<1>5. CASE CompleteRename(p)
  <2>1. file' \in [Name -> Sid \cup {Absent, Foreign}] /\ parts' \subseteq Sid
    BY <1>5, <1>a, RenameTyped DEF CompleteRename, TypeOK
  <2>2. pc' \in [Proc -> Steps] /\ req' \in [Proc -> Request]
    BY <1>5, ReplyTyped DEF CompleteRename, TypeOK, Goto, Steps, InSession, Finalizing
  <2> QED BY <1>5, <2>1, <2>2 DEF CompleteRename, TypeOK
<1>6. CASE CompleteUnlink(p)
  <2>1. pc' \in [Proc -> Steps] /\ req' \in [Proc -> Request]
    BY <1>6, ReplyTyped DEF CompleteUnlink, TypeOK, Goto, Steps, InSession, Finalizing
  <2> QED BY <1>6, <2>1 DEF CompleteUnlink, TypeOK
<1>7. CASE CompleteDelete(p)
  <2>1. locks' \in [Sid -> Mutex] BY <1>7, <1>a, UnlockTyped DEF CompleteDelete
  <2> QED BY <1>7, <2>1, ReplyTyped DEF CompleteDelete, DeleteRow, TypeOK
<1> QED BY <1>1, <1>2, <1>3, <1>4, <1>5, <1>6, <1>7 DEF Complete

LEMMA AbortTyped ==
  ASSUME TypeOK, NEW p \in Proc, Abort(p)
  PROVE  TypeOK'
<1> USE DEF rows, disk, tasks
<1>1. CASE AbortLoad(p)
  <2>1. PICK who \in Client, s \in Sid :
          req' = [req EXCEPT ![p] = [NoRequest EXCEPT !.who = who, !.sid = s]]
    BY <1>1 DEF AbortLoad
  <2>2. [NoRequest EXCEPT !.who = who, !.sid = s] \in Request BY DefaultsTyped DEF Request
  <2> QED BY <1>1, <2>1, <2>2 DEF AbortLoad, TypeOK, Goto, Steps
<1>2. CASE AbortPart(p)
  <2>1. req[p].sid \in Sid BY DEF TypeOK, Request
  <2>2. locks' \in [Sid -> Mutex] BY <1>2, <2>1, UnlockTyped DEF AbortPart, Discard
  <2> QED BY <1>2, <2>2 DEF AbortPart, Discard, TypeOK, Goto, Steps
<1>3. CASE AbortDelete(p)
  BY <1>3, ReplyTyped DEF AbortDelete, DeleteRow, TypeOK
<1> QED BY <1>1, <1>2, <1>3 DEF Abort

LEMMA PutTyped ==
  ASSUME TypeOK, NEW p \in Proc, StoreSmallFile(p)
  PROVE  TypeOK'
<1> USE DEF rows, disk, tasks
<1> DEFINE sid == req[p].sid
<1>a. sid \in Sid /\ meta[sid].name \in Name /\ meta[sid].file \in File
  BY DEF TypeOK, Request, Meta
<1>1. CASE PutBegin(p)
  <2>1. PICK who \in Client, n \in Name, f \in PutFile, over \in Overwrite, s \in Sid \ used :
          /\ req' = [req EXCEPT ![p] = [NoRequest EXCEPT !.who = who, !.sid = s]]
          /\ used' = used \cup {s}
          /\ meta' = [meta EXCEPT ![s] = [who |-> who, name |-> n, file |-> f, over |-> over]]
          /\ NewPart(s)
    BY <1>1 DEF PutBegin
  <2>2. [NoRequest EXCEPT !.who = who, !.sid = s] \in Request BY DefaultsTyped DEF Request
  <2>3. [who |-> who, name |-> n, file |-> f, over |-> over] \in Meta
    BY FlagsAreBoolean DEF Meta, File
  <2>4. meta' \in [Sid -> Meta] /\ req' \in [Proc -> Request] BY <2>1, <2>2, <2>3 DEF TypeOK
  <2>5. parts' \subseteq Sid /\ bytes' \in [Sid -> SUBSET Nat] BY <2>1 DEF NewPart, TypeOK
  <2> QED BY <1>1, <2>1, <2>4, <2>5 DEF PutBegin, TypeOK, Goto, Steps
<1>2. CASE PutCopy(p)
  <2>1. quiet' \subseteq Sid BY <1>2 DEF PutCopy, Stamp, TypeOK
  <2>2. bytes' \in [Sid -> SUBSET Nat]
    BY <1>2, <1>a, ChunksAreNatural DEF PutCopy, TypeOK
  <2> QED BY <1>2, <2>1, <2>2 DEF PutCopy, TypeOK, Goto, Steps
<1>3. CASE PutFail(p)
  BY <1>3 DEF PutFail, TypeOK, Goto, Steps
<1>4. CASE PutLookup(p)
  BY <1>4 DEF PutLookup, TypeOK, Goto, Steps
<1>5. CASE PutPublish(p)
  <2>1. file' \in [Name -> Sid \cup {Absent, Foreign}] /\ parts' \subseteq Sid
        /\ \/ Reply(p)
           \/ Goto(p, "p_unlink") /\ UNCHANGED req
           \/ Goto(p, "p_rename") /\ UNCHANGED req
           \/ Goto(p, "p_undo") /\ UNCHANGED req
    BY <1>5 DEF PutPublish, Publish, RenameTo, LinkTo, TypeOK, Request, Meta
  <2>2. pc' \in [Proc -> Steps] /\ req' \in [Proc -> Request]
    BY <2>1, ReplyTyped DEF TypeOK, Goto, Steps
  <2> QED BY <1>5, <2>1, <2>2 DEF PutPublish, TypeOK
<1>6. CASE PutRename(p)
  <2>1. file' \in [Name -> Sid \cup {Absent, Foreign}] /\ parts' \subseteq Sid
    BY <1>6, <1>a, RenameTyped DEF PutRename, TypeOK
  <2>2. pc' \in [Proc -> Steps] /\ req' \in [Proc -> Request]
    BY <1>6, ReplyTyped DEF PutRename, TypeOK, Goto, Steps
  <2> QED BY <1>6, <2>1, <2>2 DEF PutRename, TypeOK
<1>7. CASE PutUnlink(p)
  BY <1>7, ReplyTyped DEF PutUnlink, TypeOK
<1>8. CASE PutUndo(p)
  BY <1>8, ReplyTyped DEF PutUndo, TypeOK
<1> QED BY <1>1, <1>2, <1>3, <1>4, <1>5, <1>6, <1>7, <1>8 DEF StoreSmallFile

LEMMA TasksTyped ==
  ASSUME TypeOK, CleanupStale \/ PruneOrphans
  PROVE  TypeOK'
<1> USE DEF rows, disk
<1>a. sweep.cur \in Sid BY DEF TypeOK, SweepState
<1>b. ASSUME SweepOn PROVE sweep' \in SweepState
  BY <1>b, DefaultsTyped DEF SweepOn, TypeOK, SweepState
<1>1. CASE SweepList
  BY <1>1 DEF SweepList, TypeOK, SweepState
<1>2. CASE SweepPart
  <2>1. PICK s \in sweep.todo :
          /\ parts' = parts \ {s}
          /\ sweep' = [pc |-> "row", todo |-> sweep.todo \ {s}, cur |-> s]
    BY <1>2 DEF SweepPart
  <2>2. sweep' \in SweepState BY <2>1 DEF TypeOK, SweepState
  <2> QED BY <1>2, <2>1, <2>2 DEF SweepPart, TypeOK
<1>3. CASE SweepRow
  <2>1. locks' \in [Sid -> Mutex] BY <1>3, <1>a, UnlockTyped DEF SweepRow
  <2> QED BY <1>3, <2>1, <1>b DEF SweepRow, DeleteRow, TypeOK
<1>4. CASE SweepCut
  <2>1. locks' \in [Sid -> Mutex] BY <1>4, <1>a, UnlockTyped DEF SweepCut
  <2> QED BY <1>4, <2>1, <1>b DEF SweepCut, TypeOK
<1>5. CASE PruneList
  BY <1>5 DEF PruneList, TypeOK, PruneState
<1>6. CASE PruneIds
  <2>1. prune' \in PruneState BY <1>6, DefaultsTyped DEF PruneIds, PruneKeep, TypeOK, PruneState
  <2> QED BY <1>6, <2>1 DEF PruneIds, TypeOK
<1>7. CASE PruneRemove
  <2>1. PICK s \in prune.todo :
          /\ parts' = IF s \in quiet THEN parts \ {s} ELSE parts
          /\ prune' = PruneKeep(prune.todo \ {s})
    BY <1>7 DEF PruneRemove
  <2>2. prune' \in PruneState BY <2>1, DefaultsTyped DEF PruneKeep, TypeOK, PruneState
  <2> QED BY <1>7, <2>1, <2>2 DEF PruneRemove, TypeOK
<1> QED BY <1>1, <1>2, <1>3, <1>4, <1>5, <1>6, <1>7 DEF CleanupStale, PruneOrphans

LEMMA StepTyped == TypeOK /\ [Next]_vars => TypeOK'
<1> SUFFICES ASSUME TypeOK, [Next]_vars PROVE TypeOK'
  OBVIOUS
<1> USE DEF rows, disk, tasks
<1>1. CASE UNCHANGED vars
  BY <1>1 DEF vars, TypeOK
<1>2. ASSUME NEW p \in Proc, Cancel(p) PROVE TypeOK'
  BY <1>2, ReplyTyped DEF Cancel, TypeOK
<1>3. ASSUME NEW n \in Name, Unlink(n) PROVE TypeOK'
  BY <1>3 DEF Unlink, TypeOK
<1>4. ASSUME NEW s \in Sid, GoStale(s) \/ GoQuiet(s) PROVE TypeOK'
  BY <1>4 DEF GoStale, GoQuiet, TypeOK
<1>5. CASE Crash
  BY <1>5, DefaultsTyped DEF Crash, TypeOK, Steps
<1> QED BY <1>1, <1>2, <1>3, <1>4, <1>5, CreateTyped, WriteChunkTyped, CompleteTyped,
           AbortTyped, PutTyped, TasksTyped DEF Next

\* Every variable keeps its type: in particular no step leaves an id, a chunk
\* index or a mutex out of range, whatever the interleaving.
THEOREM TypeCorrect == Spec => []TypeOK
  BY InitTyped, StepTyped, PTL DEF Spec

-----------------------------------------------------------------------------
(* A name never shows part of an upload. DeliveredWhole is not inductive:  *)
(* that a published inode is whole rests on what the handler that renames  *)
(* it has checked, that on what the marks of the session mean, and that on *)
(* an id belonging to one creation and to one declaration for ever.        *)

\* A creation that has no row yet, and one that has no part yet.
BeforeRow == {"c_lock"} \cup Creating
BeforePart == BeforeRow \cup {"c_part"}
Putting == {"p_copy", "p_look", "p_pub", "p_rename", "p_unlink", "p_undo"}
Loading == {"w_load", "w_open", "w_copy"}
Copied == {"w_lock", "w_mark"}
\* The handlers that know the part of their id to be whole.
Certain == Finalizing \cup {"p_look", "p_pub", "p_rename", "p_unlink"}

Busy(p, s) == pc[p] # "idle" /\ req[p].sid = s

\* No part of s was ever made.
Untouched(s) ==
  /\ s \notin parts /\ bytes[s] = {} /\ received[s] = {}
  /\ \A n \in Name : file[n] # s
  /\ \A q \in Proc : Busy(q, s) => pc[q] \notin {"w_copy"} \cup Copied \cup Putting

IdsFresh == \A s \in Sid \ used :
  s \notin open /\ Untouched(s) /\ \A q \in Proc : ~Busy(q, s)
IdsDrawn == \A p \in Proc : pc[p] \in BeforePart =>
  /\ req[p].sid \in used /\ Untouched(req[p].sid)
  /\ \A q \in Proc \ {p} : Busy(q, req[p].sid) => pc[q] \notin BeforePart
IdsAlone == \A p \in Proc : pc[p] \in BeforeRow =>
  /\ req[p].sid \notin open
  /\ \A q \in Proc \ {p} : ~Busy(q, req[p].sid)

IndexInRange == \A p \in Proc : pc[p] \in Loading => req[p].index \in Chunks(meta[req[p].sid].file)
BytesInRange == \A s \in Sid : bytes[s] \subseteq Chunks(meta[s].file)
MarkedStored == \A s \in Sid : received[s] \subseteq bytes[s]
CopiedStored == \A p \in Proc : pc[p] \in Copied => req[p].index \in bytes[req[p].sid]
SeenStored == \A p \in Proc : pc[p] = "w_mark" => req[p].seen \subseteq bytes[req[p].sid]
CertainStored == \A p \in Proc : pc[p] \in Certain =>
  Chunks(meta[req[p].sid].file) \subseteq bytes[req[p].sid]
NamedStored == \A n \in Name : file[n] \in Sid =>
  Chunks(meta[file[n]].file) \subseteq bytes[file[n]]

Ids == IdsFresh /\ IdsDrawn /\ IdsAlone
Stored == /\ IndexInRange /\ BytesInRange /\ MarkedStored /\ CopiedStored
          /\ SeenStored /\ CertainStored /\ NamedStored
IInv == TypeOK /\ Ids /\ Stored

\* Most steps only let go: rows, parts, marks and names go away, no byte is
\* written, and each handler ends or moves on inside the stretches it is in.
Calmer(p) ==
  \/ pc'[p] = "idle"
  \/ /\ pc[p] # "idle"
     /\ req'[p].sid = req[p].sid /\ req'[p].index = req[p].index /\ req'[p].seen = req[p].seen
     /\ pc'[p] \in BeforeRow => pc[p] \in BeforeRow
     /\ pc'[p] \in BeforePart => pc[p] \in BeforePart
     /\ pc'[p] \in Loading => pc[p] \in Loading
     /\ pc'[p] = "w_copy" => pc[p] = "w_copy"
     /\ pc'[p] \in Copied => pc[p] \in Copied
     /\ pc'[p] = "w_mark" => pc[p] = "w_mark"
     /\ pc'[p] \in Putting => pc[p] \in Putting
     /\ pc'[p] \in Certain => pc[p] \in Certain

LetsGo ==
  /\ open' \subseteq open /\ parts' \subseteq parts
  /\ \A s \in Sid : received'[s] \subseteq received[s]
  /\ \A n \in Name : file'[n] \in {file[n], Absent}
  /\ UNCHANGED <<meta, used, bytes>>

LEMMA CalmStep ==
  ASSUME IInv, LetsGo, \A p \in Proc : Calmer(p)
  PROVE  Ids' /\ Stored'
<1> USE DEF IInv, LetsGo, Calmer
<1>a. \A p \in Proc : req[p].sid \in Sid BY DEF TypeOK, Request
<1>b. \A p \in Proc, s \in Sid : Busy(p, s)' => Busy(p, s) /\ req'[p].sid = req[p].sid
  BY DEF Busy
<1>c. \A s \in Sid : Untouched(s) => Untouched(s)'
  <2> SUFFICES ASSUME NEW s \in Sid, Untouched(s) PROVE Untouched(s)'
    OBVIOUS
  <2>1. s \notin parts' /\ bytes'[s] = {} /\ received'[s] = {} BY DEF Untouched
  <2>2. \A n \in Name : file'[n] # s BY NamesAreDistinguishable DEF Untouched
  <2>3. \A q \in Proc : Busy(q, s)' => pc'[q] \notin {"w_copy"} \cup Copied \cup Putting
    BY <1>b DEF Untouched, Busy
  <2> QED BY <2>1, <2>2, <2>3 DEF Untouched
<1>1. IdsFresh' BY <1>b, <1>c DEF Ids, IdsFresh
<1>2. IdsDrawn' BY <1>a, <1>b, <1>c DEF Ids, IdsDrawn, Busy, BeforePart, BeforeRow, Creating
<1>3. IdsAlone' BY <1>a, <1>b DEF Ids, IdsAlone, Busy, BeforeRow, Creating
<1>4. IndexInRange' BY DEF Stored, IndexInRange, Loading
<1>5. BytesInRange' BY DEF Stored, BytesInRange
<1>6. MarkedStored' BY DEF Stored, MarkedStored
<1>7. CopiedStored' BY DEF Stored, CopiedStored, Copied
<1>8. SeenStored' BY DEF Stored, SeenStored
<1>9. CertainStored' BY DEF Stored, CertainStored, Certain, Finalizing
<1>10. NamedStored' BY NamesAreDistinguishable DEF Stored, NamedStored
<1> QED BY <1>1, <1>2, <1>3, <1>4, <1>5, <1>6, <1>7, <1>8, <1>9, <1>10 DEF Ids, Stored

LEMMA ReplyIsCalm ==
  ASSUME TypeOK, NEW p \in Proc, Reply(p)
  PROVE  \A q \in Proc : Calmer(q)
  BY DEF TypeOK, Reply, Goto, Calmer

\* A handler that moves on without touching its id, index and bits.
LEMMA GotoIsCalm ==
  ASSUME TypeOK, NEW p \in Proc, NEW l, Goto(p, l), pc[p] # "idle",
         \A q \in Proc : /\ req'[q].sid = req[q].sid /\ req'[q].index = req[q].index
                         /\ req'[q].seen = req[q].seen,
         l \in BeforeRow => pc[p] \in BeforeRow,
         l \in BeforePart => pc[p] \in BeforePart,
         l \in Loading => pc[p] \in Loading,
         l \notin {"w_copy"} \cup Copied,
         l \in Putting => pc[p] \in Putting,
         l \in Certain => pc[p] \in Certain
  PROVE  \A q \in Proc : Calmer(q)
  BY DEF TypeOK, Goto, Calmer, Copied

LEMMA DeleteRowLetsGo ==
  ASSUME TypeOK, NEW s \in Sid, DeleteRow(s), UNCHANGED <<meta, used, disk>>
  PROVE  LetsGo
  BY DEF DeleteRow, LetsGo, TypeOK, disk

LEMMA NothingLetsGo ==
  ASSUME UNCHANGED <<rows, parts, bytes, file>>
  PROVE  LetsGo
  BY DEF LetsGo, rows

LEMMA CreateCalm ==
  ASSUME IInv, NEW p \in Proc,
         \/ CreateLock(p) \/ CreateTarget(p) \/ CreateDrop(p) \/ CreateDeleteOld(p)
         \/ (CreateReserve(p) /\ UNCHANGED used) \/ CreateUndo(p)
  PROVE  LetsGo /\ \A q \in Proc : Calmer(q)
<1> USE DEF BeforeRow, BeforePart, Loading, Putting, Certain, Copied, Creating, Finalizing
<1>a. TypeOK /\ req[p].sid \in Sid /\ req[p].old \in Sid BY DEF IInv, TypeOK, Request
<1>1. CASE CreateLock(p)
  BY <1>1, <1>a, NothingLetsGo, GotoIsCalm DEF CreateLock, disk
<1>2. CASE CreateTarget(p)
  <2>1. \A q \in Proc : /\ req'[q].sid = req[q].sid /\ req'[q].index = req[q].index
                        /\ req'[q].seen = req[q].seen
    BY <1>2, <1>a DEF CreateTarget, TypeOK, Request
  <2>2. Goto(p, "c_drop") \/ Goto(p, "c_reserve") BY <1>2 DEF CreateTarget
  <2>3. \A q \in Proc : Calmer(q) BY <1>2, <1>a, <2>1, <2>2, GotoIsCalm DEF CreateTarget
  <2> QED BY <1>2, <2>3, NothingLetsGo DEF CreateTarget, disk
<1>3. CASE CreateDrop(p)
  BY <1>3, <1>a, GotoIsCalm DEF CreateDrop, Discard, LetsGo, rows
<1>4. CASE CreateDeleteOld(p)
  BY <1>4, <1>a, DeleteRowLetsGo, GotoIsCalm DEF CreateDeleteOld
<1>5. CASE CreateReserve(p) /\ UNCHANGED used
  BY <1>5, <1>a, NothingLetsGo, ReplyIsCalm, GotoIsCalm DEF CreateReserve, Refuse, rows, disk
<1>6. CASE CreateUndo(p)
  BY <1>6, <1>a, DeleteRowLetsGo, ReplyIsCalm DEF CreateUndo
<1> QED BY <1>1, <1>2, <1>3, <1>4, <1>5, <1>6

\* A drawn id is nobody else's.
LEMMA CreateBeginKeeps ==
  ASSUME IInv, NEW p \in Proc, CreateBegin(p)
  PROVE  Ids' /\ Stored'
<1> USE DEF BeforeRow, BeforePart, Loading, Putting, Certain, Copied, Creating, Finalizing, rows, disk
<1>a. TypeOK BY DEF IInv
<1>b. PICK s \in Sid \ used : req'[p].sid = s /\ used' = used \cup {s}
  BY <1>a DEF CreateBegin, TypeOK, NoRequest
<1>c. pc'[p] = "c_lock" /\ \A q \in Proc \ {p} : pc'[q] = pc[q] /\ req'[q] = req[q]
  BY <1>a DEF CreateBegin, TypeOK, Goto
<1>d. UNCHANGED <<open, meta, received, parts, bytes, file>> BY DEF CreateBegin
<1>e. \A q \in Proc, t \in Sid : Busy(q, t)' <=> IF q = p THEN t = s ELSE Busy(q, t)
  BY <1>b, <1>c DEF Busy
<1>f. \A q \in Proc : ~Busy(q, s) BY <1>b DEF IInv, Ids, IdsFresh
<1>g. \A t \in Sid : Untouched(t) => Untouched(t)'
  BY <1>c, <1>d, <1>e, <1>f DEF Untouched, Busy
<1>h. \A q \in Proc : req[q].sid \in Sid BY <1>a DEF TypeOK, Request
<1>1. IdsFresh' BY <1>b, <1>d, <1>e, <1>g DEF IInv, Ids, IdsFresh
<1>2. IdsDrawn'
  <2> SUFFICES ASSUME NEW q \in Proc, pc'[q] \in BeforePart
               PROVE  /\ req'[q].sid \in used' /\ Untouched(req[q].sid)'
                      /\ \A x \in Proc \ {q} : Busy(x, req[q].sid)' => pc'[x] \notin BeforePart
    BY DEF IdsDrawn
  <2>1. CASE q = p
    BY <2>1, <1>b, <1>e, <1>f, <1>g DEF IInv, Ids, IdsFresh
  <2>2. CASE q # p
    <3>1. Busy(q, req[q].sid) BY <2>2, <1>c DEF Busy
    <3>2. req[q].sid # s BY <3>1, <1>f
    <3> QED BY <2>2, <3>2, <1>b, <1>c, <1>e, <1>g, <1>h DEF IInv, Ids, IdsDrawn
  <2> QED BY <2>1, <2>2
<1>3. IdsAlone'
  <2> SUFFICES ASSUME NEW q \in Proc, pc'[q] \in BeforeRow
               PROVE  req'[q].sid \notin open' /\ \A x \in Proc \ {q} : ~Busy(x, req[q].sid)'
    BY DEF IdsAlone
  <2>1. CASE q = p
    BY <2>1, <1>b, <1>d, <1>e, <1>f DEF IInv, Ids, IdsFresh
  <2>2. CASE q # p
    <3>1. Busy(q, req[q].sid) BY <2>2, <1>c DEF Busy
    <3>2. req[q].sid # s BY <3>1, <1>f
    <3> QED BY <2>2, <3>2, <1>c, <1>d, <1>e, <1>h DEF IInv, Ids, IdsAlone
  <2> QED BY <2>1, <2>2
<1>4. Stored'
  BY <1>c, <1>d DEF IInv, Stored, IndexInRange, BytesInRange, MarkedStored, CopiedStored,
                    SeenStored, CertainStored, NamedStored
<1> QED BY <1>1, <1>2, <1>3, <1>4 DEF Ids

\* A refused id goes back to the pool as it came.
LEMMA RefuseKeeps ==
  ASSUME IInv, NEW p \in Proc, Refuse(p), pc[p] \in BeforeRow
  PROVE  Ids' /\ Stored'
<1> USE DEF rows, disk
<1>a. TypeOK BY DEF IInv
<1>b. pc'[p] = "idle" /\ \A q \in Proc \ {p} : pc'[q] = pc[q] /\ req'[q] = req[q]
  BY <1>a DEF Refuse, Reply, TypeOK, Goto
<1>c. UNCHANGED <<open, meta, received, parts, bytes, file>> /\ used' = used \ {req[p].sid}
  BY DEF Refuse
<1>d. \A q \in Proc, t \in Sid : Busy(q, t)' <=> q # p /\ Busy(q, t)
  BY <1>b DEF Busy
<1>e. \A t \in Sid : Untouched(t) => Untouched(t)'
  BY <1>b, <1>c, <1>d DEF Untouched, Busy
<1>f. \A q \in Proc \ {p} : ~Busy(q, req[p].sid) BY DEF IInv, Ids, IdsAlone
<1>g. \A q \in Proc : req[q].sid \in Sid BY <1>a DEF TypeOK, Request
<1>h. \A q \in Proc : pc'[q] # "idle" => q # p /\ req[q].sid # req[p].sid
  BY <1>b, <1>f DEF Busy
<1>1. IdsFresh'
  <2>1. req[p].sid \notin open /\ Untouched(req[p].sid)
    BY DEF IInv, Ids, IdsAlone, IdsDrawn, BeforePart
  <2> QED BY <2>1, <1>c, <1>d, <1>e, <1>f, <1>g DEF IInv, Ids, IdsFresh
<1>2. IdsDrawn'
  <2>1. "idle" \notin BeforePart BY DEF BeforePart, BeforeRow, Creating
  <2> QED BY <2>1, <1>b, <1>c, <1>d, <1>e, <1>g, <1>h DEF IInv, Ids, IdsDrawn
<1>3. IdsAlone'
  <2>1. "idle" \notin BeforeRow BY DEF BeforeRow, Creating
  <2> QED BY <2>1, <1>b, <1>c, <1>d, <1>g, <1>h DEF IInv, Ids, IdsAlone
<1>4. Stored'
  BY <1>b, <1>c DEF IInv, Stored, IndexInRange, BytesInRange, MarkedStored, CopiedStored,
                    SeenStored, CertainStored, NamedStored, Loading, Copied, Certain, Finalizing
<1> QED BY <1>1, <1>2, <1>3, <1>4 DEF Ids

\* The row gets the declaration before any byte of the id exists, and nobody
\* else knows the id yet.
LEMMA InsertKeeps ==
  ASSUME IInv, NEW p \in Proc, pc[p] = "c_insert", InsertRow(p, req[p].sid), Goto(p, "c_part"),
         UNCHANGED <<req, stale, used, disk>>
  PROVE  Ids' /\ Stored'
<1> USE DEF disk
<1> DEFINE s == req[p].sid
<1>a. TypeOK /\ s \in Sid BY DEF IInv, TypeOK, Request
<1>b. pc'[p] = "c_part" /\ req' = req /\ \A q \in Proc \ {p} : pc'[q] = pc[q]
  BY <1>a DEF TypeOK, Goto
<1>c. UNCHANGED <<used, parts, bytes, file>> /\ open' = open \cup {s}
  BY DEF InsertRow
<1>d. \A q \in Proc, t \in Sid : Busy(q, t)' <=> Busy(q, t)
  BY <1>b DEF Busy
<1>e. s \in used /\ Untouched(s) /\ \A q \in Proc \ {p} : ~Busy(q, s)
  BY DEF IInv, Ids, IdsDrawn, IdsAlone, BeforePart, BeforeRow, Creating
<1>f. \A t \in Sid : meta'[t] = (IF t = s THEN meta'[s] ELSE meta[t])
                     /\ received'[t] = (IF t = s THEN {} ELSE received[t])
  BY <1>a DEF InsertRow, TypeOK
<1>g. \A t \in Sid : Untouched(t) => Untouched(t)'
  BY <1>b, <1>c, <1>d, <1>f DEF Untouched, Busy, Copied, Putting
<1>h. \A q \in Proc : req[q].sid \in Sid BY <1>a DEF TypeOK, Request
<1>i. \A q \in Proc \ {p} : pc[q] # "idle" => req[q].sid # s BY <1>e DEF Busy
<1>1. IdsFresh' BY <1>c, <1>d, <1>e, <1>g DEF IInv, Ids, IdsFresh
<1>2. IdsDrawn'
  BY <1>b, <1>c, <1>d, <1>e, <1>g, <1>h DEF IInv, Ids, IdsDrawn, BeforePart, BeforeRow, Creating
<1>3. IdsAlone'
  BY <1>b, <1>c, <1>d, <1>h, <1>i DEF IInv, Ids, IdsAlone, BeforeRow, Creating
<1>4. IndexInRange'
  BY <1>b, <1>f, <1>h, <1>i DEF IInv, Stored, IndexInRange, Loading
<1>5. BytesInRange' BY <1>c, <1>e, <1>f DEF IInv, Stored, BytesInRange, Untouched
<1>6. MarkedStored' BY <1>c, <1>f DEF IInv, Stored, MarkedStored
<1>7. CopiedStored' /\ SeenStored'
  BY <1>b, <1>c DEF IInv, Stored, CopiedStored, SeenStored, Copied
<1>8. CertainStored'
  BY <1>b, <1>c, <1>f, <1>h, <1>i DEF IInv, Stored, CertainStored, Certain, Finalizing
<1>9. NamedStored' BY <1>c, <1>e, <1>f DEF IInv, Stored, NamedStored, Untouched
<1> QED BY <1>1, <1>2, <1>3, <1>4, <1>5, <1>6, <1>7, <1>8, <1>9 DEF Ids, Stored

\* A new part loses no byte: there was none.
LEMMA NewPartKeeps ==
  ASSUME IInv, NEW p \in Proc, pc[p] = "c_part", NewPart(req[p].sid), Reply(p),
         UNCHANGED <<rows, file>>
  PROVE  Ids' /\ Stored'
<1> USE DEF rows
<1> DEFINE s == req[p].sid
<1>a. TypeOK /\ s \in Sid BY DEF IInv, TypeOK, Request
<1>b. pc'[p] = "idle" /\ \A q \in Proc \ {p} : pc'[q] = pc[q] /\ req'[q] = req[q]
  BY <1>a DEF TypeOK, Reply, Goto
<1>e. s \in used /\ Untouched(s) /\ \A q \in Proc \ {p} : Busy(q, s) => pc[q] \notin BeforePart
  BY DEF IInv, Ids, IdsDrawn, BeforePart
<1>c. UNCHANGED <<used, open, meta, received, bytes, file>> /\ parts' = parts \cup {s}
  BY <1>a, <1>e DEF NewPart, Untouched, TypeOK
<1>d. \A q \in Proc, t \in Sid : Busy(q, t)' <=> q # p /\ Busy(q, t)
  BY <1>b DEF Busy
<1>g. \A t \in Sid \ {s} : Untouched(t) => Untouched(t)'
  BY <1>b, <1>c, <1>d DEF Untouched, Busy
<1>h. \A q \in Proc : req[q].sid \in Sid BY <1>a DEF TypeOK, Request
<1>i. \A q \in Proc : pc'[q] \in BeforePart => q # p /\ req[q].sid # s
  BY <1>b, <1>e DEF Busy, BeforePart, BeforeRow, Creating
<1>1. IdsFresh' BY <1>c, <1>d, <1>e, <1>g DEF IInv, Ids, IdsFresh
<1>2. IdsDrawn'
  BY <1>b, <1>c, <1>d, <1>g, <1>h, <1>i DEF IInv, Ids, IdsDrawn
<1>3. IdsAlone'
  BY <1>b, <1>c, <1>d, <1>h DEF IInv, Ids, IdsAlone, BeforeRow, Creating
<1>4. Stored'
  BY <1>b, <1>c DEF IInv, Stored, IndexInRange, BytesInRange, MarkedStored, CopiedStored,
                    SeenStored, CertainStored, NamedStored, Loading, Copied, Certain, Finalizing
<1> QED BY <1>1, <1>2, <1>3, <1>4 DEF Ids

LEMMA CreateKeeps ==
  ASSUME IInv, NEW p \in Proc, Create(p)
  PROVE  Ids' /\ Stored'
<1>a. TypeOK BY DEF IInv
<1>1. CASE CreateReserve(p)
  <2>1. CASE Refuse(p) BY <1>1, <2>1, RefuseKeeps DEF CreateReserve, BeforeRow, Creating
  <2>2. CASE UNCHANGED used BY <1>1, <2>2, CreateCalm, CalmStep
  <2> QED BY <1>1, <2>1, <2>2 DEF CreateReserve, rows
<1>2. CASE CreateInsert(p)
  BY <1>2, RefuseKeeps, InsertKeeps DEF CreateInsert, BeforeRow, Creating
<1>3. CASE CreatePart(p)
  <2>1. CASE NewPart(req[p].sid) /\ Reply(p)
    BY <1>3, <2>1, NewPartKeeps DEF CreatePart
  <2>2. CASE Goto(p, "c_undo") /\ UNCHANGED <<req, parts, bytes>>
    <3>1. \A q \in Proc : Calmer(q)
      BY <1>3, <1>a, <2>2, GotoIsCalm
         DEF CreatePart, BeforeRow, BeforePart, Loading, Putting, Certain, Copied, Creating, Finalizing
    <3> QED BY <1>3, <2>2, <3>1, NothingLetsGo, CalmStep DEF CreatePart
  <2> QED BY <1>3, <2>1, <2>2 DEF CreatePart
<1>4. CASE CreateBegin(p) BY <1>4, CreateBeginKeeps
<1> QED BY <1>1, <1>2, <1>3, <1>4, CreateCalm, CalmStep DEF Create

\* A request on an open session begins: the id is drawn and has its row.
LEMMA BeginKeeps ==
  ASSUME IInv, NEW p \in Proc, NEW s \in open, NEW l \in {"w_load", "f_lock", "a_part"},
         pc[p] = "idle", Goto(p, l), req'[p].sid = s,
         \A q \in Proc \ {p} : req'[q] = req[q],
         l = "w_load" => req'[p].index \in Chunks(meta[s].file),
         UNCHANGED <<rows, disk>>
  PROVE  Ids' /\ Stored'
<1> USE DEF rows, disk
<1>a. TypeOK BY DEF IInv
<1>b. pc'[p] = l /\ \A q \in Proc \ {p} : pc'[q] = pc[q]
  BY <1>a DEF TypeOK, Goto
<1>c. s \in Sid /\ s \in used
  BY <1>a DEF TypeOK, IInv, Ids, IdsFresh
<1>d. \A q \in Proc, t \in Sid : Busy(q, t)' <=> IF q = p THEN t = s ELSE Busy(q, t)
  BY <1>b DEF Busy
<1>e. \A t \in Sid : Untouched(t) => Untouched(t)'
  BY <1>b, <1>d DEF Untouched, Busy, Copied, Putting
<1>f. \A q \in Proc : req[q].sid \in Sid BY <1>a DEF TypeOK, Request
<1>g. \A q \in Proc : pc'[q] \in BeforePart => q # p
  BY <1>b DEF BeforePart, BeforeRow, Creating
<1>1. IdsFresh' BY <1>c, <1>d, <1>e DEF IInv, Ids, IdsFresh
<1>2. IdsDrawn' BY <1>b, <1>d, <1>e, <1>f, <1>g DEF IInv, Ids, IdsDrawn
<1>3. IdsAlone'
  BY <1>b, <1>d, <1>f, <1>g DEF IInv, Ids, IdsAlone, BeforePart
<1>4. Stored'
  BY <1>b DEF IInv, Stored, IndexInRange, BytesInRange, MarkedStored, CopiedStored,
              SeenStored, CertainStored, NamedStored, Loading, Copied, Certain, Finalizing
<1> QED BY <1>1, <1>2, <1>3, <1>4 DEF Ids

\* A handler gets into the part of an id whose part was made: nothing that
\* holds of the ids is disturbed.
LEMMA InsideKeepsIds ==
  ASSUME IInv, NEW p \in Proc, ~Untouched(req[p].sid), pc[p] \notin {"idle"} \cup BeforePart,
         NEW l, Goto(p, l), l \notin {"idle"} \cup BeforePart,
         \A q \in Proc : req'[q].sid = req[q].sid,
         UNCHANGED <<open, used>>, parts' \subseteq parts,
         \A t \in Sid \ {req[p].sid} : bytes'[t] = bytes[t] /\ received'[t] = received[t],
         \A n \in Name : file'[n] \in {file[n], req[p].sid}
  PROVE  Ids'
<1> DEFINE s == req[p].sid
<1>a. TypeOK /\ s \in Sid BY DEF IInv, TypeOK, Request
<1>b. pc'[p] = l /\ \A q \in Proc \ {p} : pc'[q] = pc[q]
  BY <1>a DEF TypeOK, Goto
<1>c. \A q \in Proc, t \in Sid : Busy(q, t)' <=> Busy(q, t)
  BY <1>b DEF Busy
<1>d. \A t \in Sid : Untouched(t) => Untouched(t)'
  <2> SUFFICES ASSUME NEW t \in Sid, Untouched(t), t # s PROVE Untouched(t)'
    OBVIOUS
  <2>1. \A q \in Proc : Busy(q, t)' => q # p BY <1>c DEF Busy
  <2> QED BY <2>1, <1>b, <1>c DEF Untouched
<1>e. \A q \in Proc : req[q].sid \in Sid BY <1>a DEF TypeOK, Request
<1>1. IdsFresh' BY <1>c, <1>d DEF IInv, Ids, IdsFresh
<1>2. IdsDrawn' BY <1>b, <1>c, <1>d, <1>e DEF IInv, Ids, IdsDrawn
<1>3. IdsAlone' BY <1>b, <1>c, <1>e DEF IInv, Ids, IdsAlone, BeforePart
<1> QED BY <1>1, <1>2, <1>3 DEF Ids

LEMMA ChunkOpenKeeps ==
  ASSUME IInv, NEW p \in Proc, ChunkOpen(p)
  PROVE  Ids' /\ Stored'
<1> USE DEF BeforeRow, BeforePart, Loading, Putting, Certain, Copied, Creating, Finalizing
<1>a. TypeOK BY DEF IInv
<1>1. CASE Reply(p)
  BY <1>1, <1>a, ReplyIsCalm, NothingLetsGo, CalmStep DEF ChunkOpen, disk
<1>2. CASE req[p].sid \in parts /\ Goto(p, "w_copy") /\ UNCHANGED req
  <2>1. Ids' BY <1>2, <1>a, InsideKeepsIds DEF ChunkOpen, Untouched, rows, disk
  <2>2. Stored'
    BY <1>2, <1>a DEF ChunkOpen, Goto, TypeOK, IInv, Stored, IndexInRange, BytesInRange, MarkedStored,
       CopiedStored, SeenStored, CertainStored, NamedStored, rows, disk
  <2> QED BY <2>1, <2>2
<1> QED BY <1>1, <1>2 DEF ChunkOpen

\* The bytes of a chunk are on disk before anybody hears of them.
LEMMA ChunkCopyKeeps ==
  ASSUME IInv, NEW p \in Proc, ChunkCopy(p)
  PROVE  Ids' /\ Stored'
<1> USE DEF rows
<1> DEFINE s == req[p].sid
<1>a. TypeOK /\ s \in Sid BY DEF IInv, TypeOK, Request
<1>1. CASE Reply(p) /\ UNCHANGED bytes
  BY <1>1, <1>a, ReplyIsCalm, NothingLetsGo, CalmStep DEF ChunkCopy, disk
<1>2. CASE /\ bytes' = [bytes EXCEPT ![s] = @ \cup {req[p].index}]
           /\ req' = [req EXCEPT ![p].mutex = locks[s]]
           /\ Goto(p, "w_lock")
  <2>1. ~Untouched(s) BY <1>a DEF ChunkCopy, Untouched, Busy
  <2>2. \A q \in Proc : /\ req'[q].sid = req[q].sid /\ req'[q].index = req[q].index
                        /\ req'[q].seen = req[q].seen
    BY <1>2, <1>a DEF TypeOK, Request
  <2>3. UNCHANGED <<open, meta, used, received, parts, file>> BY DEF ChunkCopy
  <2>4. \A t \in Sid : bytes[t] \subseteq bytes'[t]
    BY <1>2, <1>a DEF TypeOK
  <2>5. bytes'[s] = bytes[s] \cup {req[p].index} /\ \A t \in Sid \ {s} : bytes'[t] = bytes[t]
    BY <1>2, <1>a DEF TypeOK
  <2>6. pc'[p] = "w_lock" /\ \A q \in Proc \ {p} : pc'[q] = pc[q]
    BY <1>2, <1>a DEF TypeOK, Goto
  <2>7. \A q \in Proc : req[q].sid \in Sid BY <1>a DEF TypeOK, Request
  <2>8. Ids'
    BY <1>2, <2>1, <2>2, <2>3, <2>5, InsideKeepsIds DEF ChunkCopy, BeforePart, BeforeRow, Creating
  <2>9. IndexInRange' BY <2>2, <2>3, <2>6 DEF IInv, Stored, IndexInRange, Loading
  <2>10. BytesInRange'
    <3>1. req[p].index \in Chunks(meta[s].file)
      BY DEF ChunkCopy, IInv, Stored, IndexInRange, Loading
    <3> QED BY <3>1, <2>3, <2>5 DEF IInv, Stored, BytesInRange
  <2>11. MarkedStored' BY <2>3, <2>4 DEF IInv, Stored, MarkedStored
  <2>12. CopiedStored' BY <2>2, <2>4, <2>5, <2>6, <2>7 DEF IInv, Stored, CopiedStored
  <2>13. SeenStored' BY <2>2, <2>4, <2>6, <2>7 DEF IInv, Stored, SeenStored
  <2>14. CertainStored'
    BY <2>2, <2>3, <2>4, <2>6, <2>7 DEF IInv, Stored, CertainStored, Certain, Finalizing
  <2>15. NamedStored' BY <2>3, <2>4 DEF IInv, Stored, NamedStored
  <2> QED BY <2>8, <2>9, <2>10, <2>11, <2>12, <2>13, <2>14, <2>15 DEF Stored
<1> QED BY <1>1, <1>2 DEF ChunkCopy

LEMMA ChunkEnterKeeps ==
  ASSUME IInv, NEW p \in Proc, ChunkEnter(p)
  PROVE  Ids' /\ Stored'
<1> USE DEF rows, disk
<1> DEFINE s == req[p].sid
<1>a. TypeOK /\ s \in Sid BY DEF IInv, TypeOK, Request
<1>1. CASE Reply(p)
  BY <1>1, <1>a, ReplyIsCalm, NothingLetsGo, CalmStep DEF ChunkEnter
<1>2. CASE req' = [req EXCEPT ![p].seen = received[s]] /\ Goto(p, "w_mark")
  <2>1. ~Untouched(s) BY <1>a DEF ChunkEnter, Untouched, Busy, Copied
  <2>2. \A q \in Proc : req'[q].sid = req[q].sid /\ req'[q].index = req[q].index
    BY <1>2, <1>a DEF TypeOK, Request
  <2>3. req'[p].seen = received[s] /\ \A q \in Proc \ {p} : req'[q] = req[q]
    BY <1>2, <1>a DEF TypeOK, Request
  <2>4. UNCHANGED <<open, meta, used, received, bytes, parts, file>> BY DEF ChunkEnter
  <2>5. pc'[p] = "w_mark" /\ \A q \in Proc \ {p} : pc'[q] = pc[q]
    BY <1>2, <1>a DEF TypeOK, Goto
  <2>6. Ids'
    BY <1>2, <2>1, <2>2, <2>4, InsideKeepsIds DEF ChunkEnter, BeforePart, BeforeRow, Creating
  <2>7. CopiedStored'
    BY <2>2, <2>4, <2>5 DEF IInv, Stored, CopiedStored, ChunkEnter, Copied
  <2>8. SeenStored'
    BY <1>a, <2>2, <2>3, <2>4, <2>5 DEF IInv, Stored, SeenStored, MarkedStored
  <2>9. IndexInRange' /\ BytesInRange' /\ MarkedStored' /\ CertainStored' /\ NamedStored'
    BY <2>2, <2>4, <2>5 DEF IInv, Stored, IndexInRange, BytesInRange, MarkedStored,
       CertainStored, NamedStored, Loading, Certain, Finalizing
  <2> QED BY <2>6, <2>7, <2>8, <2>9 DEF Stored
<1> QED BY <1>1, <1>2 DEF ChunkEnter

\* A mark says what is on disk: this chunk and the ones read under the mutex.
LEMMA ChunkMarkKeeps ==
  ASSUME IInv, NEW p \in Proc, ChunkMark(p)
  PROVE  Ids' /\ Stored'
<1> USE DEF rows, disk
<1> DEFINE s == req[p].sid
<1>a. TypeOK /\ s \in Sid BY DEF IInv, TypeOK, Request
<1>b. pc[p] = "w_mark" /\ Reply(p) BY DEF ChunkMark
<1>c. pc'[p] = "idle" /\ \A q \in Proc \ {p} : pc'[q] = pc[q] /\ req'[q] = req[q]
  BY <1>a, <1>b DEF TypeOK, Reply, Goto
<1>d. UNCHANGED <<open, meta, used, bytes, parts, file>> BY DEF ChunkMark
<1>e. /\ \A t \in Sid \ {s} : received'[t] = received[t]
      /\ received'[s] \in {received[s], req[p].seen \cup {req[p].index}}
  BY <1>a DEF ChunkMark, TypeOK
<1>f. ~Untouched(s) BY <1>a, <1>b DEF Untouched, Busy, Copied
<1>g. \A q \in Proc, t \in Sid : Busy(q, t)' <=> q # p /\ Busy(q, t)
  BY <1>c DEF Busy
<1>h. \A t \in Sid : Untouched(t) => Untouched(t)'
  BY <1>c, <1>d, <1>e, <1>f, <1>g DEF Untouched, Busy
<1>i. \A q \in Proc : req[q].sid \in Sid BY <1>a DEF TypeOK, Request
<1>1. IdsFresh' BY <1>d, <1>g, <1>h DEF IInv, Ids, IdsFresh
<1>2. IdsDrawn'
  <2>1. "idle" \notin BeforePart BY DEF BeforePart, BeforeRow, Creating
  <2> QED BY <2>1, <1>c, <1>d, <1>g, <1>h, <1>i DEF IInv, Ids, IdsDrawn
<1>3. IdsAlone'
  <2>1. "idle" \notin BeforeRow BY DEF BeforeRow, Creating
  <2> QED BY <2>1, <1>c, <1>d, <1>g, <1>i DEF IInv, Ids, IdsAlone
<1>4. MarkedStored'
  <2>1. req[p].seen \cup {req[p].index} \subseteq bytes[s]
    BY <1>b DEF IInv, Stored, SeenStored, CopiedStored, Copied
  <2> QED BY <2>1, <1>d, <1>e DEF IInv, Stored, MarkedStored
<1>5. IndexInRange' /\ BytesInRange' /\ CopiedStored' /\ SeenStored' /\ CertainStored' /\ NamedStored'
  BY <1>c, <1>d DEF IInv, Stored, IndexInRange, BytesInRange, CopiedStored, SeenStored,
     CertainStored, NamedStored, Loading, Copied, Certain, Finalizing
<1> QED BY <1>1, <1>2, <1>3, <1>4, <1>5 DEF Ids, Stored

LEMMA WriteChunkKeeps ==
  ASSUME IInv, NEW p \in Proc, WriteChunk(p)
  PROVE  Ids' /\ Stored'
<1>a. TypeOK BY DEF IInv
<1>1. CASE ChunkBegin(p)
  <2>1. PICK who \in Client, s \in open : \E i \in Chunks(meta[s].file) :
          req' = [req EXCEPT ![p] = [NoRequest EXCEPT !.who = who, !.sid = s, !.index = i]]
    BY <1>1 DEF ChunkBegin
  <2>2. /\ req'[p].sid = s /\ req'[p].index \in Chunks(meta[s].file)
        /\ \A q \in Proc \ {p} : req'[q] = req[q]
    BY <2>1, <1>a DEF TypeOK, NoRequest
  <2> QED BY <1>1, <2>2, BeginKeeps DEF ChunkBegin
<1>2. CASE ChunkLoad(p)
  <2>1. \A q \in Proc : Calmer(q)
    BY <1>2, <1>a, ReplyIsCalm, GotoIsCalm
       DEF ChunkLoad, BeforeRow, BeforePart, Loading, Putting, Certain, Copied, Creating, Finalizing
  <2> QED BY <1>2, <2>1, NothingLetsGo, CalmStep DEF ChunkLoad, disk
<1> QED BY <1>1, <1>2, ChunkOpenKeeps, ChunkCopyKeeps, ChunkEnterKeeps, ChunkMarkKeeps DEF WriteChunk

\* Complete is past its check only when every chunk is marked, hence on disk.
LEMMA CompleteEnterKeeps ==
  ASSUME IInv, NEW p \in Proc, CompleteEnter(p)
  PROVE  Ids' /\ Stored'
<1> USE DEF rows, disk
<1> DEFINE s == req[p].sid
<1>a. TypeOK /\ s \in Sid BY DEF IInv, TypeOK, Request
<1>1. CASE Reply(p)
  BY <1>1, <1>a, ReplyIsCalm, NothingLetsGo, CalmStep DEF CompleteEnter
<1>2. CASE Missing(s) = {} /\ Goto(p, "f_look") /\ UNCHANGED req
  <2>1. pc'[p] = "f_look" /\ \A q \in Proc \ {p} : pc'[q] = pc[q]
    BY <1>2, <1>a DEF TypeOK, Goto
  <2>2. UNCHANGED <<req, open, meta, used, received, bytes, parts, file>>
    BY <1>2 DEF CompleteEnter
  <2>3. \A q \in Proc, t \in Sid : Busy(q, t)' <=> Busy(q, t)
    BY <2>1, <2>2 DEF Busy, CompleteEnter
  <2>4. \A t \in Sid : Untouched(t) => Untouched(t)'
    BY <2>1, <2>2, <2>3 DEF Untouched, Copied, Putting
  <2>5. \A q \in Proc : req[q].sid \in Sid BY <1>a DEF TypeOK, Request
  <2>6. \A q \in Proc : pc'[q] \in BeforePart => pc[q] \in BeforePart
    BY <2>1 DEF BeforePart, BeforeRow, Creating
  <2>7. \A q \in Proc : pc'[q] \in BeforeRow => pc[q] \in BeforeRow
    BY <2>1 DEF BeforeRow, Creating
  <2>8. IdsFresh' BY <2>2, <2>3, <2>4 DEF IInv, Ids, IdsFresh
  <2>9. IdsDrawn' BY <2>2, <2>3, <2>4, <2>5, <2>6 DEF IInv, Ids, IdsDrawn
  <2>10. IdsAlone' BY <2>2, <2>3, <2>5, <2>7 DEF IInv, Ids, IdsAlone
  <2>11. CertainStored'
    <3>1. Chunks(meta[s].file) \subseteq bytes[s]
      BY <1>2, <1>a DEF Missing, IInv, Stored, MarkedStored
    <3> QED BY <3>1, <2>1, <2>2 DEF IInv, Stored, CertainStored
  <2>12. IndexInRange' /\ BytesInRange' /\ MarkedStored' /\ CopiedStored' /\ SeenStored' /\ NamedStored'
    BY <2>1, <2>2 DEF IInv, Stored, IndexInRange, BytesInRange, MarkedStored, CopiedStored,
       SeenStored, NamedStored, Loading, Copied
  <2> QED BY <2>8, <2>9, <2>10, <2>11, <2>12 DEF Ids, Stored
<1> QED BY <1>1, <1>2 DEF CompleteEnter

\* Only a part its handler knows to be whole gets a name.
LEMMA NamingKeeps ==
  ASSUME IInv, NEW p \in Proc, pc[p] \in Certain,
         RenameTo(req[p].sid, meta[req[p].sid].name) \/ LinkTo(req[p].sid, meta[req[p].sid].name),
         \/ Reply(p)
         \/ UNCHANGED req /\ Goto(p, "f_delete") /\ pc[p] \in Finalizing
         \/ UNCHANGED req /\ Goto(p, "f_unlink") /\ pc[p] \in Finalizing
         \/ UNCHANGED req /\ Goto(p, "p_unlink") /\ pc[p] \in Putting,
         UNCHANGED <<rows, bytes, quiet>>
  PROVE  Ids' /\ Stored'
<1> USE DEF rows
<1> DEFINE s == req[p].sid
<1>a. TypeOK /\ s \in Sid BY DEF IInv, TypeOK, Request
<1>b. /\ s \in parts /\ parts' \subseteq parts
      /\ \A n \in Name : file'[n] \in {file[n], s}
  BY <1>a DEF RenameTo, LinkTo, TypeOK
<1>c. \A q \in Proc : Calmer(q)
  BY <1>a, ReplyIsCalm, GotoIsCalm
     DEF BeforeRow, BeforePart, Loading, Putting, Certain, Copied, Creating, Finalizing
<1>d. \A q \in Proc, t \in Sid : Busy(q, t)' => Busy(q, t) /\ req'[q].sid = req[q].sid
  BY <1>c DEF Busy, Calmer
<1>e. \A t \in Sid : Untouched(t) => Untouched(t)'
  <2> SUFFICES ASSUME NEW t \in Sid, Untouched(t), t # s PROVE Untouched(t)'
    BY <1>b DEF Untouched
  <2>1. \A q \in Proc : Busy(q, t)' => pc'[q] \notin {"w_copy"} \cup Copied \cup Putting
    BY <1>c, <1>d DEF Untouched, Busy, Calmer
  <2> QED BY <2>1, <1>b DEF Untouched
<1>f. \A q \in Proc : req[q].sid \in Sid BY <1>a DEF TypeOK, Request
<1>1. IdsFresh' BY <1>d, <1>e DEF IInv, Ids, IdsFresh
<1>2. IdsDrawn' BY <1>c, <1>d, <1>e, <1>f DEF IInv, Ids, IdsDrawn, Calmer, Busy, BeforePart, BeforeRow, Creating
<1>3. IdsAlone' BY <1>c, <1>d, <1>f DEF IInv, Ids, IdsAlone, Calmer, Busy, BeforeRow, Creating
<1>4. NamedStored'
  BY <1>a, <1>b DEF IInv, Stored, NamedStored, CertainStored
<1>5. IndexInRange' /\ CopiedStored' /\ SeenStored' /\ CertainStored'
  BY <1>c DEF IInv, Stored, IndexInRange, CopiedStored, SeenStored, CertainStored, Calmer,
     Loading, Copied, Certain, Finalizing
<1>6. BytesInRange' /\ MarkedStored' BY DEF IInv, Stored, BytesInRange, MarkedStored
<1> QED BY <1>1, <1>2, <1>3, <1>4, <1>5, <1>6 DEF Ids, Stored

LEMMA CompleteKeeps ==
  ASSUME IInv, NEW p \in Proc, Complete(p)
  PROVE  Ids' /\ Stored'
<1> USE DEF BeforeRow, BeforePart, Loading, Putting, Certain, Copied, Creating, Finalizing
<1>a. TypeOK /\ req[p].sid \in Sid BY DEF IInv, TypeOK, Request
<1>1. CASE CompleteBegin(p)
  <2>1. PICK who \in Client, s \in open :
          req' = [req EXCEPT ![p] = [NoRequest EXCEPT !.who = who, !.sid = s, !.mutex = locks[s]]]
    BY <1>1 DEF CompleteBegin
  <2>2. req'[p].sid = s /\ \A q \in Proc \ {p} : req'[q] = req[q]
    BY <2>1, <1>a DEF TypeOK, NoRequest
  <2> QED BY <1>1, <2>2, BeginKeeps DEF CompleteBegin
<1>2. CASE CompleteEnter(p) BY <1>2, CompleteEnterKeeps
<1>3. CASE CompleteLookup(p)
  <2>1. \A q \in Proc : Calmer(q)
    BY <1>3, <1>a, ReplyIsCalm, GotoIsCalm DEF CompleteLookup
  <2> QED BY <1>3, <2>1, NothingLetsGo, CalmStep DEF CompleteLookup
<1>4. CASE CompletePublish(p)
  <2> DEFINE s == req[p].sid
             n == meta[s].name
  <2>1. \/ /\ RenameTo(s, n) \/ LinkTo(s, n)
           /\ UNCHANGED req /\ (Goto(p, "f_delete") \/ Goto(p, "f_unlink"))
        \/ /\ UNCHANGED <<parts, file>>
           /\ \/ UNCHANGED req /\ Goto(p, "f_rename")
              \/ Reply(p)
    BY <1>4 DEF CompletePublish, Publish
  <2>2. CASE /\ RenameTo(s, n) \/ LinkTo(s, n)
             /\ UNCHANGED req /\ (Goto(p, "f_delete") \/ Goto(p, "f_unlink"))
    BY <1>4, <2>2, NamingKeeps DEF CompletePublish
  <2>3. CASE UNCHANGED <<parts, file>> /\ ((UNCHANGED req /\ Goto(p, "f_rename")) \/ Reply(p))
    <3>1. \A q \in Proc : Calmer(q)
      BY <1>4, <2>3, <1>a, ReplyIsCalm, GotoIsCalm DEF CompletePublish
    <3> QED BY <1>4, <2>3, <3>1, NothingLetsGo, CalmStep DEF CompletePublish
  <2> QED BY <2>1, <2>2, <2>3
<1>5. CASE CompleteRename(p)
  <2>1. CASE RenameTo(req[p].sid, meta[req[p].sid].name)
    BY <1>5, <2>1, <1>a, NamingKeeps, ReplyIsCalm, NothingLetsGo, CalmStep DEF CompleteRename
  <2>2. CASE Reply(p) /\ UNCHANGED <<parts, file>>
    BY <1>5, <2>2, <1>a, ReplyIsCalm, NothingLetsGo, CalmStep DEF CompleteRename
  <2> QED BY <1>5, <2>1, <2>2 DEF CompleteRename
<1>6. CASE CompleteUnlink(p)
  <2>1. \A q \in Proc : Calmer(q) BY <1>6, <1>a, ReplyIsCalm, GotoIsCalm DEF CompleteUnlink
  <2>2. LetsGo BY <1>6 DEF CompleteUnlink, LetsGo, rows
  <2> QED BY <2>1, <2>2, CalmStep
<1>7. CASE CompleteDelete(p)
  BY <1>7, <1>a, DeleteRowLetsGo, ReplyIsCalm, CalmStep DEF CompleteDelete
<1> QED BY <1>1, <1>2, <1>3, <1>4, <1>5, <1>6, <1>7 DEF Complete

LEMMA AbortKeeps ==
  ASSUME IInv, NEW p \in Proc, Abort(p)
  PROVE  Ids' /\ Stored'
<1> USE DEF BeforeRow, BeforePart, Loading, Putting, Certain, Copied, Creating, Finalizing
<1>a. TypeOK /\ req[p].sid \in Sid BY DEF IInv, TypeOK, Request
<1>1. CASE AbortLoad(p)
  <2>1. PICK who \in Client, s \in Sid :
          Owns(who, s) /\ req' = [req EXCEPT ![p] = [NoRequest EXCEPT !.who = who, !.sid = s]]
    BY <1>1 DEF AbortLoad
  <2>2. s \in open /\ req'[p].sid = s /\ \A q \in Proc \ {p} : req'[q] = req[q]
    BY <2>1, <1>a DEF TypeOK, NoRequest, Owns
  <2> QED BY <1>1, <2>2, BeginKeeps DEF AbortLoad
<1>2. CASE AbortPart(p)
  BY <1>2, <1>a, GotoIsCalm, CalmStep DEF AbortPart, Discard, LetsGo, rows
<1>3. CASE AbortDelete(p)
  BY <1>3, <1>a, DeleteRowLetsGo, ReplyIsCalm, CalmStep DEF AbortDelete
<1> QED BY <1>1, <1>2, <1>3 DEF Abort

\* The rowless part of a drawn id is its handler's alone.
LEMMA PutBeginKeeps ==
  ASSUME IInv, NEW p \in Proc, PutBegin(p)
  PROVE  Ids' /\ Stored'
<1> USE DEF disk
<1>a. TypeOK BY DEF IInv
<1>b. PICK s \in Sid \ used :
        /\ req'[p].sid = s /\ used' = used \cup {s} /\ NewPart(s)
        /\ \A q \in Proc \ {p} : req'[q] = req[q]
        /\ \A t \in Sid \ {s} : meta'[t] = meta[t]
  BY <1>a DEF PutBegin, TypeOK, NoRequest
<1>c. pc'[p] = "p_copy" /\ \A q \in Proc \ {p} : pc'[q] = pc[q]
  BY <1>a DEF PutBegin, TypeOK, Goto
<1>d. s \notin open /\ Untouched(s) /\ \A q \in Proc : ~Busy(q, s)
  BY <1>b DEF IInv, Ids, IdsFresh
<1>e. UNCHANGED <<open, received, bytes, file>> /\ parts' = parts \cup {s}
  BY <1>a, <1>b, <1>d DEF PutBegin, NewPart, Untouched, TypeOK
<1>f. \A q \in Proc, t \in Sid : Busy(q, t)' <=> IF q = p THEN t = s ELSE Busy(q, t)
  BY <1>b, <1>c DEF Busy
<1>g. \A t \in Sid \ {s} : Untouched(t) => Untouched(t)'
  BY <1>c, <1>e, <1>f DEF Untouched, Busy
<1>h. \A q \in Proc : req[q].sid \in Sid BY <1>a DEF TypeOK, Request
<1>i. \A q \in Proc \ {p} : pc'[q] # "idle" => req[q].sid # s BY <1>c, <1>d DEF Busy
<1>j. /\ pc'[p] \notin BeforePart \cup BeforeRow \cup Loading \cup Copied \cup Certain
      /\ "idle" \notin BeforePart \cup BeforeRow \cup Loading \cup Copied \cup Certain
  BY <1>c DEF BeforePart, BeforeRow, Creating, Loading, Copied, Certain, Finalizing
<1>1. IdsFresh' BY <1>b, <1>d, <1>e, <1>f, <1>g DEF IInv, Ids, IdsFresh
<1>2. IdsDrawn'
  BY <1>b, <1>c, <1>e, <1>f, <1>g, <1>h, <1>i, <1>j DEF IInv, Ids, IdsDrawn
<1>3. IdsAlone'
  BY <1>b, <1>c, <1>e, <1>f, <1>h, <1>i, <1>j DEF IInv, Ids, IdsAlone
<1>4. IndexInRange' /\ CertainStored'
  BY <1>b, <1>c, <1>e, <1>h, <1>i, <1>j DEF IInv, Stored, IndexInRange, CertainStored
<1>5. BytesInRange' BY <1>b, <1>d, <1>e DEF IInv, Stored, BytesInRange, Untouched
<1>6. MarkedStored' BY <1>e DEF IInv, Stored, MarkedStored
<1>7. CopiedStored' /\ SeenStored'
  BY <1>b, <1>c, <1>e, <1>j DEF IInv, Stored, CopiedStored, SeenStored, Copied
<1>8. NamedStored' BY <1>b, <1>d, <1>e DEF IInv, Stored, NamedStored, Untouched
<1> QED BY <1>1, <1>2, <1>3, <1>4, <1>5, <1>6, <1>7, <1>8 DEF Ids, Stored

LEMMA PutCopyKeeps ==
  ASSUME IInv, NEW p \in Proc, PutCopy(p)
  PROVE  Ids' /\ Stored'
<1> USE DEF rows
<1> DEFINE s == req[p].sid
<1>a. TypeOK /\ s \in Sid BY DEF IInv, TypeOK, Request
<1>b. UNCHANGED <<req, open, meta, used, received, parts, file>> BY DEF PutCopy
<1>c. pc[p] = "p_copy" /\ pc'[p] = "p_look" /\ \A q \in Proc \ {p} : pc'[q] = pc[q]
  BY <1>a DEF PutCopy, TypeOK, Goto
<1>d. bytes'[s] = Chunks(meta[s].file) /\ \A t \in Sid \ {s} : bytes'[t] = bytes[t]
  BY <1>a DEF PutCopy, TypeOK
<1>e. \A t \in Sid : bytes[t] \subseteq bytes'[t]
  BY <1>a, <1>d DEF IInv, Stored, BytesInRange
<1>f. ~Untouched(s) BY <1>a, <1>c DEF Untouched, Busy, Putting
<1>g. \A q \in Proc : req[q].sid \in Sid BY <1>a DEF TypeOK, Request
<1>1. Ids'
  BY <1>b, <1>c, <1>d, <1>f, InsideKeepsIds DEF PutCopy, BeforePart, BeforeRow, Creating
<1>2. IndexInRange' BY <1>b, <1>c DEF IInv, Stored, IndexInRange, Loading
<1>3. BytesInRange' BY <1>b, <1>d DEF IInv, Stored, BytesInRange
<1>4. MarkedStored' BY <1>b, <1>e DEF IInv, Stored, MarkedStored
<1>5. CopiedStored' /\ SeenStored'
  BY <1>b, <1>c, <1>e, <1>g DEF IInv, Stored, CopiedStored, SeenStored, Copied
<1>6. CertainStored' BY <1>b, <1>c, <1>d, <1>e, <1>g DEF IInv, Stored, CertainStored
<1>7. NamedStored' BY <1>b, <1>e DEF IInv, Stored, NamedStored
<1> QED BY <1>1, <1>2, <1>3, <1>4, <1>5, <1>6, <1>7 DEF Stored

LEMMA PutKeeps ==
  ASSUME IInv, NEW p \in Proc, StoreSmallFile(p)
  PROVE  Ids' /\ Stored'
<1> USE DEF BeforeRow, BeforePart, Loading, Putting, Certain, Copied, Creating, Finalizing
<1> DEFINE s == req[p].sid
           n == meta[s].name
<1>a. TypeOK /\ s \in Sid BY DEF IInv, TypeOK, Request
<1>1. CASE PutFail(p)
  BY <1>1, <1>a, GotoIsCalm, NothingLetsGo, CalmStep DEF PutFail, disk
<1>2. CASE PutLookup(p)
  <2>1. Goto(p, "p_undo") \/ Goto(p, "p_pub") BY <1>2 DEF PutLookup
  <2>2. \A q \in Proc : Calmer(q) BY <1>2, <2>1, <1>a, GotoIsCalm DEF PutLookup
  <2> QED BY <1>2, <2>2, NothingLetsGo, CalmStep DEF PutLookup, disk
<1>3. CASE PutPublish(p)
  <2>1. \/ /\ RenameTo(s, n) \/ LinkTo(s, n)
           /\ \/ Reply(p)
              \/ UNCHANGED req /\ Goto(p, "p_unlink")
        \/ /\ UNCHANGED <<parts, file>>
           /\ UNCHANGED req /\ (Goto(p, "p_rename") \/ Goto(p, "p_undo"))
    BY <1>3 DEF PutPublish, Publish
  <2>2. CASE /\ RenameTo(s, n) \/ LinkTo(s, n)
             /\ \/ Reply(p)
                \/ UNCHANGED req /\ Goto(p, "p_unlink")
    BY <1>3, <2>2, NamingKeeps DEF PutPublish
  <2>3. CASE UNCHANGED <<parts, file>> /\ UNCHANGED req /\ (Goto(p, "p_rename") \/ Goto(p, "p_undo"))
    <3>1. \A q \in Proc : Calmer(q) BY <1>3, <2>3, <1>a, GotoIsCalm DEF PutPublish
    <3> QED BY <1>3, <2>3, <3>1, NothingLetsGo, CalmStep DEF PutPublish
  <2> QED BY <2>1, <2>2, <2>3
<1>4. CASE PutRename(p)
  <2>1. CASE RenameTo(s, n) /\ Reply(p)
    BY <1>4, <2>1, NamingKeeps DEF PutRename
  <2>2. CASE Goto(p, "p_undo") /\ UNCHANGED <<req, parts, file>>
    <3>1. \A q \in Proc : Calmer(q) BY <1>4, <2>2, <1>a, GotoIsCalm DEF PutRename
    <3> QED BY <1>4, <2>2, <3>1, NothingLetsGo, CalmStep DEF PutRename
  <2> QED BY <1>4, <2>1, <2>2 DEF PutRename
<1>5. CASE PutUnlink(p) \/ PutUndo(p)
  <2>1. \A q \in Proc : Calmer(q) BY <1>5, <1>a, ReplyIsCalm DEF PutUnlink, PutUndo
  <2>2. LetsGo BY <1>5 DEF PutUnlink, PutUndo, LetsGo, rows
  <2> QED BY <2>1, <2>2, CalmStep
<1> QED BY <1>1, <1>2, <1>3, <1>4, <1>5, PutBeginKeeps, PutCopyKeeps DEF StoreSmallFile

\* The sweeps, the environment and a crash only let go.
LEMMA OthersKeep ==
  ASSUME IInv,
         \/ CleanupStale \/ PruneOrphans \/ Crash
         \/ \E p \in Proc : Cancel(p)
         \/ \E n \in Name : Unlink(n)
         \/ \E s \in Sid : GoStale(s) \/ GoQuiet(s)
  PROVE  Ids' /\ Stored'
<1> USE DEF rows, disk
<1>a. TypeOK /\ sweep.cur \in Sid BY DEF IInv, TypeOK, SweepState
<1>b. ASSUME UNCHANGED <<pc, req>> PROVE \A p \in Proc : Calmer(p)
  BY <1>b DEF Calmer
<1>1. CASE CleanupStale
  <2>1. LetsGo
    BY <1>1, <1>a, DeleteRowLetsGo
       DEF CleanupStale, SweepList, SweepPart, SweepRow, SweepCut, LetsGo
  <2> QED BY <1>1, <1>b, <2>1, CalmStep DEF CleanupStale, SweepList, SweepPart, SweepRow, SweepCut
<1>2. CASE PruneOrphans
  <2>1. LetsGo BY <1>2 DEF PruneOrphans, PruneList, PruneIds, PruneRemove, LetsGo
  <2> QED BY <1>2, <1>b, <2>1, CalmStep DEF PruneOrphans, PruneList, PruneIds, PruneRemove
<1>3. CASE Crash
  <2>1. \A p \in Proc : Calmer(p) BY <1>3 DEF Crash, Calmer
  <2> QED BY <1>3, <2>1, NothingLetsGo, CalmStep DEF Crash
<1>4. ASSUME NEW p \in Proc, Cancel(p) PROVE Ids' /\ Stored'
  BY <1>4, <1>a, ReplyIsCalm, NothingLetsGo, CalmStep DEF Cancel
<1>5. ASSUME NEW n \in Name, Unlink(n) PROVE Ids' /\ Stored'
  <2>1. LetsGo BY <1>5, <1>a DEF Unlink, LetsGo, TypeOK
  <2> QED BY <1>5, <1>b, <2>1, CalmStep DEF Unlink
<1>6. ASSUME NEW s \in Sid, GoStale(s) \/ GoQuiet(s) PROVE Ids' /\ Stored'
  <2>1. LetsGo BY <1>6 DEF GoStale, GoQuiet, LetsGo
  <2> QED BY <1>6, <1>b, <2>1, CalmStep DEF GoStale, GoQuiet
<1> QED BY <1>1, <1>2, <1>3, <1>4, <1>5, <1>6

LEMMA InitKeeps == Init => IInv
<1> SUFFICES ASSUME Init PROVE IInv
  OBVIOUS
<1> USE DEF Init
<1>1. TypeOK BY InitTyped
<1>2. \A p \in Proc : pc[p] = "idle" OBVIOUS
<1>3. Ids
  BY <1>2, NamesAreDistinguishable
     DEF Ids, IdsFresh, IdsDrawn, IdsAlone, Untouched, Busy, BeforePart, BeforeRow, Creating
<1>4. Stored
  BY <1>2, NamesAreDistinguishable
     DEF Stored, IndexInRange, BytesInRange, MarkedStored, CopiedStored, SeenStored,
         CertainStored, NamedStored, Loading, Copied, Certain, Finalizing
<1> QED BY <1>1, <1>3, <1>4 DEF IInv

LEMMA StepKeeps == IInv /\ [Next]_vars => IInv'
<1> SUFFICES ASSUME IInv, [Next]_vars PROVE IInv'
  OBVIOUS
<1>1. TypeOK' BY StepTyped DEF IInv
<1>2. CASE UNCHANGED vars
  <2>1. \A p \in Proc : Calmer(p) BY <1>2 DEF vars, Calmer
  <2>2. LetsGo BY <1>2 DEF vars, rows, disk, LetsGo
  <2> QED BY <1>1, <2>1, <2>2, CalmStep DEF IInv
<1>3. CASE Next
  BY <1>1, <1>3, CreateKeeps, WriteChunkKeeps, CompleteKeeps, AbortKeeps, PutKeeps, OthersKeep
     DEF Next, IInv
<1> QED BY <1>2, <1>3

LEMMA InvImplies == IInv => DeliveredWhole
  BY DEF IInv, Stored, NamedStored, BytesInRange, DeliveredWhole, TypeOK

\* A name never shows part of an upload: with chunks in parallel, repeated and
\* cut, racing Complete, Abort, the sweeps and crashes, what a name holds is
\* every chunk its client declared (WriteChunk, Complete, Finalize).
THEOREM NamesShowWholeFiles == Spec => []DeliveredWhole
  BY InitKeeps, StepKeeps, InvImplies, PTL DEF Spec

-----------------------------------------------------------------------------
(* UploadSessions implements UploadPromise wherever the file system of the *)
(* folder has hardlinks: each step of a handler, a sweep, the environment  *)
(* or a crash is one step of the promise or changes nothing it speaks of.  *)
(* Without hardlinks publish checks and then renames (vfs/upload.go:119),  *)
(* and a file that appears in between is replaced unasked.                 *)

\* With hardlinks no handler is between the check and the rename of the fallback.
NoFallback == \A p \in Proc : pc[p] \notin {"f_rename", "p_rename"}

LEMMA InitNoFallback == Init => NoFallback
  BY DEF Init, NoFallback

LEMMA StepNoFallback ==
  ASSUME Hardlinks
  PROVE  TypeOK /\ NoFallback /\ [Next]_vars => NoFallback'
<1> SUFFICES ASSUME TypeOK, NoFallback, [Next]_vars PROVE NoFallback'
  OBVIOUS
<1> USE DEF NoFallback, Reply, Goto, TypeOK
<1>1. ASSUME NEW p \in Proc, Create(p) PROVE NoFallback'
  BY <1>1 DEF Create, CreateBegin, CreateLock, CreateTarget, CreateDrop, CreateDeleteOld,
     CreateReserve, CreateInsert, CreatePart, CreateUndo, Refuse
<1>2. ASSUME NEW p \in Proc, WriteChunk(p) PROVE NoFallback'
  BY <1>2 DEF WriteChunk, ChunkBegin, ChunkLoad, ChunkOpen, ChunkCopy, ChunkEnter, ChunkMark
<1>3. ASSUME NEW p \in Proc, Complete(p) PROVE NoFallback'
  BY <1>3 DEF Complete, CompleteBegin, CompleteEnter, CompleteLookup, CompletePublish, Publish,
     CompleteRename, CompleteUnlink, CompleteDelete
<1>4. ASSUME NEW p \in Proc, Abort(p) PROVE NoFallback'
  BY <1>4 DEF Abort, AbortLoad, AbortPart, AbortDelete
<1>5. ASSUME NEW p \in Proc, StoreSmallFile(p) PROVE NoFallback'
  BY <1>5 DEF StoreSmallFile, PutBegin, PutCopy, PutFail, PutLookup, PutPublish, Publish,
     PutRename, PutUnlink, PutUndo
<1>6. ASSUME NEW p \in Proc, Cancel(p) PROVE NoFallback'
  BY <1>6 DEF Cancel
<1>7. ASSUME UNCHANGED pc PROVE NoFallback'
  BY <1>7
<1>8. CASE Crash BY <1>8 DEF Crash
<1>9. ASSUME NEW n \in Name, Unlink(n) PROVE UNCHANGED pc BY <1>9 DEF Unlink
<1>10. ASSUME NEW s \in Sid, GoStale(s) \/ GoQuiet(s) PROVE UNCHANGED pc
  BY <1>10 DEF GoStale, GoQuiet
<1>11. CleanupStale \/ PruneOrphans => UNCHANGED pc
  BY DEF CleanupStale, SweepList, SweepPart, SweepRow, SweepCut,
         PruneOrphans, PruneList, PruneIds, PruneRemove
<1>12. UNCHANGED vars => UNCHANGED pc BY DEF vars
<1> QED BY <1>1, <1>2, <1>3, <1>4, <1>5, <1>6, <1>7, <1>8, <1>9, <1>10, <1>11, <1>12 DEF Next

-----------------------------------------------------------------------------
(* The promise seen through the mapping.                                   *)

\* No name is ever torn, so what is shown is what is there.
LEMMA ShownIsFile ==
  /\ IInv => Shown = [n \in Name |-> file[n]]
  /\ IInv' => Shown' = [n \in Name |-> file'[n]]
  BY DEF IInv, Stored, NamedStored, BytesInRange, TypeOK, Shown

LEMMA InitPromised == Init => Promise!Init
<1> SUFFICES ASSUME Init PROVE Promise!Init
  OBVIOUS
<1>1. IInv BY InitKeeps
<1>2. Shown \in [Name -> {Absent, Foreign}] BY <1>1, ShownIsFile DEF Init
<1>3. Accepted = {} BY DEF Init, Accepted, InPut, InComplete, Finalizing
<1>4. Ordered \in [Sid -> Promise!Order]
  BY <1>1 DEF IInv, TypeOK, Meta, Ordered, Promise!Order
<1> QED BY <1>2, <1>3, <1>4 DEF Promise!Init

\* A step that shows nothing new and accepts nothing new.
LEMMA EndPromised ==
  ASSUME IInv, IInv', UNCHANGED <<file, meta>>, Accepted' \subseteq Accepted
  PROVE  Promise!Next
<1>1. Shown' = Shown BY ShownIsFile
<1>2. Ordered' = Ordered BY DEF Ordered
<1> QED BY <1>1, <1>2 DEF Promise!Next, Promise!End

\* A handler that delivers was delivering before the step, for the same id.
Delivering == Putting \cup Finalizing
Stays(p) == pc'[p] \in Delivering =>
  pc[p] \in Delivering /\ req'[p].sid = req[p].sid

LEMMA AcceptedIs ==
  /\ \A s \in Sid : s \in Accepted <=>
       s \in open \/ \E p \in Proc : pc[p] \in Delivering /\ req[p].sid = s
  /\ \A s \in Sid : s \in Accepted' <=>
       s \in open' \/ \E p \in Proc : pc'[p] \in Delivering /\ req'[p].sid = s
<1>1. ASSUME NEW s \in Sid
      PROVE  s \in Accepted <=>
               s \in open \/ \E p \in Proc : pc[p] \in Delivering /\ req[p].sid = s
  BY DEF Accepted, InPut, InComplete, Delivering, Putting
<1>2. ASSUME NEW s \in Sid
      PROVE  s \in Accepted' <=>
               s \in open' \/ \E p \in Proc : pc'[p] \in Delivering /\ req'[p].sid = s
  BY DEF Accepted, InPut, InComplete, Delivering, Putting
<1> QED BY <1>1, <1>2

LEMMA AcceptedTyped ==
  /\ IInv => Accepted \subseteq Sid
  /\ IInv' => Accepted' \subseteq Sid
  BY DEF IInv, TypeOK, Accepted

LEMMA QuietPromised ==
  ASSUME IInv, IInv', UNCHANGED <<file, meta>>, open' \subseteq open, \A p \in Proc : Stays(p)
  PROVE  Promise!Next
<1>1. Accepted' \subseteq Accepted BY AcceptedIs, AcceptedTyped DEF Stays
<1> QED BY <1>1, EndPromised

\* An id that gets its row or its rowless part is accepted: nobody had it.
LEMMA AcceptPromised ==
  ASSUME IInv, IInv', NEW s \in Sid, s \notin Accepted, Accepted' = Accepted \cup {s},
         UNCHANGED file, \A t \in Sid \ {s} : meta'[t] = meta[t]
  PROVE  Promise!Next
<1>1. Shown' = Shown BY ShownIsFile
<1>2. Ordered'[s] \in Promise!Order
  BY DEF IInv, TypeOK, Meta, Ordered, Promise!Order
<1>3. Ordered' = [Ordered EXCEPT ![s] = Ordered'[s]]
  BY DEF Ordered
<1>4. Promise!Accept(s) BY <1>1, <1>2, <1>3 DEF Promise!Accept
<1> QED BY <1>4 DEF Promise!Next

\* A name is given to the upload of a handler that delivers it.
LEMMA DeliverPromised ==
  ASSUME IInv, IInv', NoFallback, NEW p \in Proc, pc[p] \in Delivering,
         LET s == req[p].sid
             n == meta[s].name
         IN \/ meta[s].over /\ RenameTo(s, n)
            \/ LinkTo(s, n),
         UNCHANGED <<open, meta>>, \A q \in Proc : Stays(q),
         \A q \in Proc \ {p} : pc'[q] = pc[q] /\ req'[q] = req[q]
  PROVE  Promise!Next
<1> DEFINE s == req[p].sid
           n == meta[s].name
<1>a. s \in Sid /\ n \in Name BY DEF IInv, TypeOK, Request, Meta
<1>b. TypeOK /\ TypeOK' BY DEF IInv
<1>1. s \in Accepted BY <1>a, AcceptedIs
<1>2. file' = [file EXCEPT ![n] = s] /\ (file[n] = Absent \/ meta[s].over)
  BY DEF RenameTo, LinkTo
<1>3. Shown' = [Shown EXCEPT ![n] = s] /\ (Shown[n] = Absent \/ meta[s].over)
  BY <1>a, <1>b, <1>2, ShownIsFile DEF TypeOK
<1>4. Accepted' \in {Accepted, Accepted \ {s}}
  <2>1. Accepted' \subseteq Accepted BY AcceptedIs, AcceptedTyped DEF Stays
  <2>2. Accepted \ {s} \subseteq Accepted' BY AcceptedIs, AcceptedTyped
  <2> QED BY <2>1, <2>2
<1>5. Ordered' = Ordered /\ Ordered[s].name = n /\ Ordered[s].over = meta[s].over
  BY <1>a DEF Ordered
<1>6. Promise!Deliver(s) BY <1>1, <1>3, <1>4, <1>5 DEF Promise!Deliver
<1> QED BY <1>a, <1>6 DEF Promise!Next

LEMMA CreatePromised ==
  ASSUME IInv, IInv', NEW p \in Proc, Create(p)
  PROVE  Promise!Next
<1> USE DEF rows, disk
<1> DEFINE s == req[p].sid
<1>a. TypeOK /\ s \in Sid BY DEF IInv, TypeOK, Request
<1>1. CASE /\ pc[p] = "c_insert" /\ InsertRow(p, s) /\ Goto(p, "c_part")
           /\ UNCHANGED <<req, stale, used, disk, locks, tasks>>
  <2>1. s \notin open /\ \A q \in Proc \ {p} : ~Busy(q, s)
    BY <1>1 DEF IInv, Ids, IdsAlone, BeforeRow, Creating
  <2>2. s \notin Accepted
    BY <1>1, <2>1, AcceptedIs, AcceptedTyped DEF Busy, Delivering, Putting, Finalizing
  <2>3. \A q \in Proc : pc'[q] \in Delivering <=> pc[q] \in Delivering
    BY <1>1, <1>a DEF Goto, TypeOK, Delivering, Putting, Finalizing
  <2>4. Accepted' = Accepted \cup {s}
    BY <1>1, <1>a, <2>3, AcceptedIs, AcceptedTyped DEF InsertRow
  <2>5. \A t \in Sid \ {s} : meta'[t] = meta[t] BY <1>1, <1>a DEF InsertRow, TypeOK
  <2>6. UNCHANGED file BY <1>1
  <2> QED BY <1>a, <2>2, <2>4, <2>5, <2>6, AcceptPromised
<1>2. CASE UNCHANGED <<file, meta>> /\ open' \subseteq open
  <2>1. pc'[p] \notin Delivering /\ \A q \in Proc \ {p} : pc'[q] = pc[q] /\ req'[q] = req[q]
    BY <1>a DEF Create, CreateBegin, CreateLock, CreateTarget, CreateDrop, CreateDeleteOld, CreateReserve,
       CreateInsert, CreatePart, CreateUndo, Refuse, Reply, Goto, TypeOK, Delivering, Putting, Finalizing
  <2>2. \A q \in Proc : Stays(q) BY <2>1 DEF Stays
  <2> QED BY <1>2, <2>2, QuietPromised
<1>3. CASE CreateInsert(p)
  BY <1>1, <1>2, <1>3 DEF CreateInsert, Refuse
<1> QED BY <1>2, <1>3 DEF Create, CreateBegin, CreateLock, CreateTarget, CreateDrop, CreateDeleteOld,
           CreateReserve, CreatePart, CreateUndo, Refuse, DeleteRow

LEMMA ChunkPromised ==
  ASSUME IInv, IInv', NEW p \in Proc, WriteChunk(p)
  PROVE  Promise!Next
<1> USE DEF rows, disk, WriteChunk, ChunkBegin, ChunkLoad, ChunkOpen, ChunkCopy, ChunkEnter, ChunkMark
<1>a. TypeOK BY DEF IInv
<1>1. pc'[p] \notin Delivering /\ \A q \in Proc \ {p} : pc'[q] = pc[q] /\ req'[q] = req[q]
  BY <1>a DEF Reply, Goto, TypeOK, Delivering, Putting, Finalizing
<1>2. UNCHANGED <<file, meta, open>> OBVIOUS
<1> QED BY <1>1, <1>2, QuietPromised DEF Stays

LEMMA AbortPromised ==
  ASSUME IInv, IInv', NEW p \in Proc, Abort(p)
  PROVE  Promise!Next
<1> USE DEF rows, disk, Abort, AbortLoad, AbortPart, AbortDelete
<1>a. TypeOK BY DEF IInv
<1>1. pc'[p] \notin Delivering /\ \A q \in Proc \ {p} : pc'[q] = pc[q] /\ req'[q] = req[q]
  BY <1>a DEF Reply, Goto, TypeOK, Delivering, Putting, Finalizing
<1>2. UNCHANGED <<file, meta>> /\ open' \subseteq open BY DEF DeleteRow
<1> QED BY <1>1, <1>2, QuietPromised DEF Stays

\* Complete delivers an upload that was accepted when it was checked.
LEMMA CompletePromised ==
  ASSUME Hardlinks, IInv, IInv', NoFallback, NEW p \in Proc, Complete(p)
  PROVE  Promise!Next
<1> USE DEF rows, disk
<1> DEFINE s == req[p].sid
           n == meta[s].name
<1>a. TypeOK /\ s \in Sid BY DEF IInv, TypeOK, Request
<1>b. \A q \in Proc \ {p} : pc'[q] = pc[q] /\ req'[q] = req[q]
  BY <1>a DEF Complete, CompleteBegin, CompleteEnter, CompleteLookup, CompletePublish, Publish,
     CompleteRename, CompleteUnlink, CompleteDelete, Reply, Goto, TypeOK
<1>c. "f_lock" \notin Delivering /\ "idle" \notin Delivering
  BY DEF Delivering, Putting, Finalizing
<1>1. CASE CompleteBegin(p)
  <2>1. pc'[p] = "f_lock" BY <1>1, <1>a DEF CompleteBegin, Goto, TypeOK
  <2> QED BY <1>1, <1>b, <1>c, <2>1, QuietPromised DEF CompleteBegin, Stays
<1>2. CASE CompleteEnter(p)
  <2>1. CASE Reply(p)
    <3>1. pc'[p] = "idle" BY <2>1, <1>a DEF Reply, Goto, TypeOK
    <3> QED BY <1>2, <1>b, <1>c, <3>1, QuietPromised DEF CompleteEnter, Stays
  <2>2. CASE Loads(p) /\ Goto(p, "f_look") /\ UNCHANGED req
    <3>1. s \in open BY <2>2 DEF Loads, Owns
    <3>2. UNCHANGED <<file, meta, open>> BY <1>2 DEF CompleteEnter
    <3>3. Accepted' \subseteq Accepted
      BY <1>b, <2>2, <3>1, <3>2, AcceptedIs, AcceptedTyped
    <3> QED BY <3>2, <3>3, EndPromised
  <2> QED BY <1>2, <2>1, <2>2 DEF CompleteEnter
<1>3. CASE CompleteLookup(p) \/ CompleteUnlink(p) \/ CompleteDelete(p)
  <2>1. pc'[p] \in Delivering => req'[p] = req[p]
    BY <1>3, <1>a, <1>c DEF CompleteLookup, CompleteUnlink, CompleteDelete, Reply, Goto, TypeOK
  <2>2. pc[p] \in Delivering
    BY <1>3 DEF CompleteLookup, CompleteUnlink, CompleteDelete, Delivering, Finalizing
  <2>3. UNCHANGED <<file, meta>> /\ open' \subseteq open
    BY <1>3 DEF CompleteLookup, CompleteUnlink, CompleteDelete, DeleteRow
  <2> QED BY <1>b, <2>1, <2>2, <2>3, QuietPromised DEF Stays
<1>4. CASE CompletePublish(p)
  <2>1. pc[p] \in Delivering BY <1>4 DEF CompletePublish, Delivering, Finalizing
  <2>2. UNCHANGED <<open, meta>> BY <1>4 DEF CompletePublish
  <2>3. pc'[p] \in Delivering => req'[p] = req[p]
    BY <1>4, <1>a, <1>c DEF CompletePublish, Publish, Reply, Goto, TypeOK
  <2>4. \A q \in Proc : Stays(q) BY <1>b, <2>1, <2>3 DEF Stays
  <2>5. \/ meta[s].over /\ RenameTo(s, n)
        \/ LinkTo(s, n)
        \/ UNCHANGED file
    BY <1>4 DEF CompletePublish, Publish
  <2> QED BY <1>b, <2>1, <2>2, <2>4, <2>5, DeliverPromised, QuietPromised
<1>5. ~CompleteRename(p) BY DEF CompleteRename, NoFallback
<1> QED BY <1>1, <1>2, <1>3, <1>4, <1>5 DEF Complete

\* A single-request upload is accepted with its part and delivered by the
\* handler that has it.
LEMMA PutPromised ==
  ASSUME Hardlinks, IInv, IInv', NoFallback, NEW p \in Proc, StoreSmallFile(p)
  PROVE  Promise!Next
<1> USE DEF rows, disk
<1> DEFINE s == req[p].sid
           n == meta[s].name
<1>a. TypeOK /\ s \in Sid BY DEF IInv, TypeOK, Request
<1>b. \A q \in Proc \ {p} : pc'[q] = pc[q] /\ req'[q] = req[q]
  BY <1>a DEF StoreSmallFile, PutBegin, PutCopy, PutFail, PutLookup, PutPublish, Publish,
     PutRename, PutUnlink, PutUndo, Reply, Goto, TypeOK
<1>c. "idle" \notin Delivering BY DEF Delivering, Putting, Finalizing
<1>1. CASE PutBegin(p)
  <2>1. PICK t \in Sid \ used :
          /\ req'[p].sid = t /\ \A x \in Sid \ {t} : meta'[x] = meta[x]
    BY <1>1, <1>a DEF PutBegin, TypeOK, NoRequest
  <2>2. t \notin open /\ \A q \in Proc : ~Busy(q, t)
    BY DEF IInv, Ids, IdsFresh
  <2>3. t \notin Accepted BY <1>c, <2>2, AcceptedIs, AcceptedTyped DEF Busy
  <2>4. pc'[p] = "p_copy" /\ pc[p] = "idle" /\ UNCHANGED <<open, file>>
    BY <1>1, <1>a DEF PutBegin, Goto, TypeOK
  <2>5. "p_copy" \in Delivering BY DEF Delivering, Putting
  <2>6. Accepted' = Accepted \cup {t}
    BY <1>b, <1>c, <2>1, <2>4, <2>5, AcceptedIs, AcceptedTyped
  <2> QED BY <2>1, <2>3, <2>4, <2>6, AcceptPromised
<1>2. CASE PutCopy(p) \/ PutFail(p) \/ PutLookup(p) \/ PutUnlink(p) \/ PutUndo(p)
  <2>1. pc'[p] \in Delivering => req'[p] = req[p]
    BY <1>2, <1>a, <1>c DEF PutCopy, PutFail, PutLookup, PutUnlink, PutUndo, Reply, Goto, TypeOK
  <2>2. pc[p] \in Delivering
    BY <1>2 DEF PutCopy, PutFail, PutLookup, PutUnlink, PutUndo, Delivering, Putting
  <2>3. UNCHANGED <<file, meta, open>>
    BY <1>2 DEF PutCopy, PutFail, PutLookup, PutUnlink, PutUndo
  <2> QED BY <1>b, <2>1, <2>2, <2>3, QuietPromised DEF Stays
<1>3. CASE PutPublish(p)
  <2>1. pc[p] \in Delivering BY <1>3 DEF PutPublish, Delivering, Putting
  <2>2. UNCHANGED <<open, meta>> BY <1>3 DEF PutPublish
  <2>3. pc'[p] \in Delivering => req'[p] = req[p]
    BY <1>3, <1>a, <1>c DEF PutPublish, Publish, Reply, Goto, TypeOK
  <2>4. \A q \in Proc : Stays(q) BY <1>b, <2>1, <2>3 DEF Stays
  <2>5. \/ meta[s].over /\ RenameTo(s, n)
        \/ LinkTo(s, n)
        \/ UNCHANGED file
    BY <1>3 DEF PutPublish, Publish
  <2> QED BY <1>b, <2>1, <2>2, <2>4, <2>5, DeliverPromised, QuietPromised
<1>4. ~PutRename(p) BY DEF PutRename, NoFallback
<1> QED BY <1>1, <1>2, <1>3, <1>4 DEF StoreSmallFile

LEMMA OthersPromised ==
  ASSUME IInv, IInv',
         \/ CleanupStale \/ PruneOrphans \/ Crash
         \/ \E p \in Proc : Cancel(p)
         \/ \E n \in Name : Unlink(n)
         \/ \E s \in Sid : GoStale(s) \/ GoQuiet(s)
  PROVE  Promise!Next
<1> USE DEF rows, disk
<1>a. TypeOK BY DEF IInv
<1>b. ASSUME UNCHANGED <<pc, req>> PROVE \A p \in Proc : Stays(p)
  BY <1>b DEF Stays
<1>c. "idle" \notin Delivering BY DEF Delivering, Putting, Finalizing
<1>1. CASE CleanupStale \/ PruneOrphans
  <2>1. UNCHANGED <<pc, req, file, meta>> /\ open' \subseteq open
    BY <1>1 DEF CleanupStale, SweepList, SweepPart, SweepRow, SweepCut, DeleteRow,
                PruneOrphans, PruneList, PruneIds, PruneRemove
  <2> QED BY <1>b, <2>1, QuietPromised
<1>2. CASE Crash
  <2>1. \A p \in Proc : pc'[p] = "idle" BY <1>2 DEF Crash
  <2> QED BY <1>2, <1>c, <2>1, QuietPromised DEF Crash, Stays
<1>3. ASSUME NEW p \in Proc, Cancel(p) PROVE Promise!Next
  <2>1. pc'[p] = "idle" /\ \A q \in Proc \ {p} : pc'[q] = pc[q] /\ req'[q] = req[q]
    BY <1>3, <1>a DEF Cancel, Reply, Goto, TypeOK
  <2> QED BY <1>3, <1>c, <2>1, QuietPromised DEF Cancel, Stays
<1>4. ASSUME NEW n \in Name, Unlink(n) PROVE Promise!Next
  <2>1. Shown' = [Shown EXCEPT ![n] = Absent]
    BY <1>4, <1>a, ShownIsFile DEF Unlink, TypeOK
  <2>2. Accepted' = Accepted
    BY <1>4, AcceptedIs, AcceptedTyped DEF Unlink
  <2>3. Ordered' = Ordered BY <1>4 DEF Unlink, Ordered
  <2> QED BY <2>1, <2>2, <2>3 DEF Promise!Next, Promise!Delete
<1>5. ASSUME NEW s \in Sid, GoStale(s) \/ GoQuiet(s) PROVE Promise!Next
  BY <1>5, <1>b, QuietPromised DEF GoStale, GoQuiet
<1> QED BY <1>1, <1>2, <1>3, <1>4, <1>5

LEMMA StepPromised ==
  ASSUME Hardlinks
  PROVE  IInv /\ IInv' /\ NoFallback /\ [Next]_vars => [Promise!Next]_(Promise!vars)
<1> SUFFICES ASSUME IInv, IInv', NoFallback, [Next]_vars PROVE [Promise!Next]_(Promise!vars)
  OBVIOUS
<1>1. CASE UNCHANGED vars
  <2>1. UNCHANGED <<Shown, Ordered>> BY <1>1 DEF vars, rows, disk, Shown, Ordered
  <2>2. Accepted' = Accepted BY <1>1, AcceptedIs, AcceptedTyped DEF vars, rows
  <2> QED BY <2>1, <2>2 DEF Promise!vars
<1>2. CASE Next
  BY <1>2, CreatePromised, ChunkPromised, CompletePromised, AbortPromised, PutPromised,
     OthersPromised DEF Next
<1> QED BY <1>1, <1>2

\* On a file system with hardlinks the folder behaves as UploadPromise: names
\* change only in whole steps, nothing is replaced unasked, and what was
\* aborted, superseded or swept does not come back unless its finalization was
\* already under way (Finalize, publish, Abort, CleanupStale).
THEOREM FolderKeepsPromise ==
  ASSUME Hardlinks
  PROVE  Spec => KeepsPromise
<1>1. TypeOK /\ NoFallback /\ [Next]_vars => NoFallback' BY StepNoFallback
<1>2. IInv /\ IInv' /\ NoFallback /\ [Next]_vars => [Promise!Next]_(Promise!vars)
  BY StepPromised
<1>3. IInv => TypeOK BY DEF IInv
<1> QED BY <1>1, <1>2, <1>3, InitKeeps, StepKeeps, InitNoFallback, InitPromised, PTL
        DEF Spec, KeepsPromise, Promise!Spec

-----------------------------------------------------------------------------
(* What the steps do to sessions of others: who may end one, what pruning  *)
(* may remove, that marks stay, and that together they reserve no more     *)
(* than the cap.                                                           *)
(*                                                                         *)
(* It rests on one fact about ids. An id leaves the hands of its creation  *)
(* once, and no later creation gets it: what a handler or a background     *)
(* task remembers of a session stays true of that id, however late it acts.*)
(* The cap rests on createMu, and on sums over the rows of the table.      *)

\* No creation has s to itself any more: its row was written, or its part was
\* made.
Settled(s) == s \in used /\ \A q \in Proc : pc[q] \in BeforeRow => req[q].sid # s
Past(s) == s \in used /\ \A q \in Proc : pc[q] \in BeforePart => req[q].sid # s

\* Those who will delete the row of their id, or of the session they supersede,
\* send as who opened it.
EndsOwn == {"c_part", "c_undo", "a_part", "a_delete"} \cup Finalizing
Own ==
  \A p \in Proc :
    /\ pc[p] \in EndsOwn => Settled(req[p].sid) /\ meta[req[p].sid].who = req[p].who
    /\ pc[p] \in {"c_drop", "c_delold"} =>
         Settled(req[p].old) /\ meta[req[p].old].who = req[p].who

\* What PruneOrphans listed was there, and what it removes has no row.
PruneSound ==
  /\ \A s \in prune.todo : Past(s)
  /\ prune.pc = "remove" => prune.todo \cap open = {}

\* What CleanupStale listed was there, and it lets go of a mutex after it
\* removed the part.
SweepSound ==
  /\ \A s \in stale \cup sweep.todo : Past(s)
  /\ sweep.pc = "row" => Past(sweep.cur) /\ sweep.cur \notin parts

\* A chunk of a session that has its part is marked under the mutex in the map.
InMap ==
  \A p \in Proc :
    pc[p] \in Copied /\ req[p].sid \in open \cap parts => req[p].mutex = locks[req[p].sid]
Exclusive ==
  \A p, q \in Proc :
    /\ p # q /\ {pc[p], pc[q]} \subseteq InSession
    /\ req[p].sid = req[q].sid
    => req[p].mutex # req[q].mutex
SeenAll ==
  \A p \in Proc :
    pc[p] = "w_mark" /\ req[p].sid \in open \cap parts => received[req[p].sid] \subseteq req[p].seen

Order == Own /\ PruneSound /\ SweepSound /\ InMap /\ Exclusive /\ SeenAll

-----------------------------------------------------------------------------
(* Ids.                                                                    *)

Handles(p) ==
  Create(p) \/ WriteChunk(p) \/ Complete(p) \/ Abort(p) \/ StoreSmallFile(p) \/ Cancel(p)
Background ==
  \/ CleanupStale \/ PruneOrphans
  \/ \E n \in Name : Unlink(n)
  \/ \E s \in Sid : GoStale(s) \/ GoQuiet(s)

LEMMA NextSplits ==
  ASSUME [Next]_vars
  PROVE  (\E p \in Proc : Handles(p)) \/ Background \/ Crash \/ UNCHANGED vars
  BY DEF Next, Handles, Background

LEMMA BackgroundLeaves ==
  ASSUME Background PROVE UNCHANGED <<pc, req, meta, used>>
<1> USE DEF rows, disk, tasks
<1>1. CASE CleanupStale
  BY <1>1 DEF CleanupStale, SweepList, SweepPart, SweepRow, SweepCut, DeleteRow
<1>2. CASE PruneOrphans
  BY <1>2 DEF PruneOrphans, PruneList, PruneIds, PruneRemove
<1> QED BY <1>1, <1>2 DEF Background, Unlink, GoStale, GoQuiet

\* A handler steps alone.
LEMMA OthersRest ==
  ASSUME TypeOK, NEW p \in Proc, Handles(p), NEW q \in Proc \ {p}
  PROVE  pc'[q] = pc[q] /\ req'[q] = req[q]
<1> USE DEF TypeOK, Goto, Reply, Refuse
<1>1. CASE Create(p)
  BY <1>1 DEF Create, CreateBegin, CreateLock, CreateTarget, CreateDrop, CreateDeleteOld,
              CreateReserve, CreateInsert, CreatePart, CreateUndo
<1>2. CASE WriteChunk(p)
  BY <1>2 DEF WriteChunk, ChunkBegin, ChunkLoad, ChunkOpen, ChunkCopy, ChunkEnter, ChunkMark
<1>3. CASE Complete(p)
  BY <1>3 DEF Complete, CompleteBegin, CompleteEnter, CompleteLookup, CompletePublish, Publish,
              CompleteRename, CompleteUnlink, CompleteDelete
<1>4. CASE Abort(p) \/ Cancel(p)
  BY <1>4 DEF Abort, AbortLoad, AbortPart, AbortDelete, Cancel
<1>5. CASE StoreSmallFile(p)
  BY <1>5 DEF StoreSmallFile, PutBegin, PutCopy, PutFail, PutLookup, PutPublish, Publish,
              PutRename, PutUnlink, PutUndo
<1> QED BY <1>1, <1>2, <1>3, <1>4, <1>5 DEF Handles


-----------------------------------------------------------------------------
(* What a step does to one handler and to what they all share, as far as   *)
(* Order depends on it.                                                    *)

MovesAt(q) ==
  /\ pc'[q] \in BeforePart =>
       \/ /\ pc[q] \in BeforePart /\ req'[q].sid = req[q].sid
          /\ pc'[q] \in BeforeRow => pc[q] \in BeforeRow
       \/ req'[q].sid \notin used
  /\ pc'[q] \in EndsOwn =>
       \/ pc[q] \in EndsOwn /\ req'[q].sid = req[q].sid /\ req'[q].who = req[q].who
       \/ Owns(req'[q].who, req'[q].sid)
       \/ /\ pc[q] = "c_insert" /\ req'[q].sid = req[q].sid /\ used' = used
          /\ meta'[req[q].sid].who = req'[q].who
  /\ pc'[q] \in {"c_drop", "c_delold"} =>
       \/ /\ pc[q] \in {"c_drop", "c_delold"}
          /\ req'[q].old = req[q].old /\ req'[q].who = req[q].who
       \/ Owns(req'[q].who, req'[q].old)
  /\ pc'[q] \in Copied =>
       /\ req'[q].sid = req[q].sid
       /\ \/ pc[q] \in Copied /\ req'[q].mutex = req[q].mutex
          \/ req'[q].mutex = locks'[req[q].sid]
  /\ pc'[q] \in InSession =>
       /\ req'[q].sid = req[q].sid /\ req'[q].mutex = req[q].mutex
       /\ pc[q] \in InSession \/ MutexFree(q)
  /\ pc'[q] = "w_mark" =>
       \/ pc[q] = "w_mark" /\ req'[q].seen = req[q].seen
       \/ req'[q].seen = received'[req[q].sid]

\* The creations that have s to themselves.
Creates(q, s) == pc[q] \in BeforeRow /\ req[q].sid = s
Makes(q, s) == pc[q] \in BeforePart /\ req[q].sid = s

Shares ==
  /\ \A s \in used \ used' : \E q \in Proc : Creates(q, s)
  /\ \A s \in open' \ open : \E q \in Proc : Creates(q, s)
  /\ \A s \in used : meta'[s] = meta[s] \/ \E q \in Proc : Creates(q, s)
  /\ \A s \in parts' \ parts : s \notin used \/ \E q \in Proc : Makes(q, s)
  /\ \A s \in Sid : \/ received'[s] \subseteq received[s]
                   \/ \E q \in Proc : pc[q] = "w_mark" /\ req[q].sid = s /\ pc'[q] = "idle"
  /\ \A s \in open' \cap parts' : locks'[s] = locks[s] \/ \A q \in Proc : pc'[q] = "idle"
  /\ \A s \in stale' \ stale : s \in open /\ \A q \in Proc : pc[q] = "c_part" => req[q].sid # s

\* A handler leaves the background tasks alone.
LEMMA CreateMoves ==
  ASSUME IInv, NEW p \in Proc, Create(p)
  PROVE  MovesAt(p) /\ Shares /\ UNCHANGED tasks
<1> USE DEF IInv, TypeOK, Request, MovesAt, Shares, BeforePart, BeforeRow, Creating, EndsOwn,
            Finalizing, Copied, InSession, Owns, Creates, Makes, Goto, Reply, Refuse, rows, disk, tasks
<1>1. CASE CreateBegin(p)
  BY <1>1 DEF CreateBegin
<1>2. CASE CreateLock(p)
  BY <1>2 DEF CreateLock
<1>3. CASE CreateTarget(p)
  BY <1>3 DEF CreateTarget, AtTarget, Supersedable
<1>4. CASE CreateDrop(p)
  BY <1>4 DEF CreateDrop, Discard, Unlock
<1>5. CASE CreateDeleteOld(p)
  BY <1>5 DEF CreateDeleteOld, DeleteRow
<1>6. CASE CreateReserve(p)
  BY <1>6 DEF CreateReserve
<1>7. CASE CreateInsert(p)
  BY <1>7 DEF CreateInsert, InsertRow
<1>8. CASE CreatePart(p)
  BY <1>8 DEF CreatePart, NewPart
<1>9. CASE CreateUndo(p)
  BY <1>9 DEF CreateUndo, DeleteRow
<1> QED BY <1>1, <1>2, <1>3, <1>4, <1>5, <1>6, <1>7, <1>8, <1>9 DEF Create

LEMMA WriteChunkMoves ==
  ASSUME IInv, NEW p \in Proc, WriteChunk(p)
  PROVE  MovesAt(p) /\ Shares /\ UNCHANGED tasks
<1> USE DEF IInv, TypeOK, Request, MovesAt, Shares, BeforePart, BeforeRow, Creating, EndsOwn,
            Finalizing, Copied, InSession, Owns, Creates, Makes, Goto, Reply, rows, disk, tasks
<1>1. CASE ChunkBegin(p)
  BY <1>1 DEF ChunkBegin
<1>2. CASE ChunkLoad(p)
  BY <1>2 DEF ChunkLoad
<1>3. CASE ChunkOpen(p)
  BY <1>3 DEF ChunkOpen
<1>4. CASE ChunkCopy(p)
  BY <1>4 DEF ChunkCopy
<1>5. CASE ChunkEnter(p)
  BY <1>5 DEF ChunkEnter, Loads
<1>6. CASE ChunkMark(p)
  BY <1>6 DEF ChunkMark
<1> QED BY <1>1, <1>2, <1>3, <1>4, <1>5, <1>6 DEF WriteChunk

LEMMA CompleteMoves ==
  ASSUME IInv, NEW p \in Proc, Complete(p)
  PROVE  MovesAt(p) /\ Shares /\ UNCHANGED tasks
<1> USE DEF IInv, TypeOK, Request, MovesAt, Shares, BeforePart, BeforeRow, Creating, EndsOwn,
            Finalizing, Copied, InSession, Owns, Creates, Makes, Goto, Reply, rows, disk, tasks
<1>1. CASE CompleteBegin(p)
  BY <1>1 DEF CompleteBegin
<1>2. CASE CompleteEnter(p)
  BY <1>2 DEF CompleteEnter, Loads
<1>3. CASE CompleteLookup(p)
  BY <1>3 DEF CompleteLookup
<1>4. CASE CompletePublish(p)
  BY <1>4 DEF CompletePublish, Publish, RenameTo, LinkTo
<1>5. CASE CompleteRename(p)
  BY <1>5 DEF CompleteRename, RenameTo
<1>6. CASE CompleteUnlink(p)
  BY <1>6 DEF CompleteUnlink
<1>7. CASE CompleteDelete(p)
  BY <1>7 DEF CompleteDelete, DeleteRow, Unlock
<1> QED BY <1>1, <1>2, <1>3, <1>4, <1>5, <1>6, <1>7 DEF Complete

LEMMA AbortMoves ==
  ASSUME IInv, NEW p \in Proc, Abort(p) \/ Cancel(p)
  PROVE  MovesAt(p) /\ Shares /\ UNCHANGED tasks
<1> USE DEF IInv, TypeOK, Request, MovesAt, Shares, BeforePart, BeforeRow, Creating, EndsOwn,
            Finalizing, Copied, InSession, Owns, Creates, Makes, Goto, Reply, rows, disk, tasks
<1>1. CASE AbortLoad(p)
  BY <1>1 DEF AbortLoad
<1>2. CASE AbortPart(p)
  BY <1>2 DEF AbortPart, Discard, Unlock
<1>3. CASE AbortDelete(p)
  BY <1>3 DEF AbortDelete, DeleteRow
<1>4. CASE Cancel(p)
  BY <1>4 DEF Cancel
<1> QED BY <1>1, <1>2, <1>3, <1>4 DEF Abort

LEMMA PutMoves ==
  ASSUME IInv, NEW p \in Proc, StoreSmallFile(p)
  PROVE  MovesAt(p) /\ Shares /\ UNCHANGED tasks
<1> USE DEF IInv, TypeOK, Request, MovesAt, Shares, BeforePart, BeforeRow, Creating, EndsOwn,
            Finalizing, Copied, InSession, Owns, Creates, Makes, Goto, Reply, rows, disk, tasks
<1>1. CASE PutBegin(p)
  BY <1>1 DEF PutBegin, NewPart
<1>2. CASE PutCopy(p)
  BY <1>2 DEF PutCopy
<1>3. CASE PutFail(p)
  BY <1>3 DEF PutFail
<1>4. CASE PutLookup(p)
  BY <1>4 DEF PutLookup
<1>5. CASE PutPublish(p)
  BY <1>5 DEF PutPublish, Publish, RenameTo, LinkTo
<1>6. CASE PutRename(p)
  BY <1>6 DEF PutRename, RenameTo
<1>7. CASE PutUnlink(p)
  BY <1>7 DEF PutUnlink
<1>8. CASE PutUndo(p)
  BY <1>8 DEF PutUndo
<1> QED BY <1>1, <1>2, <1>3, <1>4, <1>5, <1>6, <1>7, <1>8 DEF StoreSmallFile

\* Steps of nobody's request: the tasks, the environment, a crash.
LEMMA BackgroundMoves ==
  ASSUME IInv, SweepSound, Background \/ Crash \/ UNCHANGED vars
  PROVE  (\A q \in Proc : MovesAt(q)) /\ Shares
<1> USE DEF IInv, TypeOK, Shares, rows, disk, tasks
<1>1. \A q \in Proc : MovesAt(q)
  <2>1. UNCHANGED <<pc, req>> \/ \A q \in Proc : pc'[q] = "idle"
    BY BackgroundLeaves DEF Crash, vars
  <2> QED
    BY <2>1 DEF MovesAt, BeforePart, BeforeRow, Creating, EndsOwn, Finalizing, Copied, InSession
<1> SUFFICES Shares BY <1>1
<1>2. CASE CleanupStale
  <2>1. CASE SweepList BY <2>1 DEF SweepList
  <2>2. CASE SweepPart BY <2>2 DEF SweepPart
  <2>3. CASE SweepRow BY <2>3 DEF SweepRow, DeleteRow, Unlock
  <2>4. CASE SweepCut BY <2>4 DEF SweepCut, Unlock, SweepSound
  <2> QED BY <1>2, <2>1, <2>2, <2>3, <2>4 DEF CleanupStale
<1>3. CASE PruneOrphans
  BY <1>3 DEF PruneOrphans, PruneList, PruneIds, PruneRemove
<1>4. CASE \E n \in Name : Unlink(n)
  BY <1>4 DEF Unlink
<1>5. CASE \E s \in Sid : GoStale(s) \/ GoQuiet(s)
  BY <1>5 DEF GoStale, GoQuiet
<1>6. CASE Crash
  BY <1>6 DEF Crash
<1>7. CASE UNCHANGED vars
  BY <1>7 DEF vars
<1> QED BY <1>1, <1>2, <1>3, <1>4, <1>5, <1>6, <1>7 DEF Background

\* A step moves one handler, none, or ends all.
Alone ==
  \/ \E p \in Proc : \A q \in Proc \ {p} : pc'[q] = pc[q] /\ req'[q] = req[q]
  \/ UNCHANGED <<pc, req>>
  \/ \A q \in Proc : pc'[q] = "idle"

LEMMA StepMoves ==
  ASSUME IInv, SweepSound, [Next]_vars
  PROVE  (\A q \in Proc : MovesAt(q)) /\ Shares /\ Alone
<1>0. TypeOK BY DEF IInv
<1>1. CASE \E p \in Proc : Handles(p)
  <2>1. PICK p \in Proc : Handles(p) BY <1>1
  <2>2. MovesAt(p) /\ Shares
    BY <2>1, CreateMoves, WriteChunkMoves, CompleteMoves, AbortMoves, PutMoves DEF Handles
  <2>3. \A q \in Proc \ {p} : pc'[q] = pc[q] /\ req'[q] = req[q]
    BY <1>0, <2>1, OthersRest
  <2>4. \A q \in Proc \ {p} : MovesAt(q)
    BY <2>3 DEF MovesAt
  <2> QED BY <2>2, <2>3, <2>4 DEF Alone
<1>2. CASE Background \/ Crash \/ UNCHANGED vars
  <2>1. Alone BY <1>2, BackgroundLeaves DEF Alone, Crash, vars
  <2> QED BY <1>2, <2>1, BackgroundMoves
<1> QED BY <1>1, <1>2, NextSplits

-----------------------------------------------------------------------------
(* What was true of an id stays true of it.                                *)

LEMMA SettledKept ==
  ASSUME \A q \in Proc : MovesAt(q), Shares
  PROVE  \A s \in Sid : Settled(s) => Settled(s)' /\ meta'[s] = meta[s]
  BY DEF Settled, Shares, MovesAt, BeforePart, Creates

LEMMA PastKept ==
  ASSUME \A q \in Proc : MovesAt(q), Shares
  PROVE  \A s \in Sid : Past(s) => Past(s)'
  BY DEF Past, Shares, MovesAt, BeforePart, Creates

\* A session in the table was created for good, and so was one with a part.
LEMMA RowSettled ==
  ASSUME IInv PROVE \A s \in open : Settled(s)
  BY DEF IInv, Ids, IdsFresh, IdsAlone, Settled, TypeOK

LEMMA PartPast ==
  ASSUME IInv PROVE \A s \in parts : Past(s)
  BY DEF IInv, Ids, IdsFresh, IdsDrawn, Untouched, Past, TypeOK

LEMMA RowPast ==
  ASSUME IInv, NEW s \in open, \A q \in Proc : pc[q] = "c_part" => req[q].sid # s
  PROVE  Past(s)
  BY RowSettled DEF Settled, Past, BeforePart

LEMMA OwnKept ==
  ASSUME IInv, Own, \A q \in Proc : MovesAt(q), Shares
  PROVE  Own'
<1> SUFFICES ASSUME NEW p \in Proc
             PROVE  /\ pc'[p] \in EndsOwn =>
                         Settled(req[p].sid)' /\ meta'[req'[p].sid].who = req'[p].who
                    /\ pc'[p] \in {"c_drop", "c_delold"} =>
                         Settled(req[p].old)' /\ meta'[req'[p].old].who = req'[p].who
  BY DEF Own
<1>0. TypeOK /\ req[p].sid \in Sid /\ req[p].old \in Sid BY DEF IInv, TypeOK, Request
<1>1. ASSUME pc'[p] \in EndsOwn
      PROVE  Settled(req[p].sid)' /\ meta'[req'[p].sid].who = req'[p].who
  <2>1. CASE pc[p] \in EndsOwn /\ req'[p].sid = req[p].sid /\ req'[p].who = req[p].who
    BY <1>0, <2>1, SettledKept DEF Own, Settled
  <2>2. CASE Owns(req'[p].who, req'[p].sid)
    BY <1>0, <2>2, SettledKept, RowSettled DEF Owns, Settled, TypeOK
  <2>3. CASE /\ pc[p] = "c_insert" /\ req'[p].sid = req[p].sid /\ used' = used
             /\ meta'[req[p].sid].who = req'[p].who
    <3>1. req[p].sid \in used /\ \A q \in Proc \ {p} : pc[q] \in BeforePart => req[q].sid # req[p].sid
      BY <2>3 DEF IInv, Ids, IdsDrawn, Busy, BeforePart, BeforeRow, Creating
    <3>2. pc'[p] \notin BeforeRow
      BY <1>1 DEF EndsOwn, Finalizing, BeforeRow, Creating
    <3>3. \A q \in Proc : pc'[q] \in BeforeRow => req'[q].sid # req[p].sid
      BY <3>1, <3>2 DEF MovesAt, BeforePart
    <3> QED BY <2>3, <3>1, <3>3 DEF Settled
  <2> QED BY <1>1, <2>1, <2>2, <2>3 DEF MovesAt
<1>2. ASSUME pc'[p] \in {"c_drop", "c_delold"}
      PROVE  Settled(req[p].old)' /\ meta'[req'[p].old].who = req'[p].who
  <2>1. CASE /\ pc[p] \in {"c_drop", "c_delold"}
             /\ req'[p].old = req[p].old /\ req'[p].who = req[p].who
    BY <1>0, <2>1, SettledKept DEF Own, Settled
  <2>2. CASE Owns(req'[p].who, req'[p].old)
    BY <1>0, <2>2, SettledKept, RowSettled DEF Owns, Settled, TypeOK
  <2> QED BY <1>2, <2>1, <2>2 DEF MovesAt
<1> QED BY <1>1, <1>2

LEMMA HandlesRest == ASSUME IInv, NEW p \in Proc, Handles(p) PROVE UNCHANGED tasks
  BY CreateMoves, WriteChunkMoves, CompleteMoves, AbortMoves, PutMoves DEF Handles

LEMMA PruneKept ==
  ASSUME IInv, PruneSound, [Next]_vars, \A q \in Proc : MovesAt(q), Shares
  PROVE  PruneSound'
<1> USE DEF tasks
<1>0. TypeOK BY DEF IInv
<1>a. prune.todo \subseteq Sid /\ parts \subseteq Sid BY <1>0 DEF TypeOK, PruneState
<1>1. CASE UNCHANGED prune
  <2>1. \A s \in prune.todo : Past(s)' BY <1>a, PastKept DEF PruneSound
  <2>2. \A s \in prune.todo : s \notin open => s \notin open'
    BY DEF PruneSound, Past, Shares, Creates, BeforePart
  <2> QED BY <1>1, <2>1, <2>2 DEF PruneSound
<1>2. CASE PruneOrphans
  <2>1. \A s \in prune'.todo : s \in prune.todo \cup parts
    BY <1>2 DEF PruneOrphans, PruneList, PruneIds, PruneRemove, PruneKeep, PruneIdle
  <2>2. \A s \in prune'.todo : Past(s)'
    BY <1>a, <2>1, PastKept, PartPast DEF PruneSound
  <2>3. prune'.pc = "remove" => prune'.todo \cap open' = {}
    BY <1>2 DEF PruneOrphans, PruneList, PruneIds, PruneRemove, PruneKeep, PruneIdle, PruneSound, rows
  <2> QED BY <2>2, <2>3 DEF PruneSound
<1>3. CASE Crash
  BY <1>3 DEF Crash, PruneSound, PruneIdle
<1>4. CASE UNCHANGED vars BY <1>1, <1>4 DEF vars
<1>5. CASE \E p \in Proc : Handles(p) BY <1>1, <1>5, HandlesRest
<1>6. CASE Background
  BY <1>1, <1>2, <1>6 DEF Background, CleanupStale, SweepList, SweepPart, SweepRow, SweepCut,
                      Unlink, GoStale, GoQuiet
<1> QED BY <1>3, <1>4, <1>5, <1>6, NextSplits

LEMMA SweepKept ==
  ASSUME IInv, SweepSound, [Next]_vars, \A q \in Proc : MovesAt(q), Shares
  PROVE  SweepSound'
<1> USE DEF tasks
<1>0. TypeOK BY DEF IInv
<1>a. /\ sweep.todo \subseteq Sid /\ sweep.cur \in Sid /\ stale \subseteq Sid /\ open \subseteq Sid
      /\ sweep' \in SweepState
  BY <1>0, StepTyped DEF TypeOK, SweepState
<1>b. \A s \in stale \cup sweep.todo : Past(s)' BY <1>a, PastKept DEF SweepSound
<1>c. \A s \in stale' : Past(s)'
  <2>1. \A s \in stale' \ stale : Past(s) BY RowPast DEF Shares
  <2> QED BY <1>a, <1>b, <2>1, PastKept DEF Shares
<1>d. \A s \in Sid : Past(s) /\ s \notin parts => s \notin parts'
  BY DEF Past, Shares, Makes
<1>1. CASE UNCHANGED sweep
  <2>1. sweep.pc = "row" => Past(sweep.cur)' /\ sweep.cur \notin parts'
    BY <1>1, <1>a, <1>d, PastKept DEF SweepSound, Past
  <2> QED BY <1>1, <1>b, <1>c, <2>1 DEF SweepSound, Past
<1>2. CASE CleanupStale
  <2>0. sweep = [pc |-> sweep.pc, todo |-> sweep.todo, cur |-> sweep.cur]
    BY <1>0 DEF TypeOK, SweepState
  <2>a. CASE SweepList
    <3>1. sweep'.pc = "part" /\ sweep'.todo \subseteq stale BY <2>0, <2>a DEF SweepList
    <3> QED BY <3>1, <1>b, <1>c DEF SweepSound, Past
  <2>b. CASE SweepPart
    <3>1. sweep'.todo \subseteq sweep.todo /\ sweep'.cur \in sweep.todo /\ sweep'.cur \notin parts'
      BY <2>b DEF SweepPart
    <3> QED BY <3>1, <1>b, <1>c DEF SweepSound, Past
  <2>c. CASE SweepRow \/ SweepCut
    <3>0. CASE sweep' = SweepIdle BY <3>0, <1>c DEF SweepIdle, SweepSound, Past
    <3>1. CASE sweep' = [sweep EXCEPT !.pc = "part", !.cur = AnySid]
      <4>1. sweep'.todo = sweep.todo /\ sweep'.pc = "part" BY <2>0, <3>1
      <4> QED BY <4>1, <1>b, <1>c DEF SweepSound, Past
    <3> QED BY <2>c, <3>0, <3>1 DEF SweepRow, SweepCut, SweepOn
  <2> QED BY <1>2, <2>a, <2>b, <2>c DEF CleanupStale
<1>3. CASE Crash
  BY <1>3, <1>c DEF Crash, SweepSound, SweepIdle, Past
<1>4. CASE UNCHANGED vars BY <1>1, <1>4 DEF vars
<1>5. CASE \E p \in Proc : Handles(p) BY <1>1, <1>5, HandlesRest
<1>6. CASE Background
  BY <1>1, <1>2, <1>6 DEF Background, PruneOrphans, PruneList, PruneIds, PruneRemove,
                      Unlink, GoStale, GoQuiet
<1> QED BY <1>3, <1>4, <1>5, <1>6, NextSplits

\* No handler that has copied a chunk waits for its session to appear.
LEMMA NothingAppears ==
  ASSUME IInv, Shares, NEW q \in Proc, pc[q] \in Copied,
         req[q].sid \in open' \cap parts'
  PROVE  req[q].sid \in open \cap parts
<1>0. req[q].sid \in Sid /\ Busy(q, req[q].sid)
  BY DEF IInv, TypeOK, Request, Busy, Copied
<1>1. ~Untouched(req[q].sid) /\ req[q].sid \in used
  BY <1>0 DEF Untouched, IInv, Ids, IdsFresh
<1>2. \A r \in Proc : pc[r] \in BeforePart => req[r].sid # req[q].sid
  BY <1>1 DEF IInv, Ids, IdsDrawn
<1> QED BY <1>1, <1>2 DEF Shares, Creates, Makes, BeforePart

LEMMA InMapKept ==
  ASSUME IInv, InMap, \A q \in Proc : MovesAt(q), Shares
  PROVE  InMap'
<1> SUFFICES ASSUME NEW p \in Proc, pc'[p] \in Copied, req'[p].sid \in open' \cap parts'
             PROVE  req'[p].mutex = locks'[req'[p].sid]
  BY DEF InMap
<1>1. req'[p].sid = req[p].sid BY DEF MovesAt
<1>2. CASE req'[p].mutex = locks'[req[p].sid] BY <1>1, <1>2
<1>3. CASE pc[p] \in Copied /\ req'[p].mutex = req[p].mutex
  <2>1. req[p].sid \in open \cap parts BY <1>1, <1>3, NothingAppears
  <2>2. req[p].mutex = locks[req[p].sid] BY <1>3, <2>1 DEF InMap
  <2>3. pc'[p] # "idle" BY DEF Copied
  <2>4. locks'[req[p].sid] = locks[req[p].sid] BY <1>1, <2>3 DEF Shares
  <2> QED BY <1>1, <1>3, <2>2, <2>4
<1> QED BY <1>2, <1>3 DEF MovesAt

LEMMA ExclusiveKept ==
  ASSUME Exclusive, \A q \in Proc : MovesAt(q), Alone
  PROVE  Exclusive'
<1> SUFFICES ASSUME NEW p \in Proc, NEW q \in Proc, p # q,
                    pc'[p] \in InSession, pc'[q] \in InSession, req'[p].sid = req'[q].sid
             PROVE  req'[p].mutex # req'[q].mutex
  BY DEF Exclusive
<1>1. /\ req'[p].sid = req[p].sid /\ req'[p].mutex = req[p].mutex
      /\ req'[q].sid = req[q].sid /\ req'[q].mutex = req[q].mutex
      /\ pc[p] \in InSession \/ MutexFree(p)
      /\ pc[q] \in InSession \/ MutexFree(q)
  BY DEF MovesAt
<1>2. pc[p] \in InSession \/ pc[q] \in InSession
  BY DEF Alone, InSession, Finalizing
<1> QED BY <1>1, <1>2 DEF MutexFree, Exclusive

LEMMA SeenKept ==
  ASSUME IInv, InMap, Exclusive, SeenAll, \A q \in Proc : MovesAt(q), Shares
  PROVE  SeenAll'
<1> SUFFICES ASSUME NEW p \in Proc, pc'[p] = "w_mark", req'[p].sid \in open' \cap parts'
             PROVE  received'[req'[p].sid] \subseteq req'[p].seen
  BY DEF SeenAll
<1>1. req'[p].sid = req[p].sid /\ req[p].sid \in Sid
  BY DEF MovesAt, Copied, IInv, TypeOK, Request
<1>2. CASE req'[p].seen = received'[req[p].sid] BY <1>1, <1>2
<1>3. CASE pc[p] = "w_mark" /\ req'[p].seen = req[p].seen
  <2>1. req[p].sid \in open \cap parts BY <1>1, <1>3, NothingAppears DEF Copied
  <2>2. \A q \in Proc : ~(pc[q] = "w_mark" /\ req[q].sid = req[p].sid /\ pc'[q] = "idle")
    BY <1>3, <2>1 DEF InMap, Exclusive, Copied, InSession
  <2>3. received'[req[p].sid] \subseteq received[req[p].sid] BY <1>1, <2>2 DEF Shares
  <2> QED BY <1>1, <1>3, <2>1, <2>3 DEF SeenAll
<1> QED BY <1>2, <1>3 DEF MovesAt

-----------------------------------------------------------------------------
(* The theorems.                                                           *)

LEMMA OrderInit == Init => Order
  BY DEF Init, Order, Own, PruneSound, SweepSound, InMap, Exclusive, SeenAll, EndsOwn,
         Finalizing, InSession, Copied, PruneIdle, SweepIdle

LEMMA OrderKept == IInv /\ Order /\ [Next]_vars => Order'
<1> SUFFICES ASSUME IInv, Order, [Next]_vars PROVE Order'
  OBVIOUS
<1>1. (\A q \in Proc : MovesAt(q)) /\ Shares /\ Alone BY StepMoves DEF Order
<1> QED BY <1>1, OwnKept, PruneKept, SweepKept, InMapKept, ExclusiveKept, SeenKept DEF Order

\* The invariant on which the theorems below rest.
LEMMA OrderInv == Spec => [](IInv /\ Order)
  BY InitKeeps, StepKeeps, OrderInit, OrderKept, PTL DEF Spec

\* A session ends only by a request of its own sender or by the sweep
\* (OnlySenderEnds): a handler that will delete a row knew its sender when it
\* drew or loaded the id, and neither changes afterwards.
THEOREM SessionsEndByTheirSender == Spec => OnlySenderEnds
<1>1. IInv /\ Order /\ [Next]_vars =>
        [\A s \in open \ open' :
           \/ sweep.pc = "row" /\ sweep.cur = s /\ sweep'.pc # "row"
           \/ \E p \in Proc : pc'[p] # pc[p] /\ req[p].who = meta[s].who]_vars
  <2> SUFFICES ASSUME IInv, Order, Next, NEW s \in open \ open'
               PROVE  \/ sweep.pc = "row" /\ sweep.cur = s /\ sweep'.pc # "row"
                      \/ \E p \in Proc : pc'[p] # pc[p] /\ req[p].who = meta[s].who
    BY DEF vars, rows
  <2>0. TypeOK /\ Own BY DEF IInv, Order
  <2>1. ASSUME NEW p \in Proc, Handles(p)
        PROVE  pc'[p] # pc[p] /\ req[p].who = meta[s].who
    <3> USE DEF rows, disk, tasks, EndsOwn, Own, Finalizing, DeleteRow, Goto, Reply, Refuse
    <3>1. CASE Create(p)
      BY <2>0, <3>1 DEF Create, CreateBegin, CreateLock, CreateTarget, CreateDrop, CreateDeleteOld,
                        CreateReserve, CreateInsert, InsertRow, CreatePart, CreateUndo, TypeOK
    <3>2. CASE WriteChunk(p)
      BY <3>2 DEF WriteChunk, ChunkBegin, ChunkLoad, ChunkOpen, ChunkCopy, ChunkEnter, ChunkMark
    <3>3. CASE Complete(p)
      BY <2>0, <3>3 DEF Complete, CompleteBegin, CompleteEnter, CompleteLookup, CompletePublish,
                        CompleteRename, CompleteUnlink, CompleteDelete, TypeOK
    <3>4. CASE Abort(p) \/ Cancel(p)
      BY <2>0, <3>4 DEF Abort, AbortLoad, AbortPart, AbortDelete, Cancel, TypeOK
    <3>5. CASE StoreSmallFile(p)
      BY <3>5 DEF StoreSmallFile, PutBegin, PutCopy, PutFail, PutLookup, PutPublish,
                  PutRename, PutUnlink, PutUndo
    <3> QED BY <2>1, <3>1, <3>2, <3>3, <3>4, <3>5 DEF Handles
  <2>2. CASE CleanupStale
    <3>1. sweep.pc = "row" /\ sweep.cur = s /\ SweepOn
      BY <2>2 DEF CleanupStale, SweepList, SweepPart, SweepRow, SweepCut, DeleteRow, rows
    <3>2. sweep'.pc # "row"
      BY <2>0, <3>1 DEF SweepOn, SweepIdle, TypeOK, SweepState
    <3> QED BY <3>1, <3>2
  <2>3. CASE Crash \/ (Background /\ ~CleanupStale)
    BY <2>3 DEF Crash, Background, PruneOrphans, PruneList, PruneIds, PruneRemove, Unlink,
                GoStale, GoQuiet, rows
  <2> QED BY <2>1, <2>2, <2>3 DEF Next, Handles, Background
<1> QED BY <1>1, OrderInv, PTL DEF Spec, OnlySenderEnds

\* PruneOrphans never removes the part of a session in the table
\* (PruneSparesSessions): it lists before it asks the table, and no id gets its
\* row after its part.
THEOREM PruningSparesSessions == Spec => PruneSparesSessions
<1>1. IInv /\ Order /\ [Next]_vars => [prune' # prune => parts \cap open \subseteq parts']_vars
  <2> SUFFICES ASSUME IInv, Order, Next, prune' # prune
               PROVE  parts \cap open \subseteq parts'
    OBVIOUS
  <2>1. CASE PruneOrphans
    BY <2>1 DEF PruneOrphans, PruneList, PruneIds, PruneRemove, Order, PruneSound, rows, disk
  <2>2. CASE Crash BY <2>2 DEF Crash, disk
  <2>3. CASE \E p \in Proc : Handles(p) BY <2>3, HandlesRest DEF tasks
  <2>4. CASE Background /\ ~PruneOrphans
    BY <2>4 DEF Background, CleanupStale, SweepList, SweepPart, SweepRow, SweepCut, Unlink,
                GoStale, GoQuiet, tasks
  <2> QED BY <2>1, <2>2, <2>3, <2>4 DEF Next, Handles, Background
<1> QED BY <1>1, OrderInv, PTL DEF Spec, PruneSparesSessions

\* While a session has its row and its part, a chunk once marked stays marked
\* (AckedChunksKept): the marks are written back from a copy that was read under
\* the mutex of the map, and nobody else is inside with another one.
THEOREM MarksStay == Spec => AckedChunksKept
<1>1. IInv /\ Order /\ [Next]_vars =>
        [\A s \in open \cap open' \cap parts' : received[s] \subseteq received'[s]]_vars
  <2> SUFFICES ASSUME IInv, Order, Next, NEW s \in open \cap open' \cap parts'
               PROVE  received[s] \subseteq received'[s]
    OBVIOUS
  <2>0. TypeOK /\ s \in Sid BY DEF IInv, TypeOK
  <2>1. ASSUME NEW p \in Proc, Handles(p)
        PROVE  received[s] \subseteq received'[s]
    <3> USE DEF rows, DeleteRow, Refuse
    <3>0. req[p].sid \in Sid BY <2>0 DEF TypeOK, Request
    <3>1. CASE Create(p)
      <4>1. pc[p] = "c_insert" => req[p].sid \notin open
        BY DEF IInv, Ids, IdsAlone, BeforeRow, Creating
      <4> QED BY <2>0, <3>0, <3>1, <4>1 DEF Create, CreateBegin, CreateLock, CreateTarget, CreateDrop,
            CreateDeleteOld, CreateReserve, CreateInsert, InsertRow, CreatePart, CreateUndo, TypeOK
    <3>2. CASE ChunkMark(p)
      <4>1. s = req[p].sid => s \in parts
        BY <2>0, <3>2 DEF ChunkMark, disk
      <4>2. s = req[p].sid => received[s] \subseteq req[p].seen
        BY <3>2, <4>1 DEF ChunkMark, Order, SeenAll
      <4> QED BY <2>0, <3>0, <3>2, <4>2 DEF ChunkMark, TypeOK
    <3>3. CASE WriteChunk(p) /\ ~ChunkMark(p)
      BY <3>3 DEF WriteChunk, ChunkBegin, ChunkLoad, ChunkOpen, ChunkCopy, ChunkEnter
    <3>4. CASE Complete(p)
      BY <2>0, <3>0, <3>4 DEF Complete, CompleteBegin, CompleteEnter, CompleteLookup, CompletePublish,
                        CompleteRename, CompleteUnlink, CompleteDelete, TypeOK
    <3>5. CASE Abort(p) \/ Cancel(p)
      BY <2>0, <3>0, <3>5 DEF Abort, AbortLoad, AbortPart, AbortDelete, Cancel, TypeOK
    <3>6. CASE StoreSmallFile(p)
      BY <3>6 DEF StoreSmallFile, PutBegin, PutCopy, PutFail, PutLookup, PutPublish,
                  PutRename, PutUnlink, PutUndo
    <3> QED BY <2>1, <3>1, <3>2, <3>3, <3>4, <3>5, <3>6 DEF Handles
  <2>2. CASE CleanupStale
    BY <2>0, <2>2 DEF CleanupStale, SweepList, SweepPart, SweepRow, SweepCut, DeleteRow, rows, TypeOK, SweepState
  <2>3. CASE Crash \/ (Background /\ ~CleanupStale)
    BY <2>3 DEF Crash, Background, PruneOrphans, PruneList, PruneIds, PruneRemove, Unlink,
                GoStale, GoQuiet, rows
  <2> QED BY <2>1, <2>2, <2>3 DEF Next, Handles, Background
<1> QED BY <1>1, OrderInv, PTL DEF Spec, AckedChunksKept

-----------------------------------------------------------------------------
(* The cap on reservations. ReservedUnderCap is not inductive: a handler   *)
(* between the check and the row counts on the sum it saw, which stays     *)
(* good because createMu keeps every other creation out.                   *)

Sizes == [s \in Sid |-> meta[s].file.size]

LEMMA SizesNatural == ASSUME TypeOK PROVE \A s \in Sid : Sizes[s] \in Nat
  BY SizesAreNatural DEF TypeOK, Sizes, Meta

\* reserved_bytes is a sum over the rows.
LEMMA ReservedIsSum ==
  TypeOK /\ IsFiniteSet(open) => ReservedBytes = SumOver(Sizes, open)
<1> SUFFICES ASSUME TypeOK, IsFiniteSet(open) PROVE ReservedBytes = SumOver(Sizes, open)
  OBVIOUS
<1> DEFINE IsReserved(g) ==
      g = [s \in SUBSET open |-> IF s = {} THEN 0
             ELSE meta[Chosen(s)].file.size + g[s \ {Chosen(s)}]]
<1>1. ReservedBytes = (CHOOSE g : IsReserved(g))[open]
  BY Zenon DEF ReservedBytes, MapThenSumSet, MapThenFoldSet, Chosen
<1>2. ASSUME NEW s \in SUBSET open, s # {}
      PROVE  Sizes[Chosen(s)] = meta[Chosen(s)].file.size
  BY <1>2, ChosenIn DEF Sizes, TypeOK
<1>3. \A g : IsReserved(g) <=> IsFold(g, Sizes, open)
  BY <1>2 DEF IsFold
<1>4. IsFold(CHOOSE g : IsReserved(g), Sizes, open)
  BY <1>3, FoldExists
<1> QED BY <1>1, <1>4, SumPart

Cap ==
  /\ IsFiniteSet(open)
  /\ \A p, q \in Proc : pc[p] \in Creating /\ pc[q] \in Creating => p = q
  /\ MaxReserved # 0 =>
       /\ SumOver(Sizes, open) <= MaxReserved
       /\ \A p \in Proc : pc[p] = "c_insert" =>
            SumOver(Sizes, open) + req[p].file.size <= MaxReserved

\* Under createMu: who enters, and what the check of the cap saw.
Admits(q) ==
  /\ pc'[q] \in Creating => pc[q] \in Creating \/ CreateMuFree
  /\ pc'[q] = "c_insert" =>
       /\ req'[q].file = req[q].file
       /\ pc[q] = "c_insert" \/ (ReserveFits(req[q].file) /\ open' = open)
Adds(p) ==
  /\ pc[p] = "c_insert" /\ pc'[p] \notin Creating
  /\ req[p].sid \in Sid \ open /\ open' = open \cup {req[p].sid}
  /\ meta'[req[p].sid].file = req[p].file
RowsMove == open' = open \/ (\E x \in Sid : open' = open \ {x}) \/ \E p \in Proc : Adds(p)

LEMMA HandlerReserves ==
  ASSUME IInv, NEW p \in Proc, Handles(p)
  PROVE  Admits(p) /\ RowsMove
<1> USE DEF Admits, RowsMove, Creating, Goto, Reply, Refuse, DeleteRow, rows
<1>0. TypeOK /\ req[p].sid \in Sid /\ req[p].old \in Sid BY DEF IInv, TypeOK, Request
<1>a. pc \in [Proc -> Steps] /\ req \in [Proc -> Request] BY <1>0 DEF TypeOK
<1>1. CASE CreateInsert(p)
  <2>1. meta \in [Sid -> Meta] BY <1>0 DEF TypeOK
  <2>2. pc[p] = "c_insert" => req[p].sid \notin open
    BY DEF IInv, Ids, IdsAlone, BeforeRow
  <2> QED BY <1>0, <1>a, <1>1, <2>1, <2>2 DEF CreateInsert, InsertRow, Adds
<1>2. CASE Create(p) /\ ~CreateInsert(p)
  BY <1>0, <1>a, <1>2 DEF Create, CreateBegin, CreateLock, CreateTarget, CreateDrop, CreateDeleteOld,
                    CreateReserve, CreatePart, CreateUndo
<1>3. CASE WriteChunk(p)
  BY <1>a, <1>3 DEF WriteChunk, ChunkBegin, ChunkLoad, ChunkOpen, ChunkCopy, ChunkEnter, ChunkMark
<1>4. CASE Complete(p)
  BY <1>0, <1>a, <1>4 DEF Complete, CompleteBegin, CompleteEnter, CompleteLookup, CompletePublish,
                    Publish, CompleteRename, CompleteUnlink, CompleteDelete
<1>5. CASE Abort(p) \/ Cancel(p)
  BY <1>0, <1>a, <1>5 DEF Abort, AbortLoad, AbortPart, AbortDelete, Cancel
<1>6. CASE StoreSmallFile(p)
  BY <1>a, <1>6 DEF StoreSmallFile, PutBegin, PutCopy, PutFail, PutLookup, PutPublish, Publish,
              PutRename, PutUnlink, PutUndo
<1> QED BY <1>1, <1>2, <1>3, <1>4, <1>5, <1>6 DEF Handles

LEMMA StepReserves ==
  ASSUME IInv, [Next]_vars
  PROVE  (\A q \in Proc : Admits(q)) /\ RowsMove /\ Alone
<1>0. TypeOK BY DEF IInv
<1>1. CASE \E p \in Proc : Handles(p)
  <2>1. PICK p \in Proc : Handles(p) BY <1>1
  <2>2. Admits(p) /\ RowsMove BY <2>1, HandlerReserves
  <2>3. \A q \in Proc \ {p} : pc'[q] = pc[q] /\ req'[q] = req[q] BY <1>0, <2>1, OthersRest
  <2>4. \A q \in Proc \ {p} : Admits(q) BY <2>3 DEF Admits
  <2> QED BY <2>2, <2>3, <2>4 DEF Alone
<1>2. CASE Background \/ Crash \/ UNCHANGED vars
  <2>1. UNCHANGED <<pc, req>> \/ \A q \in Proc : pc'[q] = "idle"
    BY <1>2, BackgroundLeaves DEF Crash, vars
  <2>2. \A q \in Proc : Admits(q) BY <2>1 DEF Admits, Creating
  <2>3. sweep.cur \in Sid BY <1>0 DEF TypeOK, SweepState
  <2>4. RowsMove
    BY <1>2, <2>3 DEF RowsMove, Background, Crash, vars, CleanupStale, SweepList, SweepPart, SweepRow,
       SweepCut, DeleteRow, PruneOrphans, PruneList, PruneIds, PruneRemove, Unlink, GoStale, GoQuiet, rows
  <2> QED BY <2>1, <2>2, <2>4 DEF Alone
<1> QED BY <1>1, <1>2, NextSplits

LEMMA CapKept ==
  ASSUME IInv, Order, Cap, [Next]_vars
  PROVE  Cap'
<1>0. TypeOK /\ TypeOK' BY StepTyped DEF IInv
<1>1. (\A q \in Proc : MovesAt(q)) /\ Shares BY StepMoves DEF Order
<1>2. (\A q \in Proc : Admits(q)) /\ RowsMove /\ Alone BY StepReserves
<1>3. IsFiniteSet(open') BY <1>2, FS_AddElement, FS_RemoveElement DEF RowsMove, Adds, Cap
<1>4. ASSUME NEW p \in Proc, NEW q \in Proc, pc'[p] \in Creating, pc'[q] \in Creating
      PROVE  p = q
  BY <1>2, <1>4 DEF Admits, Alone, Cap, CreateMuFree, Creating
<1> DEFINE before == SumOver(Sizes, open)
           after == SumOver(Sizes', open')
<1>5. \A s \in open : Sizes[s] = Sizes'[s] /\ Sizes[s] \in Nat
  BY <1>0, <1>1, SettledKept, RowSettled, SizesNatural DEF Sizes, TypeOK
<1>6. before \in Nat /\ before = SumOver(Sizes', open)
  BY <1>5, SumNat, SumAgree DEF Cap
<1>7. CASE open' = open \/ \E x \in Sid : open' = open \ {x}
  <2>1. after \in Nat /\ after <= before
    BY <1>3, <1>5, <1>6, <1>7, SumShrinks, SumNat DEF Cap
  <2>2. ASSUME MaxReserved # 0, NEW p \in Proc, pc'[p] = "c_insert"
        PROVE  after + req'[p].file.size <= MaxReserved
    <3>1. req'[p].file = req[p].file /\ req[p].file.size \in Nat
      BY <1>0, <1>2, <2>2, SizesAreNatural DEF Admits, TypeOK, Request
    <3>2. before + req[p].file.size <= MaxReserved
      BY <1>0, <1>2, <2>2, ReservedIsSum DEF Admits, Cap, ReserveFits
    <3> QED BY <1>6, <2>1, <3>1, <3>2, CapIsNatural
  <2>3. MaxReserved # 0 => after <= MaxReserved BY <1>6, <2>1, CapIsNatural DEF Cap
  <2> QED BY <1>3, <1>4, <2>2, <2>3 DEF Cap
<1>8. CASE \E p \in Proc : Adds(p)
  <2>1. PICK p \in Proc : Adds(p) BY <1>8
  <2>2. Sizes'[req[p].sid] = req[p].file.size /\ req[p].file.size \in Nat
    BY <1>0, <2>1, SizesAreNatural DEF Adds, Sizes, TypeOK, Request
  <2>3. after = req[p].file.size + before
    <3>1. \A x \in open \cup {req[p].sid} : Sizes'[x] \in Nat BY <1>5, <2>2
    <3>2. IsFiniteSet(open) /\ req[p].sid \notin open /\ open' = open \cup {req[p].sid}
      BY <2>1 DEF Adds, Cap
    <3>3. SumOver(Sizes', open \cup {req[p].sid}) = Sizes'[req[p].sid] + SumOver(Sizes', open)
      BY <3>1, <3>2, SumAdd
    <3> QED BY <1>6, <2>2, <3>2, <3>3
  <2>4. \A q \in Proc : pc'[q] \notin Creating
    <3>1. pc[p] \in Creating /\ pc'[p] # pc[p] BY <2>1 DEF Adds, Creating
    <3>2. \A q \in Proc : pc'[q] \in Creating => pc[q] \in Creating
      BY <1>2, <3>1 DEF Admits, CreateMuFree
    <3>3. \A q \in Proc : pc[q] \in Creating => q = p BY <3>1 DEF Cap
    <3> QED BY <2>1, <3>2, <3>3 DEF Adds
  <2>5. MaxReserved # 0 => after <= MaxReserved BY <1>6, <2>1, <2>2, <2>3 DEF Adds, Cap
  <2> QED BY <1>3, <1>4, <2>4, <2>5 DEF Cap, Creating
<1> QED BY <1>2, <1>7, <1>8 DEF RowsMove

LEMMA CapInit == Init => Cap
  BY SumEmpty, FS_EmptySet, CapIsNatural DEF Init, Cap, Creating

\* The declared sizes of the open sessions never exceed the cap, however many
\* creations, deletions and crashes interleave (ReservedUnderCap).
THEOREM ReservationsUnderCap == Spec => []ReservedUnderCap
<1>1. IInv /\ Order /\ Cap /\ [Next]_vars => Cap' BY CapKept
<1>2. IInv /\ Cap => ReservedUnderCap BY ReservedIsSum DEF IInv, Cap, ReservedUnderCap
<1> QED BY <1>1, <1>2, CapInit, OrderInv, PTL DEF Spec

=============================================================================
