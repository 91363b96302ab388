------------------------- MODULE MCUploadSessions -------------------------
(* Small instances of UploadSessions for TLC: one .cfg per question, each  *)
(* with the sets below that make its interesting cases happen.             *)
EXTENDS UploadSessions, TLC

CONSTANTS me, visitor, n1, n2, p1, p2, s1, s2, MaxActive

MCProc == {p1, p2}
OneSid == {s1}
TwoSids == {s1, s2}

Plain(n) == [size |-> n, mtime |-> NoMtime]

\* Files of up to three chunks, of one.
ChunkedFile == {Plain(n) : n \in 0 .. 3}
OneFile == {Plain(1)}

Symmetry == Permutations(MCProc) \cup Permutations(TwoSids)

Flag(b) == IF b THEN 1 ELSE 0

\* At most MaxActive of the handlers and background tasks are under way.
FewActive ==
  Cardinality({p \in Proc : pc[p] # "idle"})
    + Flag(sweep.pc # "idle") + Flag(prune.pc # "idle") <= MaxActive

\* No part is left alone for OrphanGrace: PruneOrphans finds nothing to do.
NoGrace == FewActive /\ quiet = {}

\* What the columns of an id without a row, a name or a handler hold decides
\* nothing any more: two states that differ only there are the same.
Remembered ==
  open \cup parts \cup (Sid \cap Range(file)) \cup sweep.todo \cup prune.todo
    \cup {req[p].sid : p \in {q \in Proc : pc[q] # "idle"}}

\* A folder is used in one of two ways.
\*  - By its account alone, under one name: either every file is of one chunk,
\*    and clients overwrite, send files in single requests and leave parts
\*    alone, one at a time; or one file is of two chunks, and none of that
\*    happens.
\*  - By its account and a visitor of its link, under two names: sessions are
\*    created up to the cap, completed when empty and aborted, and no chunk is
\*    sent.
Asking == {p \in Proc : pc[p] # "idle"}
Writing == {"p_copy", "p_look", "p_pub", "p_rename", "p_unlink", "p_undo"}

\* Ids whose columns were written, and what they and new requests declare.
Unborn == {p \in Proc : pc[p] \in {"c_lock"} \cup Creating}
Known == (used \cap Remembered) \ {req[p].sid : p \in Unborn}
Declared ==
  {meta[s] : s \in Known} \cup {req[p] : p \in Unborn \cup {q \in Proc : pc[q] \in {"c_part", "c_undo"}}}

Long == {s \in Known : meta[s].file.size > 1}
OneChunk ==
  /\ Long = {} /\ Cardinality(quiet \cap parts) <= 1
  /\ \A p \in Asking : req[p].file.size < 2
TwoChunks ==
  /\ NoGrace /\ Cardinality(Long) <= 1
  /\ \A p \in Asking : ~req[p].over /\ pc[p] \notin Writing
  /\ \A s \in Known : ~meta[s].over

ByAccount ==
  /\ file[n2] = Absent
  /\ \A p \in Asking : req[p].who = me
  /\ \A d \in Declared : d.who = me /\ d.name = n1 /\ d.file.size \in {1, 2}

Admission ==
  /\ NoGrace /\ stale = {} /\ sweep.pc = "idle" /\ prune.pc = "idle"
  /\ \A n \in Name : file[n] # Foreign
  /\ \A s \in Known : bytes[s] = {}
  /\ \A p \in Asking : pc[p] \notin Writing \cup ChunkInFlight
  /\ \A d \in Declared :
       /\ ~d.over /\ d.file.size \in {0, 3}
       /\ d.who = visitor => d.name = n1 /\ d.file.size = 0

Folder == FewActive /\ ((ByAccount /\ (OneChunk \/ TwoChunks)) \/ Admission)

LiveView ==
  <<pc, req, open, received, stale, used, parts, quiet \cap parts, file,
    [s \in Sid |-> IF \E p \in Proc : pc[p] \in {"w_lock", "f_lock"} \cup InSession /\ req[p].sid = s
                   THEN locks[s] ELSE AnyMutex],
    sweep, prune,
    [s \in Remembered |-> <<meta[s], bytes[s]>>]>>
=============================================================================
