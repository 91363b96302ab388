--------------------------- MODULE MCUploadClient ---------------------------
(* Small instances of UploadClient for TLC.                                *)
EXTENDS UploadClient, TLC

CONSTANTS s1, s2, o1, o2, MaxExtras

MCChunks == 0 .. 1
MCSid == {s1, s2}
MCObj == {o1, o2}
Symmetry == Permutations(MCSid) \cup Permutations(MCObj)

Flag(b) == IF b THEN 1 ELSE 0

Second == \E i \in Item : i # 1 /\ item[i].state # "absent"

\* At most MaxExtras of these at a time: a dialog that waits, an abort on its
\* way, an answer given to all, sessions of an earlier visit, a pause, a second
\* file. A cancelled item is not sent again while its dialog is still open, and
\* only the first attempt since the last answer meets a name that is taken.
FewExtras ==
  /\ Len(asks) + Cardinality(aborts) + Flag(preset # None) + Cardinality(pending)
       + Flag(paused) + Flag(Second) <= MaxExtras
  /\ asks # <<>> => item[Head(asks).item].state \in {"conflict", "cancelled"}
  /\ \A i \in taken : item[i].attempts <= 1

\* The second file competes for the slots with a first one that meets no error.
Calm ==
  Second => /\ \A i \in Item : item[i].state \in {"absent", "queued", "uploading", "done", "failed"}
            /\ \A w \in Slot : slot[w].answer \in {"none", "ok"} \/ slot[w].at = "single"
            /\ \A s \in Sid : Open(s) => sess[s].part
            /\ \A i \in Item : ~item[i].over
=============================================================================
