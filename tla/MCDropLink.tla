----------------------------- MODULE MCDropLink -----------------------------
(* Small instances of DropLink for TLC.                                    *)
EXTENDS DropLink, Functions, TLC

CONSTANTS p1, p2, s1, s2, MaxActive

MCProc == {p1, p2}
TwoSids == {s1, s2}
Symmetry == Permutations(MCProc) \cup Permutations(Sid) \cup Permutations(Sender)

Flag(b) == IF b THEN 1 ELSE 0

\* At most MaxActive requests, sweeps and revocations are under way.
FewActive ==
  Cardinality({p \in Proc : pc[p] # "idle"})
    + Flag(reaper["sweep"].pc # "idle") + Flag(reaper["owner"].pc # "idle") <= MaxActive

\* Everybody asks for the first name, so that the others are its variants, and
\* the owner only ever takes that one. A single request sends the smallest size:
\* what a larger one leaves behind, a completed session of that size leaves too.
\* The owner takes one published file away.
SameName ==
  /\ FewActive
  /\ \A p \in Proc : req[p].put => req[p].size = Min(Size)
  /\ Cardinality(shown \ Range(file)) <= 1
  /\ \A n \in Name \ {Min(Name)} : file[n] # Foreign
  /\ \A p \in Proc : pc[p] \in {"a_lock", "a_receipts", "a_sessions"} => req[p].want = Min(Name)

\* The columns of an id without a row or a request decide nothing any more, but
\* for the size of a receipt; nor does the sender of a single request that was
\* admitted.
Used == {req[p].sid : p \in {q \in Proc : pc[q] # "idle"}}
Admitted(p) == req[p].put /\ pc[p] \notin {"a_lock", "a_receipts", "a_sessions"}

LiveView ==
  <<alive, pc, open, parts, file, shown, late, booked, reaper,
    [p \in Proc |-> <<[req[p] EXCEPT !.who = NoMeta.who], Admitted(p) \/ req[p].who = NoMeta.who>>],
    [s \in open |-> meta[s]],
    [s \in Receipts \cup Used |-> <<meta[s].name, meta[s].size>>],
    {s \in loose : \E p \in Proc : pc[p] \in {"f_lock"} \cup Finalizing /\ req[p].sid = s}>>
=============================================================================
