------------------------------- MODULE MCJobs -------------------------------
(* Small instances of Jobs for TLC.                                        *)
EXTENDS Jobs, Integers, FiniteSets, TLC

CONSTANTS MaxStarted, a1, a2

Archives == {a1, a2}

\* MaxStarted jobs are ever started, of any types, and the second archive only
\* after the first, which is like it. Only starts are cut away.
FewStarted ==
  /\ Cardinality({j \in Job : pc[j] # "new"}) <= MaxStarted
  /\ a2 \in Job => (pc[a2] # "new" => pc[a1] # "new")

\* What nothing reads any more: the result and the name of a job once its rows
\* are gone, the entries of a folder that is gone.
Present(S) == {j \in S : pc[j] # "over" \/ \E n \in Name : placed[n] = j}
LiveView ==
  <<pc, [j \in Job |-> IF pc[j] \in {"unguard", "finish", "persist"} THEN result[j] ELSE "done"],
    [j \in Job |-> IF pc[j] \in {"guard", "open", "work", "publish", "undo"} THEN target[j] ELSE AnyName],
    tick, state, told, cleanup, placed, zip, temp, Present(filled), Present(whole), mounted, rec>>
=============================================================================
