---------------------------- MODULE MCNameIndex ----------------------------
(* A small instance of NameIndex for TLC.                                  *)
EXTENDS NameIndex

\* Two folders with a file of the same name in each.
MCPaths == {<<"a">>, <<"a", "f">>, <<"b">>, <<"b", "f">>}
MCBudget == [upload |-> 1, change |-> 1, outside |-> 1, failure |-> 1]

\* Folders stay folders and files files, and only what is moved comes to b.
Shape ==
  /\ disk[<<"a">>] \in {Nil, Dir}
  /\ disk[<<"a", "f">>] # Dir
  /\ left.change = 1 => disk[<<"b">>] = Nil
  /\ disk[<<"b">>] \in {Nil, Dir} /\ disk[<<"b", "f">>] # Dir

\* Two changes happen, or one and a failure, and at most two of the scan, the
\* hooks and the two requests are under way.
FewChanges == left.upload + left.change + left.outside + left.failure >= 2
FewActive ==
  Cardinality({r \in Requests : req[r] # Idle})
    + (IF scan = Idle THEN 0 ELSE 1) + (IF hooks = {} THEN 0 ELSE 1) <= 2

\* The first request uploads, the second one looks at the usage.
Roles == (req[1] # Idle => req[1].p # <<>>) /\ (req[2] # Idle => req[2].p = <<>>)

Small == Shape /\ FewChanges /\ FewActive /\ Roles

=============================================================================
