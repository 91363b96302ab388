------------------------------ MODULE MCLinks ------------------------------
(* A small instance of Links for TLC.                                      *)
EXTENDS Links

CONSTANTS d1, d2

\* A folder of the base with an item of the same name, another name for the
\* folder, and the folder another disk is mounted at.
MCPaths == {<<"a">>, <<"a", "a">>, <<"b">>, <<"c">>}
MCDisk == <<"b">>

\* At first the folder has its file, or is not there.
FewTrees ==
  left = Budget =>
    /\ at[<<"b">>] = d1
    /\ at[<<"a">>] \in {None, d2}
    /\ at[<<"a">>] = d2 => at[<<"a", "a">>] \in Files
    /\ at[<<"c">>] = None

\* The links that are asked for: a drop link, which has the slug and is not for
\* the disk itself, or a reading link without it; at once, two drop links.
FewRequests ==
  LET active == {c \in Creators : cr[c].pc # "idle"} IN
  /\ \A c \in active :
       /\ cr[c].p \in Under(<<"a">>) \cup {Disk}
       /\ IF cr[c].mode = "drop" THEN cr[c].slug # NoSlug /\ cr[c].p # Disk
          ELSE cr[c].slug = NoSlug
  /\ active = Creators => \A c \in active : cr[c].mode = "drop"

MCBudget == [create |-> 2, operate |-> 1, outside |-> 2]

\* At most two requests and rounds are under way, and visitors come when none
\* is: they meet what other programs do, in one step each.
Active ==
  Cardinality({c \in Creators : cr[c].pc # "idle"})
    + Cardinality({p \in {"op", "sw", "rev"} :
         \/ p = "op" /\ op.pc # "idle"
         \/ p = "sw" /\ sw.pc # "idle"
         \/ p = "rev" /\ rev.pc # "idle"})
FewActive == Active <= IF vis.pc = "idle" THEN 2 ELSE 0

\* The request on an item comes with at most one outside change.
FewChanges == left.operate + left.outside >= 1

\* The folder's name has folders, the name in it files, and only that folder
\* takes the other name.
OneFolder ==
  /\ at[<<"a">>] \notin Files
  /\ at[<<"a", "a">>] \notin Dirs
  /\ at[<<"c">>] # None => at[<<"c">>] = d2 /\ at[<<"a">>] = None

Small == OneFolder /\ FewChanges /\ FewTrees /\ FewActive /\ FewRequests

=============================================================================
