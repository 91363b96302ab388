------------------------------- MODULE MCTrash -------------------------------
(* Small instances of Trash for TLC.                                       *)
EXTENDS Trash, TLC

CONSTANTS d1, d2, MaxActive

OneFile == {<<"a", 1>>}
ThreeFiles == {<<"a", 1>>, <<"a", 2>>, <<"b", 1>>}
Symmetry == Permutations(Id)

\* At most MaxActive workers are under way.
FewActive == Cardinality({w \in Worker : ~At(w, "idle")}) <= MaxActive

\* The columns and ghosts of an id without a row decide nothing any more.
Kept == {d \in Id : row[d] # "none"}
Busy == Kept \cup queue \cup (Id \cap there) \cup {wk[w].id : w \in {v \in Worker : ~At(v, "idle")}}
LiveView ==
  <<disk, row, [d \in Busy |-> origin[d]], {d \in old : row[d] = "pending"}, wk, queue,
    [d \in Kept \ disturbed |-> taken[d]], disturbed \cap Kept, born>>
=============================================================================
