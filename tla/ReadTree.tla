------------------------------ MODULE ReadTree ------------------------------
(* The folder that zips, thumbnails and analyses read, as it changes while  *)
(* they read it.  The changes are the requests of other users and the       *)
(* programs of the host: no reader locks anything.                          *)
EXTENDS Integers, Sequences, SequencesExt, FiniteSets

CONSTANTS
  Paths,      \* paths below the root: sequences of names; a name is a number
  Sizes,      \* sizes of files
  MaxChanges, \* how often the folder changes
  None,       \* nothing at a path
  Dir         \* a folder at a path

ASSUME PathsAssumption ==
  \A p \in Paths : p \in Seq(Nat \ {0}) /\ p # <<>> /\ \A n \in 1..Len(p) : SubSeq(p, 1, n) \in Paths
ASSUME SizesAssumption == Sizes \subseteq Nat /\ MaxChanges \in Nat
ASSUME FiniteAssumption == IsFiniteSet(Paths)
ASSUME MarksAssumption == None # Dir /\ None \notin Nat

VARIABLES
  tree,       \* what is at each path
  changed,    \* how often it changed; the source of fresh inodes and versions
  stay        \* paths whose item is what it was when the readers began

treeVars == <<tree, changed, stay>>

Parent(p) == SubSeq(p, 1, Len(p) - 1)
Below(f, p) == Len(f) < Len(p) /\ SubSeq(p, 1, Len(f)) = f
At(f) == IF f = <<>> THEN Dir ELSE tree[f]
IsFile(p) == At(p) \notin {None, Dir}

\* A file has an inode, and a version that its size and time of modification
\* tell apart from the others.
File(id, ver, size) == [id |-> id, ver |-> ver, size |-> size]

TreeInit ==
  /\ tree \in {t \in [Paths -> {None, Dir} \cup {File(0, 0, size) : size \in Sizes}] :
       \A p \in Paths : t[p] # None /\ Len(p) > 1 => t[Parent(p)] = Dir}
  /\ changed = 0
  /\ stay = Paths

TreeTypeOK ==
  /\ stay \subseteq Paths /\ changed \in 0..MaxChanges
  /\ \A p \in Paths : tree[p] # None => At(Parent(p)) = Dir

ChangeTo(t, touched) ==
  /\ changed < MaxChanges
  /\ changed' = changed + 1
  /\ tree' = t
  /\ stay' = stay \ touched

\* A file is written in place, or another one is put there.
Write == \E p \in Paths, size \in Sizes :
  /\ At(Parent(p)) = Dir /\ tree[p] # Dir
  /\ \E id \in {changed + 1} \cup {tree[p].id : q \in {q \in {p} : IsFile(q)}} :
       ChangeTo([tree EXCEPT ![p] = File(id, changed + 1, size)], {p})

Mkdir == \E p \in Paths :
  /\ At(Parent(p)) = Dir /\ tree[p] = None
  /\ ChangeTo([tree EXCEPT ![p] = Dir], {p})

Delete == \E p \in Paths :
  /\ tree[p] # None
  /\ LET gone == {q \in Paths : q = p \/ Below(p, q)} IN
     ChangeTo([q \in Paths |-> IF q \in gone THEN None ELSE tree[q]], gone)

\* A file is renamed.
Rename == \E p, q \in Paths :
  /\ IsFile(p) /\ At(Parent(q)) = Dir /\ tree[q] = None
  /\ ChangeTo([tree EXCEPT ![p] = None, ![q] = tree[p]], {p, q})

Change == Write \/ Mkdir \/ Delete \/ Rename

-----------------------------------------------------------------------------
(* walk: paths to visit, in order, each with the path asked for it is      *)
(* below.                                                                  *)

\* ZipOrder: folder by folder, not as the names are spelled.
Before(a, b) ==
  \/ Len(a) < Len(b) /\ SubSeq(b, 1, Len(a)) = a
  \/ \E i \in 1..Len(a) : /\ i <= Len(b) /\ a[i] < b[i]
                          /\ SubSeq(a, 1, i - 1) = SubSeq(b, 1, i - 1)

Sorted(S, Less(_, _)) ==
  CHOOSE s \in [1..Cardinality(S) -> S] : \A i, j \in DOMAIN s : i < j => Less(s[i], s[j])

\* walkDir: the entries of a folder, by name.
Listed(f) == Sorted({p \in Paths : Parent(p) = f /\ tree[p] # None}, Before)

\* What remains to be visited after the first path.
Rest(todo) ==
  LET here == Head(todo)
      inside == IF At(here.path) = Dir THEN Listed(here.path) ELSE <<>>
  IN [i \in 1..Len(inside) |-> [top |-> here.top, path |-> inside[i]]] \o Tail(todo)

\* A path asked for that is gone fails the whole walk; another one is left out.
Fails(here) == here.path = here.top /\ At(here.path) = None

=============================================================================
