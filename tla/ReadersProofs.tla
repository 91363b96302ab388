--------------------------- MODULE ReadersProofs ----------------------------
(***************************************************************************)
(* Theorems about Readers, for every set of paths, viewers and askers, and *)
(* every bound.                                                            *)
(***************************************************************************)
EXTENDS Readers, SequenceTheorems, SumTheorems

-----------------------------------------------------------------------------
(* Paths.                                                                  *)

LEMMA PathIs ==
  ASSUME NEW p \in Paths
  PROVE  /\ p \in Seq(Nat) /\ Len(p) \in Nat /\ Len(p) > 0
         /\ \A i \in 1..Len(p) : p[i] \in Nat
         /\ p # <<>>
<1>1. p \in Seq(Nat \ {0}) /\ p # <<>> BY PathsAssumption
<1> QED BY <1>1, EmptySeq

\* The first n names of a path.
LEMMA PrefixIs ==
  ASSUME NEW p \in Seq(Nat), NEW n \in 0..Len(p)
  PROVE  /\ SubSeq(p, 1, n) \in Seq(Nat) /\ Len(SubSeq(p, 1, n)) = n
         /\ \A i \in 1..n : SubSeq(p, 1, n)[i] = p[i]
<1>1. n \in Int /\ Len(p) \in Nat /\ \A i \in 1..n : p[i] \in Nat OBVIOUS
<1> QED BY <1>1, SubSeqProperties

LEMMA PrefixAt ==
  ASSUME NEW a \in Seq(Nat), NEW b \in Seq(Nat), Len(a) <= Len(b)
  PROVE  SubSeq(b, 1, Len(a)) = a <=> \A i \in 1..Len(a) : b[i] = a[i]
<1>1. Len(a) \in 0..Len(b) OBVIOUS
<1>2. /\ SubSeq(b, 1, Len(a)) \in Seq(Nat) /\ Len(SubSeq(b, 1, Len(a))) = Len(a)
      /\ \A i \in 1..Len(a) : SubSeq(b, 1, Len(a))[i] = b[i]
  BY <1>1, PrefixIs
<1> QED BY <1>2, SeqEqual

LEMMA BelowAt ==
  ASSUME NEW a \in Seq(Nat), NEW b \in Seq(Nat)
  PROVE  Below(a, b) <=> Len(a) < Len(b) /\ \A i \in 1..Len(a) : b[i] = a[i]
  BY PrefixAt DEF Below

LEMMA ParentIs ==
  ASSUME NEW p \in Paths
  PROVE  /\ Parent(p) \in Paths \cup {<<>>} /\ Parent(p) \in Seq(Nat)
         /\ Len(Parent(p)) = Len(p) - 1
         /\ \A i \in 1..Len(p) - 1 : Parent(p)[i] = p[i]
         /\ Below(Parent(p), p)
<1>1. p \in Seq(Nat) /\ Len(p) \in Nat /\ Len(p) > 0 BY PathIs
<1>2. /\ Parent(p) \in Seq(Nat) /\ Len(Parent(p)) = Len(p) - 1
      /\ \A i \in 1..Len(p) - 1 : Parent(p)[i] = p[i]
  <2> DEFINE n == Len(p) - 1
  <2>1. n \in 0..Len(p) BY <1>1
  <2> QED BY <1>1, <2>1, PrefixIs DEF Parent
<1>3. Parent(p) \in Paths \cup {<<>>}
  <2>1. CASE Len(p) <= 1
    <3>1. Len(Parent(p)) = 0 BY <1>1, <1>2, <2>1
    <3> QED BY <1>2, <3>1, EmptySeq
  <2>2. CASE Len(p) > 1
    <3> DEFINE n == Len(p) - 1
    <3>1. n \in 1..Len(p) BY <1>1, <2>2
    <3>2. SubSeq(p, 1, n) \in Paths
      <4> HIDE DEF n
      <4> QED BY <3>1, PathsAssumption
    <3> QED BY <3>2 DEF Parent
  <2> QED BY <1>1, <2>1, <2>2
<1>4. Len(Parent(p)) < Len(p) /\ \A i \in 1..Len(Parent(p)) : p[i] = Parent(p)[i] BY <1>1, <1>2
<1>5. Below(Parent(p), p) BY <1>1, <1>2, <1>4, BelowAt
<1> QED BY <1>1, <1>2, <1>3, <1>5

LEMMA NodeIs == \A f \in Paths \cup {<<>>} : f \in Seq(Nat) /\ Len(f) \in Nat
  BY PathIs, EmptySeq

\* What is below a path has its folder there, or is in it.
LEMMA ParentBelow ==
  ASSUME NEW f \in Seq(Nat), NEW p \in Paths, Below(f, p)
  PROVE  Parent(p) = f \/ Below(f, Parent(p))
<1>1. p \in Seq(Nat) /\ Len(p) \in Nat BY PathIs
<1>2. Len(f) < Len(p) /\ \A i \in 1..Len(f) : p[i] = f[i] BY <1>1, BelowAt
<1>3. /\ Parent(p) \in Seq(Nat) /\ Len(Parent(p)) = Len(p) - 1
      /\ \A i \in 1..Len(p) - 1 : Parent(p)[i] = p[i]
  BY ParentIs
<1>4. CASE Len(f) = Len(p) - 1
  <2>1. \A i \in 1..Len(f) : Parent(p)[i] = f[i] BY <1>1, <1>2, <1>3, <1>4
  <2>2. Len(Parent(p)) = Len(f) BY <1>3, <1>4
  <2> QED BY <1>3, <2>1, <2>2, SeqEqual
<1>5. CASE Len(f) < Len(p) - 1
  <2>1. \A i \in 1..Len(f) : Parent(p)[i] = f[i] BY <1>1, <1>2, <1>3, <1>5
  <2>2. Len(f) < Len(Parent(p)) BY ONLY <1>3, <1>5
  <2> QED BY <1>3, <2>1, <2>2, BelowAt
<1> QED BY <1>1, <1>2, <1>4, <1>5

LEMMA BelowTransitive ==
  ASSUME NEW a \in Seq(Nat), NEW b \in Seq(Nat), NEW c \in Seq(Nat), Below(a, b), Below(b, c)
  PROVE  Below(a, c)
<1>1. Len(a) < Len(b) /\ \A i \in 1..Len(a) : b[i] = a[i] BY BelowAt
<1>2. Len(b) < Len(c) /\ \A i \in 1..Len(b) : c[i] = b[i] BY BelowAt
<1>3. \A i \in 1..Len(a) : c[i] = a[i] BY <1>1, <1>2
<1>4. Len(a) < Len(c) BY <1>1, <1>2
<1> QED BY <1>3, <1>4, BelowAt

-----------------------------------------------------------------------------
(* The folder.                                                             *)

Files == [id : Nat, ver : Nat, size : Sizes]

TreeTyped ==
  /\ tree \in [Paths -> {None, Dir} \cup Files]
  /\ changed \in Nat /\ changed <= MaxChanges
  /\ stay \subseteq Paths
  /\ \A p \in Paths : tree[p] # None => At(Parent(p)) = Dir

LEMMA AtIs == ASSUME NEW p \in Paths PROVE At(p) = tree[p]
  BY PathIs DEF At

LEMMA FileIs == ASSUME TreeTyped, NEW p \in Paths, IsFile(p) PROVE tree[p] \in Files
  BY AtIs DEF TreeTyped, IsFile

\* No item is below what is no folder.
LEMMA NothingBelow ==
  ASSUME TreeTyped, NEW p \in Paths, NEW q \in Paths, Parent(q) = p, tree[p] # Dir
  PROVE  tree[q] = None
  BY AtIs DEF TreeTyped

\* A changed folder is a tree.
LEMMA ChangeTyped == ASSUME TreeTyped, Change PROVE TreeTyped'
<1> USE DEF TreeTyped, ChangeTo
<1>t. ASSUME NEW t, NEW touched, ChangeTo(t, touched), t \in [Paths -> {None, Dir} \cup Files],
             \A p \in Paths : t[p] # None => Parent(p) = <<>> \/ t[Parent(p)] = Dir
      PROVE  TreeTyped'
  <2>1. changed' \in Nat /\ changed' <= MaxChanges /\ stay' \subseteq Paths
    BY <1>t, SizesAssumption
  <2>2. tree' = t BY <1>t
  <2> QED BY <1>t, <2>1, <2>2 DEF At
<1>f. \A p \in Paths : /\ Parent(p) \in Paths \cup {<<>>} /\ Parent(p) # p
                       /\ At(Parent(p)) = Dir <=> (Parent(p) = <<>> \/ tree[Parent(p)] = Dir)
  <2> TAKE p \in Paths
  <2>1. Len(Parent(p)) = Len(p) - 1 /\ Len(p) \in Nat BY ParentIs, PathIs
  <2> QED BY <2>1, ParentIs DEF At
<1>1. CASE Write
  <2>1. PICK p \in Paths, size \in Sizes :
          /\ At(Parent(p)) = Dir /\ tree[p] # Dir
          /\ \E id \in {changed + 1} \cup {tree[p].id : q \in {q \in {p} : IsFile(q)}} :
               ChangeTo([tree EXCEPT ![p] = File(id, changed + 1, size)], {p})
    BY <1>1 DEF Write
  <2>2. PICK id \in {changed + 1} \cup {tree[p].id : q \in {q \in {p} : IsFile(q)}} :
          ChangeTo([tree EXCEPT ![p] = File(id, changed + 1, size)], {p})
    BY <2>1
  <2>3. id \in Nat
    <3>1. CASE id = changed + 1 BY <3>1
    <3>2. CASE IsFile(p) /\ id = tree[p].id BY <3>2, FileIs DEF Files
    <3> QED BY <3>1, <3>2
  <2>4. File(id, changed + 1, size) \in Files BY <2>3 DEF File, Files
  <2> DEFINE t == [tree EXCEPT ![p] = File(id, changed + 1, size)]
  <2>5. t \in [Paths -> {None, Dir} \cup Files] BY <2>4
  <2>6. ASSUME NEW q \in Paths, t[q] # None PROVE Parent(q) = <<>> \/ t[Parent(q)] = Dir
    <3>1. CASE q = p BY <1>f, <2>1, <3>1
    <3>2. CASE q # p
      <4>1. tree[q] # None BY <2>6, <3>2
      <4>2. Parent(q) # p BY <2>1, <4>1, NothingBelow
      <4> QED BY <1>f, <4>1, <4>2
    <3> QED BY <3>1, <3>2
  <2> HIDE DEF t
  <2> QED BY <1>t, <2>2, <2>5, <2>6 DEF t
<1>2. CASE Mkdir
  <2>1. PICK p \in Paths : At(Parent(p)) = Dir /\ tree[p] = None /\ ChangeTo([tree EXCEPT ![p] = Dir], {p})
    BY <1>2 DEF Mkdir
  <2> DEFINE t == [tree EXCEPT ![p] = Dir]
  <2>2. t \in [Paths -> {None, Dir} \cup Files] OBVIOUS
  <2>3. ASSUME NEW q \in Paths, t[q] # None PROVE Parent(q) = <<>> \/ t[Parent(q)] = Dir
    BY <1>f, <2>1, <2>3
  <2> HIDE DEF t
  <2> QED BY <1>t, <2>1, <2>2, <2>3 DEF t
<1>3. CASE Delete
  <2>1. PICK p \in Paths :
          LET gone == {q \in Paths : q = p \/ Below(p, q)} IN
          ChangeTo([q \in Paths |-> IF q \in gone THEN None ELSE tree[q]], gone)
    BY <1>3 DEF Delete
  <2> DEFINE gone == {q \in Paths : q = p \/ Below(p, q)}
             t == [q \in Paths |-> IF q \in gone THEN None ELSE tree[q]]
  <2>2. t \in [Paths -> {None, Dir} \cup Files] OBVIOUS
  <2>3. ASSUME NEW q \in Paths, t[q] # None PROVE Parent(q) = <<>> \/ t[Parent(q)] = Dir
    <3>1. q \notin gone /\ tree[q] # None BY <2>3
    <3>2. Parent(q) \notin gone
      <4>1. p \in Seq(Nat) /\ q \in Seq(Nat) /\ Parent(q) \in Seq(Nat) BY PathIs, ParentIs
      <4>2. Below(Parent(q), q) BY ParentIs
      <4> QED BY <3>1, <4>1, <4>2, BelowTransitive
    <3> QED BY <1>f, <3>1, <3>2
  <2> HIDE DEF t
  <2> QED BY <1>t, <2>1, <2>2, <2>3 DEF t
<1>4. CASE Rename
  <2>1. PICK p \in Paths, q \in Paths :
          /\ IsFile(p) /\ At(Parent(q)) = Dir /\ tree[q] = None
          /\ ChangeTo([tree EXCEPT ![p] = None, ![q] = tree[p]], {p, q})
    BY <1>4 DEF Rename
  <2>2. tree[p] # None /\ tree[p] # Dir BY <2>1, AtIs DEF IsFile
  <2> DEFINE t == [tree EXCEPT ![p] = None, ![q] = tree[p]]
  <2>3. t \in [Paths -> {None, Dir} \cup Files] OBVIOUS
  <2>4. ASSUME NEW r \in Paths, t[r] # None PROVE Parent(r) = <<>> \/ t[Parent(r)] = Dir
    <3>1. CASE r = q
      <4>1. Parent(q) # p BY <2>1, <2>2, PathIs, AtIs
      <4> QED BY <1>f, <2>1, <3>1, <4>1
    <3>2. CASE r # q
      <4>1. tree[r] # None /\ r # p BY <2>4, <3>2
      <4>2. Parent(r) # p BY <2>2, <4>1, NothingBelow
      <4>3. Parent(r) # q BY <2>1, <4>1, NothingBelow, MarksAssumption
      <4> QED BY <1>f, <4>1, <4>2, <4>3
    <3> QED BY <3>1, <3>2
  <2> HIDE DEF t
  <2> QED BY <1>t, <2>1, <2>3, <2>4 DEF t
<1> QED BY <1>1, <1>2, <1>3, <1>4 DEF Change

\* The readers leave the folder as it is, and changes of the folder leave the
\* readers as they are.
LEMMA TreeSteps ==
  ASSUME [Next]_vars
  PROVE  \/ UNCHANGED <<tree, changed>> /\ (stay' = stay \/ PlanStart)
         \/ Change /\ UNCHANGED <<zipVars, thumbVars, mediaVars>>
<1>1. CASE ZipNext BY <1>1 DEF ZipNext, PlanStart, PlanVisit, PlanEnd, PlanTimeout,
  PartStart, PartFails, PartVisit, PartCopy, PartEnd
<1>2. CASE UNCHANGED treeVars BY <1>2 DEF treeVars
<1> QED BY <1>1, <1>2 DEF Next, vars

LEMMA StepTreeTyped == ASSUME TreeTyped, [Next]_vars PROVE TreeTyped'
<1>1. CASE UNCHANGED <<tree, changed>> /\ (stay' = stay \/ PlanStart)
  BY <1>1 DEF TreeTyped, PlanStart, At
<1> QED BY <1>1, TreeSteps, ChangeTyped

-----------------------------------------------------------------------------
(* Thumbnails.                                                             *)

Making == {"open", "write", "written", "rename", "made", "failed"}
Keyed == Making \cup {"show", "join", "await", "waited"}
Slotted == Keyed \cup {"key", "leave"}
Holders == {v \in Viewers : view[v].pc \in Slotted}
Makers == {v \in Viewers : view[v].pc \in Making}

View == [pc : Slotted \cup {"wait", "sleep"}, path : Paths, ver : Nat,
         key : {None} \cup ((Nat \cup {Dir}) \X Nat), what : Nat \cup {None}, since : Nat]

\* A request knows the version that the file had when it looked at it, and has
\* it as long as the folder did not change since; so has what it decoded.
Sees(d) ==
  d.pc # "idle" =>
    /\ d.since <= changed
    /\ d.since = changed => IsFile(d.path) /\ tree[d.path].ver = d.ver
    /\ d.pc \in Keyed => d.key[2] = d.ver
    /\ d.pc \in {"write", "written", "rename"} =>
         d.what \in Nat /\ (d.since = changed => d.what = d.ver)

\* The temporary file of a key is the work of the one who makes it.
TempIn(files, d) ==
  /\ d.pc = "written" => \A f \in files : f.key = d.key => f.what = Cut
  /\ d.pc = "rename" => \A f \in files : f.key = d.key => f.what = d.what
TempIs(d) == TempIn(temp, d)

ViewOK == view \in [Viewers -> {Idle} \cup View] /\ \A v \in Viewers : Sees(view[v])
MakersOK ==
  /\ making = {view[v].key : v \in Makers}
  /\ \A v, w \in Makers : view[v].key = view[w].key => v = w
SlotsOK == slots = Cardinality(Holders) /\ slots <= Limit
TempOK == \A v \in Viewers : TempIs(view[v])
CacheOK == \A f \in cache : f.what # Cut /\ (f.what = f.key[2] \/ f.key \in crossed)

ThumbInv == ViewOK /\ MakersOK /\ SlotsOK /\ TempOK /\ CacheOK


LEMMA PcIs ==
  ASSUME ViewOK, NEW v \in Viewers
  PROVE  /\ view[v].pc # "idle" => view[v] \in View
         /\ view[v] = Idle \/ view[v] \in View
         /\ view[v].pc = "idle" <=> view[v] = Idle
  BY DEF ViewOK, Idle, View, Slotted, Keyed, Making

\* A step of one request that neither takes nor gives anything up.
LEMMA Moves ==
  ASSUME ThumbInv, UNCHANGED <<tree, changed, slots, making, cache, temp, crossed>>,
         NEW v \in Viewers, NEW d \in {Idle} \cup View,
         view' = [view EXCEPT ![v] = d], Sees(d), TempIs(d),
         d.pc \in Slotted <=> view[v].pc \in Slotted,
         d.pc \in Making <=> view[v].pc \in Making,
         d.pc \in Making => d.key = view[v].key
  PROVE  ThumbInv'
<1> USE DEF ThumbInv
<1>1. ViewOK'
  <2>1. view' \in [Viewers -> {Idle} \cup View] BY DEF ViewOK
  <2>2. \A w \in Viewers : Sees(view[w])' BY DEF ViewOK, Sees, IsFile, At
  <2> QED BY <2>1, <2>2 DEF ViewOK
<1>2. \A w \in Viewers : view'[w] = IF w = v THEN d ELSE view[w] BY DEF ViewOK
<1>3. Holders' = Holders /\ Makers' = Makers BY <1>2 DEF Holders, Makers
<1>4. \A w \in Makers : view'[w].key = view[w].key BY <1>2 DEF Makers
<1>5. MakersOK' BY <1>3, <1>4 DEF MakersOK
<1>6. SlotsOK' BY <1>3 DEF SlotsOK
<1>7. TempOK' BY <1>2 DEF TempOK, TempIs, TempIn
<1>8. CacheOK' BY DEF CacheOK
<1> QED BY <1>1, <1>5, <1>6, <1>7, <1>8

LEMMA ViewStartInv == ASSUME TreeTyped, ThumbInv, NEW v \in Viewers, ViewStart(v), UNCHANGED treeVars PROVE ThumbInv'
<1>1. PICK p \in Paths :
        /\ IsFile(p)
        /\ view' = [view EXCEPT ![v] =
            [pc |-> "wait", path |-> p, ver |-> tree[p].ver, key |-> None, what |-> None,
             since |-> changed]]
  BY DEF ViewStart
<1> DEFINE d == [pc |-> "wait", path |-> p, ver |-> tree[p].ver, key |-> None, what |-> None,
                 since |-> changed]
<1>2. d \in View BY <1>1, FileIs DEF View, Files, TreeTyped
<1>3. Sees(d) /\ TempIs(d) BY <1>1 DEF Sees, TempIs, TempIn, TreeTyped, Keyed, Making
<1>4. view[v].pc = "idle" BY DEF ViewStart, Idle
<1>5. d.pc = "wait" OBVIOUS
<1> HIDE DEF d
<1> QED BY <1>1, <1>2, <1>3, <1>4, <1>5, Moves DEF d, Slotted, Keyed, Making, ViewStart, treeVars

\* The step to another place with nothing taken.
LEMMA Goes ==
  ASSUME ThumbInv, UNCHANGED <<treeVars, slots, making, cache, temp, crossed>>,
         NEW v \in Viewers, NEW to \in Slotted \cup {"wait", "sleep"}, Goto(v, to), view[v].pc # "idle",
         to \in Slotted <=> view[v].pc \in Slotted,
         to \in Making <=> view[v].pc \in Making,
         to \in Keyed => view[v].pc \in Keyed,
         to \notin {"write", "written", "rename"}
  PROVE  ThumbInv'
<1> DEFINE d == [view[v] EXCEPT !.pc = to]
<1>1. view[v] \in View /\ Sees(view[v]) BY PcIs DEF ThumbInv, ViewOK
<1>2. d \in View /\ d.pc = to /\ d.key = view[v].key /\ d.path = view[v].path
      /\ d.ver = view[v].ver /\ d.since = view[v].since
  BY <1>1 DEF View
<1>3. Sees(d) /\ TempIs(d) BY <1>1, <1>2 DEF Sees, TempIs, TempIn
<1>4. view' = [view EXCEPT ![v] = d] BY DEF Goto, ThumbInv, ViewOK
<1> HIDE DEF d
<1> QED BY <1>2, <1>3, <1>4, Moves DEF treeVars

LEMMA HoldersFinite == IsFiniteSet(Holders) /\ Cardinality(Holders) \in Nat
<1>1. IsFiniteSet(Viewers) /\ Holders \subseteq Viewers BY ThumbsAssumption DEF Holders
<1> QED BY <1>1, FS_Subset, FS_CardinalityType

LEMMA AcquireInv ==
  ASSUME ThumbInv, NEW v \in Viewers, Acquire(v), UNCHANGED treeVars
  PROVE  ThumbInv'
<1> USE DEF ThumbInv
<1>1. view[v].pc = "wait" /\ view[v] \in View /\ Sees(view[v]) BY PcIs DEF Acquire, ViewOK
<1>2. CASE slots < Limit
  <2>1. slots' = slots + 1 /\ Goto(v, "key") /\ UNCHANGED <<making, cache, temp, crossed>>
    BY <1>2 DEF Acquire
  <2> DEFINE d == [view[v] EXCEPT !.pc = "key"]
  <2>2. view' = [view EXCEPT ![v] = d] BY <2>1 DEF Goto, ViewOK
  <2>3. d \in View /\ d.pc = "key" BY <1>1 DEF View, Slotted
  <2>4. Sees(d) BY <1>1 DEF Sees, View, Slotted, Keyed, Making
  <2> HIDE DEF d
  <2>5. \A w \in Viewers : view'[w] = IF w = v THEN d ELSE view[w] BY <2>2 DEF ViewOK
  <2>6. ViewOK'
    <3>1. view' \in [Viewers -> {Idle} \cup View] BY <2>2, <2>3 DEF ViewOK
    <3>2. \A w \in Viewers : Sees(view[w])' BY <2>4, <2>5 DEF ViewOK, Sees, IsFile, At, treeVars
    <3> QED BY <3>1, <3>2 DEF ViewOK
  <2>7. Makers' = Makers BY <1>1, <2>3, <2>5 DEF Makers, Making
  <2>8. MakersOK' BY <1>1, <2>1, <2>5, <2>7 DEF MakersOK, Makers, Making
  <2>9. Holders' = Holders \cup {v} /\ v \notin Holders
    BY <1>1, <2>3, <2>5 DEF Holders, Slotted, Keyed, Making
  <2>10. Cardinality(Holders') = Cardinality(Holders) + 1 BY <2>9, HoldersFinite, FS_AddElement
  <2>11. SlotsOK' BY <1>2, <2>1, <2>10, HoldersFinite, ThumbsAssumption DEF SlotsOK
  <2>12. TempOK' BY <2>1, <2>3, <2>5 DEF TempOK, TempIs, TempIn
  <2>13. CacheOK' BY <2>1 DEF CacheOK
  <2> QED BY <2>6, <2>8, <2>11, <2>12, <2>13
<1>3. CASE ~(slots < Limit)
  <2>1. Goto(v, "sleep") /\ UNCHANGED <<treeVars, slots, making, cache, temp, crossed>>
    BY <1>3 DEF Acquire
  <2> QED BY <1>1, <2>1, Goes DEF Slotted, Keyed, Making
<1> QED BY <1>2, <1>3

\* A request that leaves gives up its slot, and wakes those who wait for one.
LEMMA ReleaseInv ==
  ASSUME ThumbInv, NEW v \in Viewers, Release(v), UNCHANGED treeVars
  PROVE  ThumbInv'
<1> USE DEF ThumbInv
<1>1. view[v].pc = "leave" /\ slots' = slots - 1 /\ UNCHANGED <<making, cache, temp, crossed>>
  BY DEF Release
<1>2. \A w \in Viewers : view'[w] = IF w = v THEN Idle
       ELSE IF view[w].pc = "sleep" THEN [view[w] EXCEPT !.pc = "wait"] ELSE view[w]
  BY DEF Release
<1>3. ASSUME NEW w \in Viewers
      PROVE  /\ view'[w] \in {Idle} \cup View /\ Sees(view'[w])
             /\ view'[w].pc \in Slotted <=> w # v /\ view[w].pc \in Slotted
             /\ view'[w].pc \in Slotted => view'[w] = view[w]
  <2>1. CASE w = v
    <3>1. view'[w] = Idle BY <1>2, <2>1
    <3>2. Idle.pc = "idle" BY DEF Idle
    <3>3. Sees(Idle) BY <3>2 DEF Sees
    <3>4. Idle.pc \notin Slotted BY <3>2 DEF Slotted, Keyed, Making
    <3> QED BY <2>1, <3>1, <3>3, <3>4
  <2>2. CASE w # v /\ view[w].pc = "sleep"
    <3>1. view[w] \in View /\ Sees(view[w]) BY <2>2, PcIs DEF ViewOK
    <3>2. view'[w] = [view[w] EXCEPT !.pc = "wait"] BY <1>2, <2>2
    <3>3. view'[w] \in View /\ view'[w].pc = "wait" BY <3>1, <3>2 DEF View
    <3>4. Sees(view'[w]) BY <2>2, <3>1, <3>2, <3>3 DEF Sees, View, Keyed, Making
    <3> QED BY <2>2, <3>3, <3>4 DEF Slotted, Keyed, Making
  <2>3. CASE w # v /\ view[w].pc # "sleep" BY <1>2, <2>3 DEF ViewOK
  <2> QED BY <2>1, <2>2, <2>3
<1>4. ViewOK'
  <2>1. view' \in [Viewers -> {Idle} \cup View] BY <1>3 DEF Release
  <2>2. \A w \in Viewers : Sees(view[w])' BY <1>3 DEF Sees, IsFile, At, treeVars
  <2> QED BY <2>1, <2>2 DEF ViewOK
<1>5. Makers' = Makers /\ \A w \in Makers : view'[w] = view[w]
  BY <1>1, <1>3 DEF Makers, Slotted, Keyed, Making
<1>6. MakersOK' BY <1>1, <1>5 DEF MakersOK
<1>7. Holders' = Holders \ {v} /\ v \in Holders BY <1>1, <1>3 DEF Holders, Slotted
<1>8. Cardinality(Holders') = Cardinality(Holders) - 1 BY <1>7, HoldersFinite, FS_RemoveElement
<1>9. SlotsOK' BY <1>1, <1>8, HoldersFinite, ThumbsAssumption DEF SlotsOK
<1>10. TempOK'
  <2>1. \A w \in Viewers : TempIs(view'[w]) BY <1>3 DEF TempOK, TempIs, TempIn, Slotted, Keyed, Making
  <2> QED BY <1>1, <2>1 DEF TempOK, TempIs, TempIn
<1>11. CacheOK' BY <1>1 DEF CacheOK
<1> QED BY <1>4, <1>6, <1>9, <1>10, <1>11

LEMMA LookInv ==
  ASSUME TreeTyped, ThumbInv, NEW v \in Viewers, Look(v), UNCHANGED treeVars
  PROVE  ThumbInv'
<1> USE DEF ThumbInv
<1>1. view[v].pc = "key" /\ view[v] \in View /\ Sees(view[v]) BY PcIs DEF Look, ViewOK
<1> DEFINE p == view[v].path
           key == <<IF IsFile(p) THEN tree[p].id ELSE Dir, view[v].ver>>
           to == IF Has(cache, key) THEN "show" ELSE "join"
           d == [view[v] EXCEPT !.key = key, !.pc = to]
<1>2. CASE At(p) = None
  <2>1. Goto(v, "leave") BY <1>2 DEF Look
  <2> QED BY <1>1, <2>1, Goes DEF Slotted, Keyed, Making, Look
<1>3. CASE At(p) # None
  <2>1. view' = [view EXCEPT ![v].key = key, ![v].pc = to] BY <1>3 DEF Look
  <2>2. view' = [view EXCEPT ![v] = d] BY <2>1 DEF ViewOK
  <2>3. p \in Paths BY <1>1 DEF View
  <2>4. key \in (Nat \cup {Dir}) \X Nat BY <1>1, <2>3, FileIs DEF View, Files
  <2>5. to \in {"show", "join"} OBVIOUS
  <2> HIDE DEF to, key
  <2>6. d \in View /\ d.pc = to /\ d.key = key /\ d.ver = view[v].ver /\ d.path = view[v].path
        /\ d.since = view[v].since
    BY <1>1, <2>4, <2>5 DEF View, Slotted, Keyed
  <2>7. key[2] = view[v].ver BY DEF key
  <2> HIDE DEF d
  <2>8. Sees(d) /\ TempIs(d) BY <1>1, <2>5, <2>6, <2>7 DEF Sees, TempIs, TempIn
  <2> QED BY <1>1, <2>2, <2>5, <2>6, <2>8, Moves DEF Slotted, Keyed, Making, Look, treeVars
<1> QED BY <1>2, <1>3

LEMMA JoinInv ==
  ASSUME ThumbInv, NEW v \in Viewers, Join(v), UNCHANGED treeVars
  PROVE  ThumbInv'
<1> USE DEF ThumbInv
<1>1. view[v].pc = "join" /\ view[v] \in View /\ Sees(view[v]) BY PcIs DEF Join, ViewOK
<1>2. CASE view[v].key \in making
  <2>1. Goto(v, "await") /\ UNCHANGED <<treeVars, slots, making, cache, temp, crossed>> BY <1>2 DEF Join
  <2> QED BY <1>1, <2>1, Goes DEF Slotted, Keyed, Making
<1>3. CASE view[v].key \notin making
  <2>1. /\ making' = making \cup {view[v].key} /\ Goto(v, "open")
        /\ UNCHANGED <<slots, cache, temp, crossed>>
    BY <1>3 DEF Join
  <2> DEFINE d == [view[v] EXCEPT !.pc = "open"]
  <2>2. view' = [view EXCEPT ![v] = d] BY <2>1 DEF Goto, ViewOK
  <2>3. d \in View /\ d.pc = "open" /\ d.key = view[v].key BY <1>1 DEF View, Slotted, Keyed, Making
  <2>4. Sees(d) BY <1>1 DEF Sees, View, Slotted, Keyed, Making
  <2> HIDE DEF d
  <2>5. \A w \in Viewers : view'[w] = IF w = v THEN d ELSE view[w] BY <2>2 DEF ViewOK
  <2>6. ViewOK'
    <3>1. view' \in [Viewers -> {Idle} \cup View] BY <2>2, <2>3 DEF ViewOK
    <3>2. \A w \in Viewers : Sees(view[w])' BY <2>4, <2>5 DEF ViewOK, Sees, IsFile, At, treeVars
    <3> QED BY <3>1, <3>2 DEF ViewOK
  <2>7. Makers' = Makers \cup {v} /\ v \notin Makers BY <1>1, <2>3, <2>5 DEF Makers, Making
  <2>8. \A w \in Makers' : view'[w].key = view[w].key BY <2>3, <2>5 DEF Makers
  <2>9. MakersOK'
    <3>1. making' = {view'[w].key : w \in Makers'} BY <2>1, <2>7, <2>8 DEF MakersOK
    <3>2. ASSUME NEW w \in Makers', NEW u \in Makers', view'[w].key = view'[u].key PROVE w = u
      <4>1. view[w].key = view[u].key BY <2>8, <3>2
      <4>2. \A x \in Makers : view[x].key # view[v].key BY <1>3 DEF MakersOK
      <4> QED BY <2>7, <4>1, <4>2 DEF MakersOK
    <3> QED BY <3>1, <3>2 DEF MakersOK
  <2>10. Holders' = Holders BY <1>1, <2>3, <2>5 DEF Holders, Slotted, Keyed, Making
  <2>11. SlotsOK' BY <2>1, <2>10 DEF SlotsOK
  <2>12. TempOK' BY <2>1, <2>3, <2>5 DEF TempOK, TempIs, TempIn
  <2>13. CacheOK' BY <2>1 DEF CacheOK
  <2> QED BY <2>6, <2>9, <2>11, <2>12, <2>13
<1> QED BY <1>2, <1>3

LEMMA LoadInv ==
  ASSUME TreeTyped, ThumbInv, NEW v \in Viewers, Load(v), UNCHANGED treeVars
  PROVE  ThumbInv'
<1> USE DEF ThumbInv
<1>1. view[v].pc = "open" /\ view[v] \in View /\ Sees(view[v]) BY PcIs DEF Load, ViewOK
<1> DEFINE p == view[v].path
           d == [view[v] EXCEPT !.what = tree[p].ver, !.pc = "write"]
<1>2. CASE Goto(v, "failed") BY <1>1, <1>2, Goes DEF Slotted, Keyed, Making, Load
<1>3. CASE IsFile(p) /\ view' = [view EXCEPT ![v].what = tree[p].ver, ![v].pc = "write"]
  <2>1. view' = [view EXCEPT ![v] = d] BY <1>3 DEF ViewOK
  <2>2. p \in Paths BY <1>1 DEF View
  <2>3. tree[p].ver \in Nat BY <1>3, <2>2, FileIs DEF Files
  <2>4. d \in View /\ d.pc = "write" /\ d.key = view[v].key /\ d.ver = view[v].ver /\ d.path = p
        /\ d.since = view[v].since /\ d.what = tree[p].ver
    BY <1>1, <2>3 DEF View, Slotted, Keyed, Making
  <2> HIDE DEF d
  <2>5. Sees(d) /\ TempIs(d) BY <1>1, <2>3, <2>4 DEF Sees, TempIs, TempIn, Keyed, Making
  <2> QED BY <1>1, <2>1, <2>4, <2>5, Moves DEF Slotted, Keyed, Making, Load, treeVars
<1> QED BY <1>2, <1>3 DEF Load

\* A request that goes on with the key it makes, whatever happens to the
\* temporary files of its key alone.
LEMMA Works ==
  ASSUME ThumbInv, UNCHANGED <<treeVars, slots, making>>,
         NEW v \in Viewers, view[v].pc \in Making,
         NEW to \in Making, Goto(v, to),
         to \in {"write", "written", "rename"} => view[v].pc \in {"write", "written", "rename"},
         \A f \in temp' : f \in temp \/ f.key = view[v].key,
         TempIn(temp', [view[v] EXCEPT !.pc = to]),
         CacheOK'
  PROVE  ThumbInv'
<1> USE DEF ThumbInv
<1> DEFINE d == [view[v] EXCEPT !.pc = to]
<1>1. view[v] \in View /\ Sees(view[v]) BY PcIs DEF Making, ViewOK
<1>2. view' = [view EXCEPT ![v] = d] BY DEF Goto, ViewOK
<1>3. d \in View /\ d.pc = to /\ d.key = view[v].key /\ d.ver = view[v].ver /\ d.path = view[v].path
      /\ d.since = view[v].since /\ d.what = view[v].what
  BY <1>1 DEF View, Slotted, Keyed, Making
<1>4. TempIn(temp', d) OBVIOUS
<1> HIDE DEF d
<1>5. Sees(d) BY <1>1, <1>3 DEF Sees, Slotted, Keyed, Making
<1>6. \A w \in Viewers : view'[w] = IF w = v THEN d ELSE view[w] BY <1>2 DEF ViewOK
<1>7. ViewOK'
  <2>1. view' \in [Viewers -> {Idle} \cup View] BY <1>2, <1>3 DEF ViewOK
  <2>2. \A w \in Viewers : Sees(view[w])' BY <1>5, <1>6 DEF ViewOK, Sees, IsFile, At, treeVars
  <2> QED BY <2>1, <2>2 DEF ViewOK
<1>8. Makers' = Makers /\ v \in Makers /\ Holders' = Holders
  BY <1>3, <1>6 DEF Makers, Holders, Slotted, Keyed
<1>9. \A w \in Makers : view'[w].key = view[w].key BY <1>3, <1>6 DEF Makers
<1>10. MakersOK' BY <1>8, <1>9 DEF MakersOK
<1>11. SlotsOK' BY <1>8 DEF SlotsOK
<1>12. ASSUME NEW w \in Viewers PROVE TempIs(view[w])'
  <2>1. CASE w = v BY <1>4, <1>6, <2>1 DEF TempIs, TempIn
  <2>2. CASE w # v /\ w \in Makers
    <3>1. view[w].key # view[v].key BY <1>8, <2>2 DEF MakersOK
    <3>2. \A f \in temp' : f.key = view[w].key => f \in temp BY <3>1
    <3>3. view'[w] = view[w] BY <1>6, <2>2
    <3> QED BY <3>2, <3>3 DEF TempOK, TempIs, TempIn
  <2>3. CASE w # v /\ w \notin Makers
    <3>1. view'[w] = view[w] BY <1>6, <2>3
    <3> QED BY <2>3, <3>1 DEF TempIs, TempIn, Makers, Making
  <2> QED BY <2>1, <2>2, <2>3
<1>13. TempOK' BY <1>12 DEF TempOK
<1> QED BY <1>7, <1>10, <1>11, <1>13

LEMMA FilesWith ==
  ASSUME NEW files, NEW key, NEW what
  PROVE  /\ \A f \in With(files, key, what) : (f \in files /\ f.key # key) \/ (f.key = key /\ f.what = what)
         /\ \A f \in Without(files, key) : f \in files /\ f.key # key
<1>1. Picture(key, what).key = key /\ Picture(key, what).what = what BY DEF Picture
<1> QED BY <1>1 DEF With, Without

LEMMA TempInv ==
  ASSUME ThumbInv, NEW v \in Viewers, Temp(v), UNCHANGED treeVars
  PROVE  ThumbInv'
<1>1. view[v].pc = "write" /\ temp' = With(temp, view[v].key, Cut) /\ Goto(v, "written")
      /\ UNCHANGED <<slots, making, cache, crossed>>
  BY DEF Temp
<1>2. \A f \in temp' : (f \in temp /\ f.key # view[v].key) \/ (f.key = view[v].key /\ f.what = Cut)
  BY <1>1, FilesWith
<1>3. view[v] \in View BY <1>1, PcIs DEF ThumbInv
<1> DEFINE d == [view[v] EXCEPT !.pc = "written"]
<1>4. d.pc = "written" /\ d.key = view[v].key BY <1>3 DEF View
<1>5. TempIn(temp', d)
  <2> HIDE DEF d
  <2> QED BY <1>1, <1>2, <1>4 DEF TempIn
<1>6. CacheOK' BY <1>1 DEF ThumbInv, CacheOK
<1>7. view[v].pc \in Making /\ "written" \in Making /\ \A f \in temp' : f \in temp \/ f.key = view[v].key
  BY <1>1, <1>2 DEF Making
<1> QED BY <1>1, <1>5, <1>6, <1>7, Works

LEMMA WrittenInv ==
  ASSUME ThumbInv, NEW v \in Viewers, Written(v), UNCHANGED treeVars
  PROVE  ThumbInv'
<1>0. CASE UNCHANGED temp /\ Goto(v, "failed")
  <2>1. view[v].pc = "written" /\ UNCHANGED <<slots, making, cache, crossed>> BY DEF Written
  <2>2. view[v] \in View BY <2>1, PcIs DEF ThumbInv
  <2>3. TempIn(temp', [view[v] EXCEPT !.pc = "failed"])
    <3>1. [view[v] EXCEPT !.pc = "failed"].pc = "failed" BY <2>2 DEF View
    <3> QED BY <3>1 DEF TempIn
  <2>4. CacheOK' BY <2>1 DEF ThumbInv, CacheOK
  <2>5. view[v].pc \in Making /\ "failed" \in Making BY <2>1 DEF Making
  <2> QED BY <1>0, <2>1, <2>3, <2>4, <2>5, Works
<1> SUFFICES ASSUME ~(UNCHANGED temp /\ Goto(v, "failed")) PROVE ThumbInv' BY <1>0
<1>1. /\ view[v].pc = "written" /\ Goto(v, "rename")
      /\ temp' = IF Has(temp, view[v].key) THEN With(temp, view[v].key, view[v].what) ELSE temp
      /\ UNCHANGED <<slots, making, cache, crossed>>
  BY DEF Written
<1>2. \A f \in temp' : (f \in temp /\ f.key # view[v].key) \/ (f.key = view[v].key /\ f.what = view[v].what)
  BY <1>1, FilesWith DEF Has
<1>3. view[v] \in View BY <1>1, PcIs DEF ThumbInv
<1> DEFINE d == [view[v] EXCEPT !.pc = "rename"]
<1>4. d.pc = "rename" /\ d.key = view[v].key /\ d.what = view[v].what BY <1>3 DEF View
<1>5. TempIn(temp', d)
  <2> HIDE DEF d
  <2> QED BY <1>1, <1>2, <1>4 DEF TempIn
<1>6. CacheOK' BY <1>1 DEF ThumbInv, CacheOK
<1>7. view[v].pc \in Making /\ "rename" \in Making /\ \A f \in temp' : f \in temp \/ f.key = view[v].key
  BY <1>1, <1>2 DEF Making
<1> QED BY <1>1, <1>5, <1>6, <1>7, Works

\* What is published is whole, and what the key names or crossed.
LEMMA PublishInv ==
  ASSUME ThumbInv, NEW v \in Viewers, Publish(v), UNCHANGED treeVars
  PROVE  ThumbInv'
<1>1. view[v].pc = "rename" /\ UNCHANGED <<slots, making>> BY DEF Publish
<1>2. view[v] \in View /\ Sees(view[v]) /\ TempIs(view[v]) BY <1>1, PcIs DEF ThumbInv, ViewOK, TempOK
<1>3. ASSUME NEW to \in {"made", "failed"} PROVE TempIn(temp', [view[v] EXCEPT !.pc = to])
  <2>1. [view[v] EXCEPT !.pc = to].pc = to BY <1>2 DEF View
  <2> QED BY <2>1 DEF TempIn
<1>6. \A f \in temp' : f \in temp \/ f.key = view[v].key BY FilesWith DEF Publish
<1>4. CASE ~(UNCHANGED <<cache, crossed>> /\ Goto(v, "failed"))
  <2>1. /\ Has(temp, view[v].key)
        /\ cache' = With(cache, view[v].key, WhatIs(temp, view[v].key))
        /\ crossed' = IF changed = view[v].since THEN crossed ELSE crossed \cup {view[v].key}
        /\ Goto(v, "made")
    BY <1>4 DEF Publish
  <2>2. WhatIs(temp, view[v].key) = view[v].what
    <3>1. PICK f \in temp : f.key = view[v].key /\ WhatIs(temp, view[v].key) = f.what
      BY <2>1 DEF Has, WhatIs
    <3> QED BY <1>1, <1>2, <3>1 DEF TempIs, TempIn
  <2>3. view[v].what # Cut /\ (view[v].what = view[v].key[2] \/ view[v].key \in crossed')
    <3>1. view[v].what \in Nat /\ view[v].key[2] = view[v].ver BY <1>1, <1>2 DEF Sees, Keyed, Making
    <3>2. view[v].what # Cut BY <3>1, MarksAssumption DEF Cut
    <3>3. CASE changed = view[v].since BY <1>1, <1>2, <3>1, <3>2, <3>3 DEF Sees
    <3>4. CASE changed # view[v].since BY <2>1, <3>2, <3>4
    <3> QED BY <3>3, <3>4
  <2>4. \A f \in cache' : f \in cache \/ (f.key = view[v].key /\ f.what = view[v].what)
    BY <2>1, <2>2, FilesWith
  <2>5. CacheOK' BY <2>1, <2>3, <2>4 DEF ThumbInv, CacheOK
  <2>7. view[v].pc \in Making /\ "made" \in Making BY <1>1 DEF Making
  <2> QED BY <1>1, <1>3, <1>6, <2>1, <2>5, <2>7, Works
<1>5. CASE UNCHANGED <<cache, crossed>> /\ Goto(v, "failed")
  <2>2. CacheOK' BY <1>5 DEF ThumbInv, CacheOK
  <2>3. view[v].pc \in Making /\ "failed" \in Making BY <1>1 DEF Making
  <2> QED BY <1>1, <1>3, <1>5, <1>6, <2>2, <2>3, Works
<1> QED BY <1>4, <1>5

\* The one who made a thumbnail gives its key up, and those who wait for it go on.
LEMMA MadeInv ==
  ASSUME ThumbInv, NEW v \in Viewers, Made(v), UNCHANGED treeVars
  PROVE  ThumbInv'
<1> USE DEF ThumbInv
<1>1. /\ view[v].pc \in {"made", "failed"} /\ making' = making \ {view[v].key}
      /\ UNCHANGED <<slots, cache, temp, crossed>>
  BY DEF Made
<1>2. view[v] \in View /\ Sees(view[v]) BY <1>1, PcIs DEF ViewOK
<1> DEFINE to(w) == IF w = v THEN IF view[v].pc = "made" THEN "show" ELSE "leave" ELSE "waited"
           moved(w) == w = v \/ (view[w].pc = "await" /\ view[w].key = view[v].key)
<1>3. \A w \in Viewers : view'[w] = IF moved(w) THEN [view[w] EXCEPT !.pc = to(w)] ELSE view[w]
  <2>1. [view[v] EXCEPT !.pc = IF @ = "made" THEN "show" ELSE "leave"] =
        [view[v] EXCEPT !.pc = to(v)]
    BY <1>2 DEF View
  <2>2. \A w \in Viewers : view'[w] =
       IF w = v THEN [view[v] EXCEPT !.pc = IF @ = "made" THEN "show" ELSE "leave"]
       ELSE IF view[w].pc = "await"
       THEN IF view[w].key = view[v].key THEN [view[w] EXCEPT !.pc = "waited"] ELSE view[w]
       ELSE view[w]
    BY DEF Made
  <2> QED BY <2>1, <2>2
<1>4. ASSUME NEW w \in Viewers
      PROVE  /\ view'[w] \in {Idle} \cup View /\ Sees(view'[w])
             /\ view'[w].pc \in Slotted <=> view[w].pc \in Slotted
             /\ view'[w].pc \in Making <=> w # v /\ view[w].pc \in Making
             /\ view'[w].pc \in Making => view'[w] = view[w]
  <2>1. CASE moved(w)
    <3>1. view[w] \in View /\ Sees(view[w]) /\ view[w].pc \in Keyed
      BY <1>1, <2>1, PcIs DEF ViewOK, Keyed, Making
    <3> DEFINE e == [view[w] EXCEPT !.pc = to(w)]
    <3>2. view'[w] = e BY <1>3, <2>1
    <3>3. to(w) \in {"show", "leave", "waited"} /\ view[w].pc \in Slotted
      BY <3>1 DEF Slotted
    <3> HIDE DEF to
    <3>4. e \in View /\ e.pc = to(w) /\ e.key = view[w].key /\ e.ver = view[w].ver /\ e.path = view[w].path
          /\ e.since = view[w].since /\ e.what = view[w].what
      BY <3>1, <3>3 DEF View, Slotted, Keyed
    <3> HIDE DEF e
    <3>5. Sees(e) BY <3>1, <3>3, <3>4 DEF Sees, Slotted, Keyed, Making
    <3>6. e.pc \in Slotted /\ e.pc \notin Making BY <3>3, <3>4 DEF Slotted, Keyed, Making
    <3>7. w = v \/ view[w].pc \notin Making BY <2>1 DEF Making
    <3> QED BY <3>2, <3>3, <3>4, <3>5, <3>6, <3>7
  <2>2. CASE ~moved(w) BY <1>3, <2>2 DEF ViewOK
  <2> QED BY <2>1, <2>2
<1>5. ViewOK'
  <2>1. view' \in [Viewers -> {Idle} \cup View] BY <1>4 DEF Made
  <2>2. \A w \in Viewers : Sees(view[w])' BY <1>4 DEF Sees, IsFile, At, treeVars
  <2> QED BY <2>1, <2>2 DEF ViewOK
<1>6. v \in Makers BY <1>1 DEF Makers, Making
<1>7. Makers' = Makers \ {v} /\ \A w \in Makers' : view'[w] = view[w] BY <1>4, <1>6 DEF Makers
<1>8. MakersOK'
  <2>1. making' = {view'[w].key : w \in Makers'}
    <3>1. \A w \in Makers : w # v => view[w].key # view[v].key BY <1>6 DEF MakersOK
    <3> QED BY <1>1, <1>7, <3>1 DEF MakersOK
  <2>2. \A w, u \in Makers' : view'[w].key = view'[u].key => w = u BY <1>7 DEF MakersOK
  <2> QED BY <2>1, <2>2 DEF MakersOK
<1>9. Holders' = Holders BY <1>4 DEF Holders
<1>10. SlotsOK' BY <1>1, <1>9 DEF SlotsOK
<1>11. TempOK'
  <2>1. \A w \in Viewers : TempIs(view'[w]) BY <1>4 DEF TempOK, TempIs, TempIn, Making
  <2> QED BY <1>1, <2>1 DEF TempOK, TempIs
<1>12. CacheOK' BY <1>1 DEF CacheOK
<1> QED BY <1>5, <1>8, <1>10, <1>11, <1>12

LEMMA PruneInv == ASSUME ThumbInv, Prune, UNCHANGED treeVars PROVE ThumbInv'
<1>1. UNCHANGED <<view, slots, making, crossed>> /\ cache' \subseteq cache /\ temp' \subseteq temp
  BY DEF Prune
<1>2. ViewOK' BY <1>1 DEF ThumbInv, ViewOK, Sees, IsFile, At, treeVars
<1>3. MakersOK' /\ SlotsOK' BY <1>1 DEF ThumbInv, MakersOK, SlotsOK, Makers, Holders
<1>4. TempOK' BY <1>1 DEF ThumbInv, TempOK, TempIs, TempIn
<1>5. CacheOK' BY <1>1 DEF ThumbInv, CacheOK
<1> QED BY <1>2, <1>3, <1>4, <1>5 DEF ThumbInv

LEMMA CrashInv == ASSUME ThumbInv, Crash, UNCHANGED treeVars PROVE ThumbInv'
<1>1. view' = [v \in Viewers |-> Idle] /\ slots' = 0 /\ making' = {} /\ UNCHANGED <<cache, temp, crossed>>
  BY DEF Crash
<1>2. \A v \in Viewers : view'[v].pc = "idle" BY <1>1 DEF Idle
<1>3. Makers' = {} /\ Holders' = {} BY <1>2 DEF Makers, Holders, Slotted, Keyed, Making
<1>4. ViewOK' BY <1>1, <1>2 DEF ViewOK, Sees
<1>5. MakersOK' BY <1>1, <1>3 DEF MakersOK
<1>6. SlotsOK' BY <1>1, <1>3, FS_EmptySet, ThumbsAssumption DEF SlotsOK
<1>7. TempOK' BY <1>2 DEF TempOK, TempIs, TempIn
<1>8. CacheOK' BY <1>1 DEF ThumbInv, CacheOK
<1> QED BY <1>4, <1>5, <1>6, <1>7, <1>8 DEF ThumbInv

LEMMA ThumbInitInv == ASSUME ThumbInit PROVE ThumbInv
<1>1. /\ view = [v \in Viewers |-> Idle] /\ slots = 0 /\ making = {} /\ cache = {} /\ temp = {}
  BY DEF ThumbInit
<1>2. \A v \in Viewers : view[v].pc = "idle" BY <1>1 DEF Idle
<1>3. Makers = {} /\ Holders = {} BY <1>2 DEF Makers, Holders, Slotted, Keyed, Making
<1>4. ViewOK BY <1>1, <1>2 DEF ViewOK, Sees
<1>5. MakersOK BY <1>1, <1>3 DEF MakersOK
<1>6. SlotsOK BY <1>1, <1>3, FS_EmptySet, ThumbsAssumption DEF SlotsOK
<1>7. TempOK BY <1>2 DEF TempOK, TempIs, TempIn
<1>8. CacheOK BY <1>1 DEF CacheOK
<1> QED BY <1>4, <1>5, <1>6, <1>7, <1>8 DEF ThumbInv

\* A request that looked before the folder changed sees no more what is there.
LEMMA ThumbChangeInv ==
  ASSUME TreeTyped, ThumbInv, Change, UNCHANGED thumbVars
  PROVE  ThumbInv'
<1>1. changed' = changed + 1
  BY DEF Change, Write, Mkdir, Delete, Rename, ChangeTo
<1>2. ASSUME NEW v \in Viewers PROVE Sees(view[v])'
  <2>1. view[v].pc # "idle" => view[v].since \in Nat /\ view[v].since <= changed
    BY PcIs DEF ThumbInv, ViewOK, Sees, View
  <2>2. view[v].pc # "idle" => view[v].since # changed' /\ view[v].since <= changed'
    BY <1>1, <2>1 DEF TreeTyped
  <2> QED BY <2>2 DEF ThumbInv, ViewOK, Sees, thumbVars
<1>3. ViewOK' BY <1>2 DEF ThumbInv, ViewOK, thumbVars
<1>4. MakersOK' /\ SlotsOK' BY DEF ThumbInv, MakersOK, SlotsOK, Makers, Holders, thumbVars
<1>5. TempOK' /\ CacheOK' BY DEF ThumbInv, TempOK, TempIs, CacheOK, thumbVars
<1> QED BY <1>3, <1>4, <1>5 DEF ThumbInv

LEMMA ThumbNextInv ==
  ASSUME TreeTyped, ThumbInv, ThumbNext, UNCHANGED treeVars
  PROVE  ThumbInv'
<1>1. ASSUME NEW v \in Viewers, GiveUp(v) PROVE ThumbInv'
  <2>1. view[v].pc = "sleep" /\ view' = [view EXCEPT ![v] = Idle]
        /\ UNCHANGED <<slots, making, cache, temp, crossed>>
    BY <1>1 DEF GiveUp
  <2>2. Idle.pc = "idle" BY DEF Idle
  <2>3. Sees(Idle) /\ TempIs(Idle) BY <2>2 DEF Sees, TempIs, TempIn
  <2> QED BY <2>1, <2>2, <2>3, Moves DEF Slotted, Keyed, Making, treeVars
<1>2. ASSUME NEW v \in Viewers, Leave(v) \/ Waited(v) \/ Show(v) PROVE ThumbInv'
  <2>1. view[v].pc \in {"await", "waited", "show"} /\ UNCHANGED <<slots, making, cache, temp, crossed>>
    BY <1>2 DEF Leave, Waited, Show
  <2>2. PICK to \in {"leave", "show"} :
          Goto(v, to) /\ (to = "show" => view[v].pc \in {"await", "waited", "show"})
    BY <1>2 DEF Leave, Waited, Show
  <2> QED BY <2>1, <2>2, Goes DEF Slotted, Keyed, Making
<1>3. ASSUME NEW v \in Viewers, ViewStep(v) PROVE ThumbInv'
  BY <1>2, <1>3, AcquireInv, ReleaseInv, LookInv, JoinInv, LoadInv, TempInv, WrittenInv, PublishInv,
     MadeInv DEF ViewStep
<1> QED BY <1>1, <1>2, <1>3, ViewStartInv, PruneInv DEF ThumbNext

LEMMA ThumbStepInv == ASSUME TreeTyped, ThumbInv, [Next]_vars PROVE ThumbInv'
<1>1. ASSUME UNCHANGED <<tree, changed, thumbVars>> PROVE ThumbInv'
  BY <1>1 DEF ThumbInv, ViewOK, Sees, IsFile, At, MakersOK, SlotsOK, Makers, Holders,
     TempOK, TempIs, CacheOK, thumbVars
<1>2. CASE ZipNext /\ UNCHANGED <<thumbVars, mediaVars>>
  <2>1. UNCHANGED <<tree, changed>> BY <1>2 DEF ZipNext, PlanStart, PlanVisit, PlanEnd, PlanTimeout,
    PartStart, PartFails, PartVisit, PartCopy, PartEnd
  <2> QED BY <1>1, <1>2, <2>1
<1>3. CASE ThumbNext /\ UNCHANGED <<treeVars, zipVars, mediaVars>> BY <1>3, ThumbNextInv
<1>4. CASE MediaNext /\ UNCHANGED <<treeVars, zipVars, thumbVars>> BY <1>1, <1>4 DEF treeVars
<1>5. CASE Change /\ UNCHANGED <<zipVars, thumbVars, mediaVars>> BY <1>5, ThumbChangeInv
<1>6. CASE Crash /\ ZipCrash /\ MediaCrash /\ UNCHANGED treeVars BY <1>6, CrashInv
<1>7. CASE UNCHANGED vars BY <1>1, <1>7 DEF vars, treeVars
<1> QED BY <1>2, <1>3, <1>4, <1>5, <1>6, <1>7 DEF Next

LEMMA TreeInitTyped == ASSUME TreeInit PROVE TreeTyped
<1>1. /\ tree \in [Paths -> {None, Dir} \cup {File(0, 0, size) : size \in Sizes}]
      /\ \A p \in Paths : tree[p] # None /\ Len(p) > 1 => tree[Parent(p)] = Dir
      /\ changed = 0 /\ stay = Paths
  BY DEF TreeInit
<1>2. {File(0, 0, size) : size \in Sizes} \subseteq Files BY DEF File, Files
<1>3. tree \in [Paths -> {None, Dir} \cup Files] BY <1>1, <1>2
<1>4. ASSUME NEW p \in Paths, tree[p] # None PROVE At(Parent(p)) = Dir
  <2>1. CASE Len(p) > 1
    <3>1. Parent(p) # <<>> BY <2>1, ParentIs, PathIs, EmptySeq
    <3> QED BY <1>1, <1>4, <2>1, <3>1 DEF At
  <2>2. CASE Len(p) <= 1
    <3>1. Len(Parent(p)) = 0 BY <2>2, ParentIs, PathIs
    <3>2. Parent(p) = <<>> BY <3>1, ParentIs, EmptySeq
    <3> QED BY <3>2 DEF At
  <2>3. Len(p) \in Nat BY PathIs
  <2> QED BY <2>1, <2>2, <2>3
<1> QED BY <1>1, <1>3, <1>4, SizesAssumption DEF TreeTyped

\* A thumbnail in the cache is whole and shows the version its key names, unless
\* the folder changed while it was asked for; a slot is held by a request and a
\* key made by one (thumbs.go, ratelimit.go), whatever is pruned or dies.
THEOREM ThumbnailsAreTrue == Spec => []ThumbsTrue
<1>1. Init => TreeTyped /\ ThumbInv BY TreeInitTyped, ThumbInitInv DEF Init
<1>2. TreeTyped /\ ThumbInv /\ [Next]_vars => (TreeTyped /\ ThumbInv)'
  BY StepTreeTyped, ThumbStepInv
<1>3. TreeTyped /\ ThumbInv => ThumbsTrue
  <2> SUFFICES ASSUME TreeTyped, ThumbInv PROVE ThumbsTrue OBVIOUS
  <2>1. Holders = {v \in Viewers : view[v].pc \notin {"idle", "wait", "sleep"}}
    <3>1. \A v \in Viewers : view[v].pc \in {"idle", "wait", "sleep"} \cup Slotted
      BY PcIs DEF ThumbInv, View
    <3> QED BY <3>1 DEF Holders, Slotted, Keyed, Making
  <2>2. making = {view[v].key : v \in {w \in Viewers :
       view[w].pc \in {"open", "write", "written", "rename", "made", "failed"}}}
    BY DEF ThumbInv, MakersOK, Makers, Making
  <2>3. slots \in 0..Limit
    <3>1. slots \in Nat /\ slots <= Limit /\ Limit \in Nat
      BY HoldersFinite, ThumbsAssumption DEF ThumbInv, SlotsOK
    <3> QED BY <3>1
  <2> QED BY <2>1, <2>2, <2>3 DEF ThumbsTrue, ThumbTypeOK, ThumbInv, SlotsOK, CacheOK
<1> QED BY <1>1, <1>2, <1>3, PTL DEF Spec

-----------------------------------------------------------------------------
(* A finite set in order.                                                  *)

Orders(R, S) ==
  /\ \A x \in S : <<x, x>> \notin R
  /\ \A x, y \in S : x # y => <<x, y>> \in R \/ <<y, x>> \in R
  /\ \A x, y, z \in S : <<x, y>> \in R /\ <<y, z>> \in R => <<x, z>> \in R

\* Each element stands where the number of those before it says.
LEMMA InOrderExists ==
  ASSUME NEW S, IsFiniteSet(S), NEW R, Orders(R, S)
  PROVE  \E s \in [1..Cardinality(S) -> S] : \A i, j \in 1..Cardinality(S) : i < j => <<s[i], s[j]>> \in R
<1> DEFINE n == Cardinality(S)
           lower(x) == {y \in S : <<y, x>> \in R}
           r == [x \in S |-> Cardinality(lower(x)) + 1]
<1>1. n \in Nat BY FS_CardinalityType
<1>2. ASSUME NEW x \in S PROVE IsFiniteSet(lower(x)) /\ Cardinality(lower(x)) \in Nat /\ Cardinality(lower(x)) < n
  <2>1. IsFiniteSet(lower(x)) BY FS_Subset
  <2>2. Cardinality(lower(x)) \in Nat BY <2>1, FS_CardinalityType
  <2>3. lower(x) \in SUBSET (S \ {x}) BY DEF Orders
  <2>4. IsFiniteSet(S \ {x}) /\ Cardinality(S \ {x}) = n - 1 BY FS_RemoveElement
  <2> HIDE DEF lower
  <2>5. Cardinality(lower(x)) <= n - 1 BY <2>3, <2>4, FS_Subset
  <2> QED BY <1>1, <2>1, <2>2, <2>5
<1>3. \A x \in S : r[x] \in 1..n
  <2> HIDE DEF n, lower
  <2> QED BY <1>1, <1>2
<1>4. ASSUME NEW x \in S, NEW y \in S, <<x, y>> \in R PROVE r[x] < r[y]
  <2>1. lower(x) \cup {x} \subseteq lower(y) BY <1>4 DEF Orders
  <2>2. x \notin lower(x) BY DEF Orders
  <2> HIDE DEF lower
  <2>3. Cardinality(lower(x) \cup {x}) = Cardinality(lower(x)) + 1 BY <1>2, <2>2, FS_AddElement
  <2>4. Cardinality(lower(x) \cup {x}) <= Cardinality(lower(y)) BY <1>2, <2>1, FS_Subset
  <2>5. Cardinality(lower(x)) + 1 <= Cardinality(lower(y)) BY <2>3, <2>4
  <2>6. Cardinality(lower(x)) \in Nat /\ Cardinality(lower(y)) \in Nat BY <1>2
  <2> QED BY <2>5, <2>6
<1>5. \A x, y \in S : r[x] = r[y] => x = y
  <2> SUFFICES ASSUME NEW x \in S, NEW y \in S, x # y PROVE r[x] # r[y] OBVIOUS
  <2>1. r[x] \in Nat /\ r[y] \in Nat BY <1>1, <1>3
  <2>2. <<x, y>> \in R \/ <<y, x>> \in R BY DEF Orders
  <2>3. r[x] < r[y] \/ r[y] < r[x] BY <1>4, <2>2
  <2> HIDE DEF r
  <2> QED BY <2>1, <2>3
<1>6. r \in Surjection(S, 1..n)
  <2>1. r \in [S -> 1..n]
    <3>1. r = [x \in S |-> r[x]] OBVIOUS
    <3> HIDE DEF r
    <3> QED BY <1>3, <3>1
  <2>2. r \in Injection(S, 1..n)
    <3> HIDE DEF r, n
    <3> QED BY <1>5, <2>1, Zenon DEF Injection, IsInjective
  <2>3. IsFiniteSet(1..n) /\ Cardinality(1..n) = n
    <3> HIDE DEF n
    <3>1. 1 \in Int /\ n \in Int BY <1>1
    <3>2. IsFiniteSet(1..n) /\ Cardinality(1..n) = IF 1 > n THEN 0 ELSE n - 1 + 1 BY <3>1, FS_Interval
    <3> QED BY <1>1, <3>2
  <2> HIDE DEF r
  <2> QED BY <2>2, <2>3, FS_Injection
<1> DEFINE s == [i \in 1..n |-> CHOOSE x \in S : r[x] = i]
<1>7. \A i \in 1..n : s[i] \in S /\ r[s[i]] = i
  <2>1. \A i \in 1..n : \E x \in S : r[x] = i BY <1>6 DEF Surjection
  <2> HIDE DEF r
  <2> QED BY <2>1
<1>8. ASSUME NEW i \in 1..n, NEW j \in 1..n, i < j PROVE <<s[i], s[j]>> \in R
  <2>1. s[i] \in S /\ s[j] \in S /\ r[s[i]] = i /\ r[s[j]] = j BY <1>7
  <2> HIDE DEF s, r, n
  <2>2. s[i] # s[j] BY <1>8, <2>1
  <2>3. <<s[j], s[i]>> \notin R BY <1>1, <1>4, <1>8, <2>1
  <2> QED BY <2>1, <2>2, <2>3 DEF Orders
<1>9. s \in [1..n -> S]
  <2> HIDE DEF n, r
  <2> QED BY <1>7
<1> HIDE DEF s
<1> QED BY <1>8, <1>9

\* A sequence in order has every element, and once.
LEMMA InOrderHas ==
  ASSUME NEW S, IsFiniteSet(S), NEW R, Orders(R, S), NEW s \in [1..Cardinality(S) -> S],
         \A i, j \in 1..Cardinality(S) : i < j => <<s[i], s[j]>> \in R
  PROVE  \A x \in S : \E k \in 1..Cardinality(S) : s[k] = x
<1> DEFINE n == Cardinality(S)
<1>1. n \in Nat BY FS_CardinalityType
<1> HIDE DEF n
<1>2. \A i, j \in 1..n : s[i] = s[j] => i = j
  <2> SUFFICES ASSUME NEW i \in 1..n, NEW j \in 1..n, i < j PROVE s[i] # s[j]
    BY <1>1
  <2>1. <<s[i], s[j]>> \in R /\ s[i] \in S BY DEF n
  <2> QED BY <2>1 DEF Orders
<1>3. s \in Injection(1..n, S)
  <2>1. s \in [1..n -> S] BY DEF n
  <2> QED BY <1>2, <2>1, Zenon DEF Injection, IsInjective
<1>4. IsFiniteSet(1..n) /\ Cardinality(1..n) = n
  <2>1. 1 \in Int /\ n \in Int BY <1>1
  <2>2. IsFiniteSet(1..n) /\ Cardinality(1..n) = IF 1 > n THEN 0 ELSE n - 1 + 1 BY <2>1, FS_Interval
  <2> QED BY <1>1, <2>2
<1>5. s \in Surjection(1..n, S) BY <1>3, <1>4, FS_Injection DEF n
<1> QED BY <1>5 DEF Surjection, n

\* A function on the first numbers is a sequence.
LEMMA SeqIs ==
  ASSUME NEW n \in Nat, NEW S, NEW s \in [1..n -> S]
  PROVE  s \in Seq(S) /\ Len(s) = n
  OBVIOUS

-----------------------------------------------------------------------------
(* The order of names.                                                     *)

\* Two names that part at some place: so does all that is below them.
Apart(a, b) == \E i \in 1..Len(a) : /\ i <= Len(b) /\ a[i] < b[i]
                                    /\ SubSeq(a, 1, i - 1) = SubSeq(b, 1, i - 1)
PartsAt(a, b, i) ==
  /\ i \in Nat /\ 1 <= i /\ i <= Len(a) /\ i <= Len(b) /\ a[i] < b[i]
  /\ \A j \in Nat : 1 <= j /\ j < i => a[j] = b[j]

LEMMA BeforeIs == ASSUME NEW a, NEW b PROVE Before(a, b) <=> Below(a, b) \/ Apart(a, b)
  BY DEF Before, Below, Apart

LEMMA ApartAt ==
  ASSUME NEW a \in Seq(Nat), NEW b \in Seq(Nat)
  PROVE  Apart(a, b) <=> \E i : PartsAt(a, b, i)
<1>1. ASSUME NEW i \in 1..Len(a), i <= Len(b)
      PROVE  SubSeq(a, 1, i - 1) = SubSeq(b, 1, i - 1) <=> \A j \in Nat : 1 <= j /\ j < i => a[j] = b[j]
  <2> DEFINE n == i - 1
  <2>1. n \in 0..Len(a) /\ n \in 0..Len(b) BY <1>1
  <2>2. \A j : j \in 1..n <=> j \in Nat /\ 1 <= j /\ j < i BY <1>1
  <2> HIDE DEF n
  <2>3. /\ SubSeq(a, 1, n) \in Seq(Nat) /\ Len(SubSeq(a, 1, n)) = n
        /\ \A j \in 1..n : SubSeq(a, 1, n)[j] = a[j]
    BY <2>1, PrefixIs
  <2>4. /\ SubSeq(b, 1, n) \in Seq(Nat) /\ Len(SubSeq(b, 1, n)) = n
        /\ \A j \in 1..n : SubSeq(b, 1, n)[j] = b[j]
    BY <2>1, PrefixIs
  <2>5. SubSeq(a, 1, n) = SubSeq(b, 1, n) <=> \A j \in 1..n : a[j] = b[j]
    BY <2>3, <2>4, SeqEqual
  <2>6. (\A j \in 1..n : a[j] = b[j]) <=> \A j \in Nat : 1 <= j /\ j < i => a[j] = b[j]
    BY <2>1, <2>2
  <2> QED BY <2>5, <2>6 DEF n
<1>2. \A i : i \in 1..Len(a) <=> i \in Nat /\ 1 <= i /\ i <= Len(a) OBVIOUS
<1> QED BY <1>1, <1>2 DEF Apart, PartsAt

\* The order of names is one.
LEMMA BeforeTransitive ==
  ASSUME NEW a \in Seq(Nat), NEW b \in Seq(Nat), NEW c \in Seq(Nat), Before(a, b), Before(b, c)
  PROVE  Before(a, c)
<1>0. /\ Len(a) \in Nat /\ Len(b) \in Nat /\ Len(c) \in Nat
      /\ \A i \in 1..Len(a) : a[i] \in Nat
      /\ \A i \in 1..Len(b) : b[i] \in Nat
      /\ \A i \in 1..Len(c) : c[i] \in Nat
  OBVIOUS
<1>1. CASE Below(a, b) /\ Below(b, c) BY <1>1, BelowTransitive, BeforeIs
<1>2. CASE Below(a, b) /\ Apart(b, c)
  <2>1. PICK i : PartsAt(b, c, i) BY <1>2, ApartAt
  <2>2. Len(a) < Len(b) /\ \A j \in 1..Len(a) : b[j] = a[j] BY <1>2, BelowAt
  <2>3. CASE i <= Len(a)
    <3>1. PartsAt(a, c, i) BY <1>0, <2>1, <2>2, <2>3 DEF PartsAt
    <3> QED BY <3>1, ApartAt, BeforeIs
  <2>4. CASE Len(a) < i
    <3>1. \A j \in 1..Len(a) : c[j] = a[j] BY <1>0, <2>1, <2>2, <2>4 DEF PartsAt
    <3>2. Len(a) < Len(c) BY <1>0, <2>1, <2>4 DEF PartsAt
    <3> QED BY <3>1, <3>2, BelowAt, BeforeIs
  <2> QED BY <1>0, <2>1, <2>3, <2>4 DEF PartsAt
<1>3. CASE Apart(a, b) /\ Below(b, c)
  <2>1. PICK i : PartsAt(a, b, i) BY <1>3, ApartAt
  <2>2. Len(b) < Len(c) /\ \A j \in 1..Len(b) : c[j] = b[j] BY <1>3, BelowAt
  <2>3. PartsAt(a, c, i) BY <1>0, <2>1, <2>2 DEF PartsAt
  <2> QED BY <2>3, ApartAt, BeforeIs
<1>4. CASE Apart(a, b) /\ Apart(b, c)
  <2>1. PICK i : PartsAt(a, b, i) BY <1>4, ApartAt
  <2>2. PICK k : PartsAt(b, c, k) BY <1>4, ApartAt
  <2>3. /\ i \in Nat /\ 1 <= i /\ i <= Len(a) /\ i <= Len(b) /\ a[i] < b[i]
        /\ k \in Nat /\ 1 <= k /\ k <= Len(b) /\ k <= Len(c) /\ b[k] < c[k]
    BY <2>1, <2>2 DEF PartsAt
  <2>4. /\ \A j \in Nat : 1 <= j /\ j < i => a[j] = b[j]
        /\ \A j \in Nat : 1 <= j /\ j < k => b[j] = c[j]
    BY <2>1, <2>2 DEF PartsAt
  <2>5. CASE i <= k
    <3>1. i <= Len(c) BY <1>0, <2>3, <2>5
    <3>2. a[i] \in Nat /\ b[i] \in Nat /\ c[i] \in Nat BY <1>0, <2>3, <3>1
    <3>3. b[i] = c[i] \/ b[i] < c[i]
      <4>1. i = k \/ i < k BY <2>3, <2>5
      <4> QED BY <2>3, <2>4, <4>1
    <3>4. \A x, y, z \in Nat : x < y /\ (y = z \/ y < z) => x < z OBVIOUS
    <3>5. a[i] < c[i] BY <2>3, <3>2, <3>3, <3>4, Zenon
    <3>6. \A j \in Nat : 1 <= j /\ j < i => a[j] = c[j] BY <2>3, <2>4, <2>5
    <3>7. PartsAt(a, c, i) BY <2>3, <3>1, <3>5, <3>6 DEF PartsAt
    <3> QED BY <3>7, ApartAt, BeforeIs
  <2>6. CASE k < i
    <3>1. k <= Len(a) BY <1>0, <2>3, <2>6
    <3>2. a[k] = b[k] BY <2>3, <2>4, <2>6
    <3>3. a[k] < c[k] BY <2>3, <3>2
    <3>4. \A j \in Nat : 1 <= j /\ j < k => a[j] = c[j] BY <2>3, <2>4, <2>6
    <3>5. PartsAt(a, c, k) BY <2>3, <3>1, <3>3, <3>4 DEF PartsAt
    <3> QED BY <3>5, ApartAt, BeforeIs
  <2> QED BY <2>3, <2>5, <2>6
<1> QED BY <1>1, <1>2, <1>3, <1>4, BeforeIs

LEMMA BeforeIrreflexive == ASSUME NEW a \in Seq(Nat) PROVE ~Before(a, a)
<1>1. Len(a) \in Nat /\ \A i \in 1..Len(a) : a[i] \in Nat OBVIOUS
<1>2. ~Below(a, a) BY <1>1 DEF Below
<1>3. \A i : ~PartsAt(a, a, i) BY <1>1 DEF PartsAt
<1> QED BY <1>2, <1>3, ApartAt, BeforeIs

LEMMA ApartBelow ==
  ASSUME NEW a \in Seq(Nat), NEW b \in Seq(Nat), NEW c \in Seq(Nat), Apart(a, b)
  PROVE  (Below(b, c) => Apart(a, c)) /\ (Below(a, c) => Apart(c, b))
<1>0. Len(a) \in Nat /\ Len(b) \in Nat /\ Len(c) \in Nat OBVIOUS
<1>1. PICK i : PartsAt(a, b, i) BY ApartAt
<1>2. ASSUME Below(b, c) PROVE PartsAt(a, c, i)
  <2>1. Len(b) < Len(c) /\ \A j \in 1..Len(b) : c[j] = b[j] BY <1>2, BelowAt
  <2> QED BY <1>0, <1>1, <2>1 DEF PartsAt
<1>3. ASSUME Below(a, c) PROVE PartsAt(c, b, i)
  <2>1. Len(a) < Len(c) /\ \A j \in 1..Len(a) : c[j] = a[j] BY <1>3, BelowAt
  <2> QED BY <1>0, <1>1, <2>1 DEF PartsAt
<1> QED BY <1>2, <1>3, ApartAt

\* The names of one folder.
LEMMA SiblingsAt ==
  ASSUME NEW a \in Paths, NEW b \in Paths, Parent(a) = Parent(b)
  PROVE  /\ Len(a) = Len(b)
         /\ Before(a, b) <=> a[Len(a)] < b[Len(b)]
         /\ a[Len(a)] < b[Len(b)] => Apart(a, b)
         /\ a[Len(a)] = b[Len(b)] => a = b
<1>1. /\ a \in Seq(Nat) /\ Len(a) \in Nat /\ Len(a) > 0 /\ \A i \in 1..Len(a) : a[i] \in Nat
      /\ b \in Seq(Nat) /\ Len(b) \in Nat /\ Len(b) > 0 /\ \A i \in 1..Len(b) : b[i] \in Nat
  BY PathIs
<1>2. Len(Parent(a)) = Len(a) - 1 /\ \A i \in 1..Len(a) - 1 : Parent(a)[i] = a[i] BY ParentIs
<1>3. Len(Parent(b)) = Len(b) - 1 /\ \A i \in 1..Len(b) - 1 : Parent(b)[i] = b[i] BY ParentIs
<1>4. Len(a) = Len(b) BY <1>1, <1>2, <1>3
<1>5. \A i \in 1..Len(a) - 1 : a[i] = b[i] BY <1>2, <1>3, <1>4
<1> DEFINE n == Len(a)
<1>6. n \in Nat /\ 1 <= n /\ n = Len(a) /\ n = Len(b) BY <1>1, <1>4
<1> HIDE DEF n
<1>7. a[n] < b[n] => PartsAt(a, b, n) BY <1>5, <1>6 DEF PartsAt
<1>8. ASSUME NEW i, PartsAt(a, b, i) PROVE a[n] < b[n]
  <2>1. i \in Nat /\ 1 <= i /\ i <= n /\ a[i] < b[i] BY <1>6, <1>8 DEF PartsAt
  <2>2. a[i] \in Nat /\ b[i] \in Nat BY <1>1, <1>6, <2>1
  <2>3. ~(i <= n - 1) BY <1>5, <1>6, <2>1, <2>2
  <2>4. i = n BY <1>6, <2>1, <2>3
  <2> QED BY <2>1, <2>4
<1>9. ~Below(a, b) BY <1>1, <1>4 DEF Below
<1>10. ASSUME a[n] = b[n] PROVE a = b
  <2>1. \A i \in 1..n : i = n \/ i \in 1..n - 1 BY <1>6
  <2>2. \A i \in 1..Len(a) : a[i] = b[i] BY <1>5, <1>6, <1>10, <2>1
  <2> QED BY <1>1, <1>4, <2>2, SeqEqual
<1> QED BY <1>1, <1>4, <1>6, <1>7, <1>8, <1>9, <1>10, ApartAt, BeforeIs DEF n

\* The order of the last names.
LastOrder(S) == {w \in S \X S : w[1][Len(w[1])] < w[2][Len(w[2])]}

LEMMA LastOrders ==
  ASSUME NEW S, S \subseteq Paths, \A a, b \in S : Parent(a) = Parent(b)
  PROVE  Orders(LastOrder(S), S)
<1> DEFINE last == [a \in S |-> a[Len(a)]]
<1>1. \A a \in S : last[a] \in Nat BY PathIs
<1>2. \A a, b \in S : last[a] = last[b] => a = b BY SiblingsAt
<1>3. \A a, b \in S : <<a, b>> \in LastOrder(S) <=> last[a] < last[b] BY DEF LastOrder
<1> HIDE DEF last
<1>4. \A a \in S : <<a, a>> \notin LastOrder(S) BY <1>1, <1>3
<1>5. \A a, b \in S : a # b => <<a, b>> \in LastOrder(S) \/ <<b, a>> \in LastOrder(S)
  BY <1>1, <1>2, <1>3
<1>6. \A a, b, c \in S : <<a, b>> \in LastOrder(S) /\ <<b, c>> \in LastOrder(S) => <<a, c>> \in LastOrder(S)
  BY <1>1, <1>3
<1> QED BY <1>4, <1>5, <1>6 DEF Orders

-----------------------------------------------------------------------------
(* Walks.                                                                  *)

Nodes == Paths \cup {<<>>}

\* The entries of a folder, each once and by name.
LEMMA ListedIs ==
  ASSUME TreeTyped, NEW f \in Nodes
  PROVE  /\ Listed(f) \in Seq({p \in Paths : Parent(p) = f /\ tree[p] # None})
         /\ \A q \in Paths : Parent(q) = f /\ tree[q] # None => \E i \in 1..Len(Listed(f)) : Listed(f)[i] = q
         /\ \A i, j \in 1..Len(Listed(f)) : i < j => Apart(Listed(f)[i], Listed(f)[j])
<1> DEFINE S == {p \in Paths : Parent(p) = f /\ tree[p] # None}
           n == Cardinality(S)
<1>1. IsFiniteSet(S) BY FiniteAssumption, FS_Subset
<1>2. n \in Nat BY <1>1, FS_CardinalityType
<1>3. Orders(LastOrder(S), S) BY LastOrders
<1>4. \A a, b \in S : /\ Before(a, b) <=> <<a, b>> \in LastOrder(S)
                      /\ Before(a, b) => Apart(a, b)
  BY SiblingsAt DEF LastOrder
<1>5. Listed(f) = CHOOSE s \in [1..n -> S] : \A i, j \in DOMAIN s : i < j => Before(s[i], s[j])
  BY DEF Listed, Sorted
<1> HIDE DEF S
<1>6. \E s \in [1..n -> S] : \A i, j \in 1..n : i < j => <<s[i], s[j]>> \in LastOrder(S)
  BY <1>1, <1>3, InOrderExists
<1>7. \E s \in [1..n -> S] : \A i, j \in DOMAIN s : i < j => Before(s[i], s[j])
  <2> HIDE DEF n
  <2> QED BY <1>4, <1>6
<1>8. Listed(f) \in [1..n -> S] /\ \A i, j \in 1..n : i < j => Before(Listed(f)[i], Listed(f)[j])
  <2> HIDE DEF n
  <2> QED BY <1>5, <1>7
<1>9. \A i, j \in 1..n : i < j => <<Listed(f)[i], Listed(f)[j]>> \in LastOrder(S)
  <2> HIDE DEF n
  <2> QED BY <1>4, <1>8
<1>10. Listed(f) \in Seq(S) /\ Len(Listed(f)) = n /\ \A x \in S : \E i \in 1..n : Listed(f)[i] = x
  <2> DEFINE L == Listed(f)
             R == LastOrder(S)
  <2>1. L \in [1..Cardinality(S) -> S] BY <1>8
  <2>2. \A i, j \in 1..Cardinality(S) : i < j => <<L[i], L[j]>> \in R BY <1>9
  <2>3. Orders(R, S) BY <1>3
  <2> HIDE DEF L, R, n
  <2>4. \A x \in S : \E i \in 1..Cardinality(S) : L[i] = x
    BY <1>1, <2>1, <2>2, <2>3, InOrderHas
  <2>5. L \in Seq(S) /\ Len(L) = n BY <1>2, <2>1, SeqIs DEF n
  <2> QED BY <2>4, <2>5 DEF L, n
<1>11. \A i, j \in 1..n : i < j => Apart(Listed(f)[i], Listed(f)[j])
  <2> HIDE DEF n
  <2> QED BY <1>4, <1>8
<1>12. \A q \in Paths : Parent(q) = f /\ tree[q] # None => q \in S BY DEF S
<1>13. S = {p \in Paths : Parent(p) = f /\ tree[p] # None} BY DEF S
<1> HIDE DEF n
<1> QED BY <1>10, <1>11, <1>12, <1>13

Steps == [top : Nodes, path : Nodes]

\* What remains of a walk after one path: its entries, and then the others.
LEMMA RestIs ==
  ASSUME TreeTyped, NEW todo \in Seq(Steps), todo # <<>>
  PROVE  LET here == todo[1]
             m == IF At(here.path) = Dir THEN Len(Listed(here.path)) ELSE 0
         IN /\ Head(todo) = here /\ here \in Steps /\ m \in Nat
            /\ Rest(todo) \in Seq(Steps)
            /\ Len(Rest(todo)) = m + Len(todo) - 1
            /\ \A i \in 1..m : Rest(todo)[i] = [top |-> here.top, path |-> Listed(here.path)[i]]
            /\ \A i \in m + 1..m + Len(todo) - 1 : Rest(todo)[i] = todo[i - m + 1]
<1> DEFINE here == todo[1]
           inside == IF At(here.path) = Dir THEN Listed(here.path) ELSE <<>>
           m == Len(inside)
           first == [i \in 1..m |-> [top |-> here.top, path |-> inside[i]]]
<1>1. Len(todo) \in Nat /\ Len(todo) > 0 BY EmptySeq
<1>2. /\ Head(todo) = here /\ here \in Steps /\ Tail(todo) \in Seq(Steps) /\ Len(Tail(todo)) = Len(todo) - 1
      /\ \A i \in 1..Len(Tail(todo)) : Tail(todo)[i] = todo[i + 1]
  BY <1>1, HeadTailProperties
<1>3. here.path \in Nodes /\ here.top \in Nodes BY <1>2 DEF Steps
<1>4. inside \in Seq(Nodes)
  <2>1. Listed(here.path) \in Seq({p \in Paths : Parent(p) = here.path /\ tree[p] # None})
    BY <1>3, ListedIs
  <2>2. Listed(here.path) \in Seq(Nodes) BY <2>1, SeqMonotonic DEF Nodes
  <2> QED BY <2>2, EmptySeq
<1>5. m \in Nat /\ \A i \in 1..m : inside[i] \in Nodes
  <2> HIDE DEF inside
  <2> QED BY <1>4
<1>6. first \in Seq(Steps) /\ Len(first) = m
  <2>1. \A i \in 1..m : [top |-> here.top, path |-> inside[i]] \in Steps BY <1>3, <1>5 DEF Steps
  <2> HIDE DEF inside, m, here
  <2> QED BY <1>5, <2>1, IsASeq
<1>7. Rest(todo) = first \o Tail(todo) BY <1>2 DEF Rest
<1>8. m = IF At(here.path) = Dir THEN Len(Listed(here.path)) ELSE 0 BY EmptySeq
<1>9. \A i \in 1..m : At(here.path) = Dir BY <1>8
<1>10. \A i \in 1..m : first[i] = [top |-> here.top, path |-> Listed(here.path)[i]] BY <1>9
<1> HIDE DEF first, m, inside
<1>11. /\ Rest(todo) \in Seq(Steps) /\ Len(Rest(todo)) = m + Len(todo) - 1
       /\ \A i \in 1..m : Rest(todo)[i] = first[i]
       /\ \A i \in m + 1..m + Len(todo) - 1 : Rest(todo)[i] = Tail(todo)[i - m]
  <2>1. /\ first \o Tail(todo) \in Seq(Steps)
        /\ Len(first \o Tail(todo)) = Len(first) + Len(Tail(todo))
        /\ \A i \in 1..Len(first) + Len(Tail(todo)) : (first \o Tail(todo))[i] =
             IF i <= Len(first) THEN first[i] ELSE Tail(todo)[i - Len(first)]
    BY <1>2, <1>6, ConcatProperties
  <2> HIDE DEF here
  <2> QED BY <1>1, <1>2, <1>5, <1>6, <1>7, <2>1
<1>12. \A i \in m + 1..m + Len(todo) - 1 : Rest(todo)[i] = todo[i - m + 1]
  <2> HIDE DEF here
  <2>1. \A i \in m + 1..m + Len(todo) - 1 : i - m \in 1..Len(Tail(todo)) BY <1>1, <1>2, <1>5
  <2> QED BY <1>1, <1>2, <1>5, <1>11, <2>1
<1> QED BY <1>2, <1>5, <1>8, <1>10, <1>11, <1>12

LEMMA ParentThat ==
  ASSUME NEW c \in Paths, NEW f \in Seq(Nat), Len(c) = Len(f) + 1, \A i \in 1..Len(f) : c[i] = f[i]
  PROVE  Parent(c) = f
<1>1. /\ Parent(c) \in Seq(Nat) /\ Len(Parent(c)) = Len(c) - 1
      /\ \A i \in 1..Len(c) - 1 : Parent(c)[i] = c[i]
  BY ParentIs
<1>2. Len(c) - 1 = Len(f) BY PathIs
<1>3. Len(Parent(c)) = Len(f) BY <1>1, <1>2
<1>4. \A i \in 1..Len(f) : Parent(c)[i] = c[i] BY <1>1, <1>2
<1>5. \A i \in 1..Len(f) : Parent(c)[i] = f[i] BY <1>4
<1> QED BY <1>1, <1>3, <1>5, SeqEqual

\* Above an item there are folders.
LEMMA Ancestors ==
  ASSUME TreeTyped, NEW p \in Paths, tree[p] # None, NEW n \in 1..Len(p)
  PROVE  SubSeq(p, 1, n) \in Paths /\ tree[SubSeq(p, 1, n)] # None
<1> DEFINE len == Len(p)
           above(m) == SubSeq(p, 1, m)
           bad == {k \in Nat : k < len /\ tree[above(len - k)] = None}
<1>1. p \in Seq(Nat) /\ len \in Nat /\ len > 0 BY PathIs
<1>2. \A m \in 1..len : above(m) \in Paths BY PathsAssumption
<1>3. \A m \in 1..len : /\ above(m) \in Seq(Nat) /\ Len(above(m)) = m
                        /\ \A i \in 1..m : above(m)[i] = p[i]
  BY <1>1, PrefixIs
<1>4. above(len) = p BY <1>1, SubSeqFull
<1>5. ASSUME NEW m \in 1..len, m + 1 <= len PROVE Parent(above(m + 1)) = above(m)
  <2>1. m + 1 \in 1..len BY <1>1, <1>5
  <2>2. /\ Len(above(m + 1)) = m + 1 /\ Len(above(m)) = m
        /\ above(m + 1) \in Paths /\ above(m) \in Seq(Nat)
        /\ \A i \in 1..m + 1 : above(m + 1)[i] = p[i]
        /\ \A i \in 1..m : above(m)[i] = p[i]
    BY <1>2, <1>3, <2>1
  <2> HIDE DEF above
  <2> DEFINE u == above(m + 1)
             v == above(m)
  <2>3. /\ Len(u) = m + 1 /\ Len(v) = m /\ u \in Paths /\ v \in Seq(Nat)
        /\ \A i \in 1..m + 1 : u[i] = p[i]
        /\ \A i \in 1..m : v[i] = p[i]
    BY <2>2
  <2> HIDE DEF u, v
  <2>4. \A i \in 1..m : i \in 1..m + 1 BY <1>1
  <2>5. \A i \in 1..Len(v) : u[i] = v[i] BY <2>3, <2>4
  <2>6. Parent(u) = v BY <2>3, <2>5, ParentThat
  <2> QED BY <2>6 DEF u, v
<1>6. bad = {}
  <2> SUFFICES ASSUME bad # {} PROVE FALSE OBVIOUS
  <2>1. Min(bad) \in bad /\ \A y \in bad : Min(bad) <= y
    <3>1. bad \in SUBSET Nat OBVIOUS
    <3> HIDE DEF bad
    <3> QED BY <3>1, LeastNatural
  <2> DEFINE k == Min(bad)
             m == len - k
  <2>2. k \in Nat /\ k < len /\ tree[above(m)] = None BY <2>1
  <2>3. ASSUME k = 0 PROVE FALSE
    <3>1. m = len BY <1>1, <2>2, <2>3
    <3> HIDE DEF k, m, len, above
    <3> QED BY <1>4, <2>2, <3>1
  <2>4. k - 1 \in Nat /\ k - 1 < len /\ ~(k <= k - 1) BY <1>1, <2>2, <2>3
  <2>5. k - 1 \notin bad BY <2>1, <2>4
  <2>6. len - (k - 1) = m + 1 /\ m \in 1..len /\ m + 1 <= len /\ m + 1 \in 1..len BY <1>1, <2>2, <2>3
  <2>7. tree[above(m + 1)] # None BY <2>4, <2>5, <2>6
  <2>8. Parent(above(m + 1)) = above(m) BY <1>5, <2>6
  <2>9. above(m) # <<>> /\ above(m + 1) \in Paths BY <1>2, <2>6, PathIs
  <2> HIDE DEF above, bad, k, m, len
  <2> QED BY <2>2, <2>7, <2>8, <2>9, MarksAssumption DEF TreeTyped, At
<1>7. len - n \notin bad BY <1>6
<1>8. len - n \in Nat /\ len - n < len /\ len - (len - n) = n BY <1>1
<1>9. tree[above(n)] # None BY <1>7, <1>8
<1> QED BY <1>2, <1>9

\* On the way to an item there is a folder with an entry that leads to it.
Under(f, p) == f = p \/ Below(f, p)

LEMMA TheWayDown ==
  ASSUME TreeTyped, NEW p \in Paths, tree[p] # None, NEW f \in Nodes, Below(f, p)
  PROVE  /\ At(f) = Dir
         /\ \E c \in Paths : Parent(c) = f /\ tree[c] # None /\ Under(c, p)
<1> DEFINE n == Len(f) + 1
           c == SubSeq(p, 1, n)
<1>1. p \in Seq(Nat) /\ Len(p) \in Nat /\ f \in Seq(Nat) /\ Len(f) \in Nat BY PathIs, NodeIs DEF Nodes
<1>2. Len(f) < Len(p) /\ \A i \in 1..Len(f) : p[i] = f[i] BY <1>1, BelowAt
<1>3. n \in 1..Len(p) /\ n \in 0..Len(p) /\ n \in Nat /\ Len(f) = n - 1 BY <1>1, <1>2
<1> HIDE DEF n
<1>4. c \in Paths /\ tree[c] # None BY <1>3, Ancestors
<1>5. c \in Seq(Nat) /\ Len(c) = n /\ \A i \in 1..n : c[i] = p[i] BY <1>1, <1>3, PrefixIs
<1> HIDE DEF c
<1>6. Parent(c) = f
  <2>1. Len(c) = Len(f) + 1 /\ \A i \in 1..Len(f) : i \in 1..n BY <1>1, <1>3, <1>5
  <2>2. \A i \in 1..Len(f) : c[i] = f[i] BY <1>2, <1>5, <2>1
  <2> QED BY <1>1, <1>4, <2>1, <2>2, ParentThat
<1>7. Under(c, p)
  <2>1. CASE n = Len(p)
    <3>1. c = p BY <1>1, <1>5, <2>1, SeqEqual
    <3> QED BY <3>1 DEF Under
  <2>2. CASE n < Len(p)
    <3>1. Below(c, p) BY <1>1, <1>5, <2>2, BelowAt
    <3> QED BY <3>1 DEF Under
  <2> QED BY <1>1, <1>3, <2>1, <2>2
<1>8. At(f) = Dir BY <1>4, <1>6 DEF TreeTyped
<1> QED BY <1>4, <1>6, <1>7, <1>8

\* A path that leads to an item still does after its first step, unless it ends
\* there.
LEMMA RestCovers ==
  ASSUME TreeTyped, NEW todo \in Seq(Steps), todo # <<>>, NEW p \in Paths, tree[p] # None,
         NEW i \in 1..Len(todo), Under(todo[i].path, p), ~(i = 1 /\ todo[1].path = p)
  PROVE  \E j \in 1..Len(Rest(todo)) : Under(Rest(todo)[j].path, p)
<1> DEFINE f == todo[1].path
           m == IF At(f) = Dir THEN Len(Listed(f)) ELSE 0
<1>1. /\ m \in Nat /\ Len(Rest(todo)) = m + Len(todo) - 1
      /\ \A j \in 1..m : Rest(todo)[j].path = Listed(f)[j]
      /\ \A j \in m + 1..m + Len(todo) - 1 : Rest(todo)[j] = todo[j - m + 1]
      /\ todo[1] \in Steps
  <2>1. /\ m \in Nat /\ Len(Rest(todo)) = m + Len(todo) - 1
        /\ \A j \in 1..m : Rest(todo)[j] = [top |-> todo[1].top, path |-> Listed(f)[j]]
        /\ \A j \in m + 1..m + Len(todo) - 1 : Rest(todo)[j] = todo[j - m + 1]
        /\ todo[1] \in Steps
    BY RestIs, Zenon
  <2> HIDE DEF m, f
  <2>2. ASSUME NEW j \in 1..m PROVE Rest(todo)[j].path = Listed(f)[j]
    <3>1. Rest(todo)[j] = [top |-> todo[1].top, path |-> Listed(f)[j]] BY <2>1
    <3> QED BY <3>1
  <2> QED BY <2>1, <2>2
<1>2. Len(todo) \in Nat /\ f \in Nodes BY <1>1 DEF Steps
<1>3. CASE i > 1
  <2> DEFINE j == m + i - 1
  <2> HIDE DEF m
  <2>1. j \in m + 1..m + Len(todo) - 1 /\ j - m + 1 = i /\ j \in 1..m + Len(todo) - 1
    BY <1>1, <1>2, <1>3
  <2>2. Rest(todo)[j] = todo[i] BY <1>1, <2>1
  <2> QED BY <1>1, <2>1, <2>2
<1>4. CASE i = 1
  <2>1. Below(f, p) BY <1>4 DEF Under
  <2>2. PICK c \in Paths : Parent(c) = f /\ tree[c] # None /\ Under(c, p) BY <1>2, <2>1, TheWayDown
  <2>3. At(f) = Dir BY <1>2, <2>1, TheWayDown
  <2>4. PICK j \in 1..Len(Listed(f)) : Listed(f)[j] = c BY <1>2, <2>2, ListedIs
  <2>5. j \in 1..m BY <2>3, <2>4
  <2> HIDE DEF m, f
  <2>6. j \in 1..Len(Rest(todo)) BY <1>1, <1>2, <2>5
  <2> QED BY <1>1, <2>2, <2>4, <2>5, <2>6
<1> QED BY <1>2, <1>3, <1>4

-----------------------------------------------------------------------------
(* What is asked for, and the names it gets.                               *)

SelOK == sel \in Siblings \cup {{<<>>}}

\* How much of a path its name leaves out.
Depth(s) == IF s = <<>> THEN 0 ELSE Len(s) - 1

LEMMA ImageFinite == ASSUME NEW S \in SUBSET Paths, IsFiniteSet(S) PROVE IsFiniteSet({Parent(p) : p \in S})
<1> DEFINE T == {Parent(p) : p \in S}
           f == [p \in S |-> Parent(p)]
<1>1. f \in Surjection(S, T) BY DEF Surjection
<1> HIDE DEF f, T
<1>2. IsFiniteSet(T) BY <1>1, FS_Surjection
<1> QED BY <1>2 DEF T

\* What is asked for is the root or things of one folder.
LEMMA SelIs ==
  ASSUME SelOK
  PROVE  /\ sel \subseteq Nodes /\ IsFiniteSet(sel) /\ sel # {}
         /\ sel = {<<>>} \/ (sel \subseteq Paths /\ \A s, t \in sel : Parent(s) = Parent(t))
<1>1. CASE sel = {<<>>}
  <2>1. IsFiniteSet({<<>>}) BY FS_Singleton, Zenon
  <2> QED BY <1>1, <2>1 DEF Nodes
<1>2. CASE sel \in Siblings
  <2>1. sel \subseteq Paths /\ sel # {} /\ Cardinality({Parent(p) : p \in sel}) = 1 BY <1>2 DEF Siblings
  <2>2. IsFiniteSet(sel) BY <2>1, FiniteAssumption, FS_Subset
  <2>3. IsFiniteSet({Parent(p) : p \in sel}) BY <2>1, <2>2, ImageFinite
  <2>4. PICK f : {Parent(p) : p \in sel} = {f} BY <2>1, <2>3, FS_Singleton
  <2>5. \A s \in sel : Parent(s) = f BY <2>4
  <2> QED BY <2>1, <2>2, <2>5 DEF Nodes
<1> QED BY <1>1, <1>2 DEF SelOK

\* A name is the path without the folder that is asked for things of.
LEMMA NameIs ==
  ASSUME NEW s \in Nodes, NEW p \in Nodes, Under(s, p)
  PROVE  /\ Depth(s) \in Nat /\ Depth(s) <= Len(p)
         /\ NameOf(s, p) \in Seq(Nat) /\ Len(NameOf(s, p)) = Len(p) - Depth(s)
         /\ \A i \in 1..Len(p) - Depth(s) : NameOf(s, p)[i] = p[Depth(s) + i]
<1>1. /\ s \in Seq(Nat) /\ Len(s) \in Nat /\ p \in Seq(Nat) /\ Len(p) \in Nat
      /\ \A i \in 1..Len(p) : p[i] \in Nat
  BY NodeIs DEF Nodes
<1>2. Len(s) <= Len(p) BY <1>1 DEF Under, Below
<1>3. CASE s = <<>>
  <2>1. Depth(s) = 0 /\ NameOf(s, p) = p BY <1>3 DEF Depth, NameOf
  <2> QED BY <1>1, <2>1
<1>4. CASE s # <<>>
  <2>1. Len(s) > 0 BY <1>1, <1>4, EmptySeq
  <2> DEFINE m == Len(s)
             n == Len(p)
  <2>2. Depth(s) = m - 1 /\ NameOf(s, p) = SubSeq(p, m, n) BY <1>4 DEF Depth, NameOf
  <2>3. m \in Int /\ n \in Int /\ m <= n /\ m > 0 /\ \A i \in m..n : p[i] \in Nat
    BY <1>1, <1>2, <2>1
  <2> HIDE DEF m, n
  <2>4. /\ SubSeq(p, m, n) \in Seq(Nat) /\ Len(SubSeq(p, m, n)) = n - m + 1
        /\ \A i \in 1..n - m + 1 : SubSeq(p, m, n)[i] = p[m + i - 1]
    BY <2>3, SubSeqProperties
  <2>5. n - m + 1 = n - (m - 1) /\ m - 1 \in Nat /\ m - 1 <= n BY <2>3
  <2>6. \A i \in 1..n - (m - 1) : m + i - 1 = (m - 1) + i BY <2>3
  <2>7. \A i \in 1..n - (m - 1) : SubSeq(p, m, n)[i] = p[(m - 1) + i] BY <2>4, <2>5, <2>6
  <2> QED BY <2>2, <2>4, <2>5, <2>7 DEF n
<1> QED BY <1>3, <1>4

\* Below what is asked for, paths agree on what their names leave out.
LEMMA SelAgrees ==
  ASSUME SelOK, NEW s \in sel, NEW t \in sel, NEW p \in Nodes, NEW q \in Nodes, Under(s, p), Under(t, q)
  PROVE  Depth(s) = Depth(t) /\ \A i \in 1..Depth(s) : p[i] = q[i]
<1>1. CASE sel = {<<>>} BY <1>1 DEF Depth
<1>2. CASE sel \subseteq Paths /\ Parent(s) = Parent(t)
  <2>1. /\ s \in Paths /\ t \in Paths /\ Len(s) \in Nat /\ Len(t) \in Nat /\ Len(s) > 0 /\ Len(t) > 0
        /\ s # <<>> /\ t # <<>> /\ s \in Seq(Nat) /\ t \in Seq(Nat)
    BY <1>2, PathIs
  <2>2. /\ Len(Parent(s)) = Len(s) - 1 /\ \A i \in 1..Len(s) - 1 : Parent(s)[i] = s[i]
        /\ Len(Parent(t)) = Len(t) - 1 /\ \A i \in 1..Len(t) - 1 : Parent(t)[i] = t[i]
    BY <2>1, ParentIs
  <2>3. Len(s) = Len(t) BY <1>2, <2>1, <2>2
  <2>4. Depth(s) = Len(s) - 1 /\ Depth(t) = Len(s) - 1 BY <2>1, <2>3 DEF Depth
  <2>5. p \in Seq(Nat) /\ q \in Seq(Nat) BY NodeIs DEF Nodes
  <2>6. \A i \in 1..Len(s) : p[i] = s[i] BY <2>1, <2>5, BelowAt DEF Under
  <2>7. \A i \in 1..Len(t) : q[i] = t[i] BY <2>1, <2>5, BelowAt DEF Under
  <2>8. \A i \in 1..Len(s) - 1 : i \in 1..Len(s) /\ i \in 1..Len(t) BY <2>1, <2>3
  <2>9. \A i \in 1..Len(s) - 1 : s[i] = t[i] BY <1>2, <2>2, <2>3
  <2>10. \A i \in 1..Len(s) - 1 : p[i] = q[i] BY <2>6, <2>7, <2>8, <2>9
  <2> QED BY <2>4, <2>10
<1> QED BY <1>1, <1>2, SelIs

\* Names are in the order of their paths, and different as they are.
LEMMA NamesApart ==
  ASSUME SelOK, NEW s \in sel, NEW t \in sel, NEW p \in Nodes, NEW q \in Nodes, Under(s, p), Under(t, q)
  PROVE  /\ Apart(p, q) => Apart(NameOf(s, p), NameOf(t, q))
         /\ Below(p, q) => Below(NameOf(s, p), NameOf(t, q))
         /\ NameOf(s, p) = NameOf(t, q) => p = q
<1> DEFINE k == Depth(s)
           a == NameOf(s, p)
           b == NameOf(t, q)
<1>1. /\ p \in Seq(Nat) /\ q \in Seq(Nat) /\ Len(p) \in Nat /\ Len(q) \in Nat
      /\ s \in Nodes /\ t \in Nodes
  BY NodeIs, SelIs DEF Nodes
<1>2. k = Depth(t) /\ \A i \in 1..k : p[i] = q[i] BY SelAgrees
<1>3. /\ k \in Nat /\ k <= Len(p) /\ a \in Seq(Nat) /\ Len(a) = Len(p) - k
      /\ \A i \in 1..Len(p) - k : a[i] = p[k + i]
  BY <1>1, NameIs
<1>4. /\ k <= Len(q) /\ b \in Seq(Nat) /\ Len(b) = Len(q) - k
      /\ \A i \in 1..Len(q) - k : b[i] = q[k + i]
  BY <1>1, <1>2, NameIs
<1> HIDE DEF k, a, b
<1>5. ASSUME Apart(p, q) PROVE Apart(a, b)
  <2>1. PICK i : PartsAt(p, q, i) BY <1>1, <1>5, ApartAt
  <2>2. i \in Nat /\ 1 <= i /\ i <= Len(p) /\ i <= Len(q) /\ p[i] < q[i]
        /\ \A j \in Nat : 1 <= j /\ j < i => p[j] = q[j]
    BY <2>1 DEF PartsAt
  <2>3. p[i] \in Nat /\ q[i] \in Nat BY <1>1, <2>2
  <2>4. p[i] # q[i] BY <2>2, <2>3
  <2>5. ~(i <= k) BY <1>2, <2>2, <2>4
  <2> DEFINE h == i - k
  <2>6. h \in Nat /\ 1 <= h /\ h <= Len(a) /\ h <= Len(b) /\ k + h = i BY <1>1, <1>3, <1>4, <2>2, <2>5
  <2>7. h \in 1..Len(p) - k /\ h \in 1..Len(q) - k BY <1>3, <1>4, <2>6
  <2> HIDE DEF h
  <2>8. a[h] < b[h] BY <1>3, <1>4, <2>2, <2>6, <2>7
  <2>9. ASSUME NEW j \in Nat, 1 <= j, j < h PROVE a[j] = b[j]
    <3> DEFINE m == Len(p) - k
               n == Len(q) - k
    <3>0. m \in Int /\ n \in Int /\ h <= m /\ h <= n BY <1>1, <1>3, <1>4, <2>6
    <3> HIDE DEF m, n
    <3>1. j \in 1..m /\ j \in 1..n BY <2>6, <2>9, <3>0
    <3>2. k + j \in Nat /\ 1 <= k + j /\ k + j < i BY <1>3, <2>6, <2>9
    <3>3. p[k + j] = q[k + j] BY <2>2, <3>2
    <3> QED BY <1>3, <1>4, <3>1, <3>3 DEF m, n
  <2>10. PartsAt(a, b, h) BY <2>6, <2>8, <2>9 DEF PartsAt
  <2> QED BY <1>3, <1>4, <2>10, ApartAt
<1>6. ASSUME Below(p, q) PROVE Below(a, b)
  <2>1. Len(p) < Len(q) /\ \A i \in 1..Len(p) : q[i] = p[i] BY <1>1, <1>6, BelowAt
  <2>2. ASSUME NEW j \in 1..Len(a) PROVE b[j] = a[j]
    <3>1. j \in 1..Len(p) - k /\ j \in 1..Len(q) - k /\ k + j \in 1..Len(p) BY <1>1, <1>3, <1>4, <2>1
    <3> QED BY <1>3, <1>4, <2>1, <3>1
  <2>3. Len(a) < Len(b) BY <1>1, <1>3, <1>4, <2>1
  <2> QED BY <1>3, <1>4, <2>2, <2>3, BelowAt
<1>7. ASSUME a = b PROVE p = q
  <2>1. Len(p) = Len(q) BY <1>1, <1>3, <1>4, <1>7
  <2>2. ASSUME NEW i \in 1..Len(p) PROVE p[i] = q[i]
    <3>1. CASE i <= k BY <1>2, <3>1
    <3>2. CASE i > k
      <4> DEFINE h == i - k
      <4>1. h \in 1..Len(p) - k /\ h \in 1..Len(q) - k /\ k + h = i BY <1>1, <1>3, <2>1, <3>2
      <4> HIDE DEF h
      <4>2. a[h] = p[i] /\ b[h] = q[i] BY <1>3, <1>4, <4>1
      <4> QED BY <1>7, <4>2
    <3> QED BY <1>3, <3>1, <3>2
  <2> QED BY <1>1, <2>1, <2>2, SeqEqual
<1> QED BY <1>5, <1>6, <1>7 DEF a, b

\* A walk of what is asked for: each path below what it is asked for with, and
\* the paths in order, none below another.
EntryOf(s, e) == e \in Steps /\ e.top \in s /\ Under(e.top, e.path)
Walks(s, todo) ==
  /\ todo \in Seq(Steps)
  /\ \A i \in 1..Len(todo) : EntryOf(s, todo[i])
  /\ \A i, j \in 1..Len(todo) : i < j => Apart(todo[i].path, todo[j].path)

LEMMA WalkStarts ==
  ASSUME SelOK
  PROVE  Walks(sel, Walk(sel)) /\ \A s \in sel : \E i \in 1..Len(Walk(sel)) : Walk(sel)[i].path = s
<1> DEFINE n == Cardinality(sel)
           less(a, b) == Before(NameOf(a, a), NameOf(b, b))
           R == IF sel = {<<>>} THEN {} ELSE LastOrder(sel)
           s == CHOOSE s \in [1..n -> sel] : \A i, j \in DOMAIN s : i < j => less(s[i], s[j])
<1>1. n \in Nat /\ IsFiniteSet(sel) /\ sel \subseteq Nodes BY SelIs, FS_CardinalityType
<1>2. Orders(R, sel)
  <2>1. CASE sel = {<<>>} BY <2>1 DEF Orders
  <2>2. CASE sel # {<<>>} BY <2>2, SelIs, LastOrders
  <2> QED BY <2>1, <2>2
<1>3. ASSUME NEW a \in sel, NEW b \in sel
      PROVE  /\ <<a, b>> \in R => Apart(a, b) /\ less(a, b)
             /\ less(a, b) /\ a # b => <<a, b>> \in R
  <2>1. a \in Nodes /\ b \in Nodes /\ Under(a, a) /\ Under(b, b) BY <1>1 DEF Under
  <2>2. NameOf(a, a) \in Seq(Nat) /\ NameOf(b, b) \in Seq(Nat) BY <2>1, NameIs
  <2>3. CASE sel = {<<>>} BY <2>3
  <2>4. CASE sel # {<<>>}
    <3>1. a \in Paths /\ b \in Paths /\ Parent(a) = Parent(b) BY <2>4, SelIs
    <3>2. <<a, b>> \in R <=> a[Len(a)] < b[Len(b)] BY <2>4 DEF LastOrder
    <3>3. <<b, a>> \in R <=> b[Len(b)] < a[Len(a)] BY <2>4 DEF LastOrder
    <3>4. <<a, b>> \in R => Apart(a, b) BY <3>1, <3>2, SiblingsAt
    <3>5. <<b, a>> \in R => Apart(b, a) BY <3>1, <3>3, SiblingsAt
    <3>6. Apart(a, b) => less(a, b) BY <2>1, NamesApart, BeforeIs
    <3>7. Apart(b, a) => less(b, a) BY <2>1, NamesApart, BeforeIs
    <3>8. ~(less(a, b) /\ less(b, a)) BY <2>2, BeforeTransitive, BeforeIrreflexive
    <3>9. a # b => <<a, b>> \in R \/ <<b, a>> \in R BY <1>2 DEF Orders
    <3> HIDE DEF R, less
    <3> QED BY <3>4, <3>5, <3>6, <3>7, <3>8, <3>9
  <2> QED BY <2>3, <2>4
<1>4. Walk(sel) = [i \in DOMAIN s |-> [top |-> s[i], path |-> s[i]]] BY DEF Walk, Sorted
<1>5. PICK w \in [1..n -> sel] : \A i, j \in 1..n : i < j => <<w[i], w[j]>> \in R
  <2> HIDE DEF R
  <2> QED BY <1>1, <1>2, InOrderExists
<1>6. \A i, j \in DOMAIN w : i < j => less(w[i], w[j])
  <2> HIDE DEF n, R, less
  <2> QED BY <1>3, <1>5
<1>7. s \in [1..n -> sel] /\ \A i, j \in 1..n : i < j => less(s[i], s[j])
  <2> HIDE DEF n, less
  <2> QED BY <1>6
<1> HIDE DEF s
<1>8. \A i, j \in 1..n : i < j => <<s[i], s[j]>> \in R
  <2> SUFFICES ASSUME NEW i \in 1..n, NEW j \in 1..n, i < j PROVE <<s[i], s[j]>> \in R OBVIOUS
  <2>1. s[i] \in sel /\ s[j] \in sel /\ less(s[i], s[j])
    <3> HIDE DEF less, n
    <3> QED BY <1>7
  <2>2. NameOf(s[i], s[i]) \in Seq(Nat) BY <1>1, <2>1, NameIs DEF Under
  <2>3. s[i] # s[j] BY <2>1, <2>2, BeforeIrreflexive
  <2> HIDE DEF less, n, R
  <2> QED BY <1>3, <2>1, <2>3
<1>9. \A x \in sel : \E k \in 1..n : s[k] = x
  <2> HIDE DEF R
  <2> QED BY <1>1, <1>2, <1>7, <1>8, InOrderHas
<1> HIDE DEF n, R, less
<1>10. Walk(sel) = [i \in 1..n |-> [top |-> s[i], path |-> s[i]]] BY <1>4, <1>7
<1>11. \A i \in 1..n : s[i] \in sel /\ s[i] \in Nodes BY <1>1, <1>7
<1>12. Walk(sel) \in [1..n -> Steps] BY <1>10, <1>11 DEF Steps
<1>13. Walk(sel) \in Seq(Steps) /\ Len(Walk(sel)) = n BY <1>1, <1>12, SeqIs
<1>14. ASSUME NEW i \in 1..n
       PROVE  Walk(sel)[i].top = s[i] /\ Walk(sel)[i].path = s[i] /\ Walk(sel)[i] \in Steps
  <2>1. Walk(sel)[i] = [top |-> s[i], path |-> s[i]] BY <1>10
  <2> QED BY <1>11, <2>1 DEF Steps
<1>15. \A i \in 1..n : EntryOf(sel, Walk(sel)[i]) BY <1>11, <1>14 DEF EntryOf, Under
<1>16. ASSUME NEW i \in 1..n, NEW j \in 1..n, i < j PROVE Apart(Walk(sel)[i].path, Walk(sel)[j].path)
  <2>1. Apart(s[i], s[j]) BY <1>3, <1>8, <1>11, <1>16
  <2> QED BY <1>14, <2>1
<1>17. \A x \in sel : \E i \in 1..n : Walk(sel)[i].path = x BY <1>9, <1>14
<1> QED BY <1>13, <1>15, <1>16, <1>17 DEF Walks

\* The rest of a walk is one: what comes after the first path is below it or
\* was to be visited before.
LEMMA RestWalks ==
  ASSUME TreeTyped, NEW s \in SUBSET Nodes, NEW todo, Walks(s, todo), todo # <<>>
  PROVE  /\ Walks(s, Rest(todo))
         /\ \A i \in 1..Len(Rest(todo)) :
              \/ \E j \in 2..Len(todo) : Rest(todo)[i] = todo[j]
              \/ Below(todo[1].path, Rest(todo)[i].path) /\ At(todo[1].path) = Dir
                 /\ Rest(todo)[i].path \in Paths /\ tree[Rest(todo)[i].path] # None
<1> DEFINE f == todo[1].path
           m == IF At(f) = Dir THEN Len(Listed(f)) ELSE 0
           n == m + Len(todo) - 1
           rest == Rest(todo)
<1>1. todo \in Seq(Steps) /\ Len(todo) \in Nat /\ Len(todo) > 0 BY EmptySeq DEF Walks
<1>2. /\ m \in Nat /\ rest \in Seq(Steps) /\ Len(rest) = n /\ todo[1] \in Steps
      /\ \A i \in 1..m : rest[i] = [top |-> todo[1].top, path |-> Listed(f)[i]]
      /\ \A i \in m + 1..n : rest[i] = todo[i - m + 1]
  BY <1>1, RestIs, Zenon
<1>3. EntryOf(s, todo[1]) /\ f \in Nodes /\ f \in Seq(Nat) /\ todo[1].top \in Nodes /\ todo[1].top \in Seq(Nat)
  BY <1>1, <1>2, NodeIs DEF Walks, Steps, Nodes
<1>4. ASSUME NEW i \in 1..m
      PROVE  /\ At(f) = Dir /\ Listed(f)[i] \in Paths /\ tree[Listed(f)[i]] # None
             /\ Below(f, Listed(f)[i]) /\ Listed(f)[i] \in Seq(Nat)
  <2>1. At(f) = Dir /\ i \in 1..Len(Listed(f)) BY <1>4
  <2>2. Listed(f) \in Seq({p \in Paths : Parent(p) = f /\ tree[p] # None}) BY <1>3, ListedIs
  <2>3. Listed(f)[i] \in Paths /\ Parent(Listed(f)[i]) = f /\ tree[Listed(f)[i]] # None BY <2>1, <2>2
  <2>4. Below(f, Listed(f)[i]) BY <2>3, ParentIs
  <2> QED BY <2>1, <2>3, <2>4, PathIs
<1>5. \A i, j \in 1..m : i < j => Apart(Listed(f)[i], Listed(f)[j])
  <2>1. \A i \in 1..m : i \in 1..Len(Listed(f)) OBVIOUS
  <2> HIDE DEF m
  <2> QED BY <1>3, <2>1, ListedIs
<1>6. ASSUME NEW i \in m + 1..n PROVE i - m + 1 \in 2..Len(todo) BY <1>1, <1>2, <1>6
<1> HIDE DEF m
<1>7. \A i \in 1..n : i \in 1..m \/ i \in m + 1..n BY <1>1, <1>2
<1>8. ASSUME NEW i \in 1..m
      PROVE  EntryOf(s, rest[i]) /\ rest[i].path = Listed(f)[i]
  <2>1. rest[i] = [top |-> todo[1].top, path |-> Listed(f)[i]] BY <1>2
  <2>2. Under(todo[1].top, f) /\ todo[1].top \in s BY <1>3 DEF EntryOf
  <2>3. Under(todo[1].top, Listed(f)[i]) BY <1>3, <1>4, <2>2, BelowTransitive DEF Under
  <2> QED BY <1>3, <1>4, <2>1, <2>2, <2>3 DEF EntryOf, Steps, Nodes
<1>9. \A i \in m + 1..n : EntryOf(s, rest[i])
  <2>1. \A j \in 2..Len(todo) : EntryOf(s, todo[j]) BY <1>1 DEF Walks
  <2> QED BY <1>2, <1>6, <2>1
<1>10. ASSUME NEW i \in 1..n, NEW j \in 1..n, i < j PROVE Apart(rest[i].path, rest[j].path)
  <2>1. CASE i \in 1..m /\ j \in 1..m BY <1>5, <1>8, <1>10, <2>1
  <2>2. CASE i \in 1..m /\ j \in m + 1..n
    <3> DEFINE k == j - m + 1
    <3>1. k \in 2..Len(todo) /\ rest[j] = todo[k] BY <1>2, <1>6, <2>2
    <3> HIDE DEF k
    <3>2. Apart(f, todo[k].path) BY <1>1, <3>1 DEF Walks
    <3>3. k \in 1..Len(todo) BY <1>1, <3>1
    <3>4. todo[k] \in Steps BY <1>1, <3>3
    <3>5. todo[k].path \in Seq(Nat) BY <3>4, NodeIs DEF Steps, Nodes
    <3>6. Apart(Listed(f)[i], todo[k].path) BY <1>3, <1>4, <2>2, <3>2, <3>5, ApartBelow
    <3> QED BY <1>8, <2>2, <3>1, <3>6
  <2>3. CASE i \in m + 1..n /\ j \in m + 1..n
    <3> DEFINE k == i - m + 1
               l == j - m + 1
    <3>1. k \in 2..Len(todo) /\ l \in 2..Len(todo) BY <1>6, <2>3
    <3>2. rest[i] = todo[k] /\ rest[j] = todo[l] BY <1>2, <2>3
    <3>3. k < l
      <4>1. m \in Nat /\ n \in Int BY <1>1, <1>2
      <4>2. \A x, y \in 1..n : x < y => x - m + 1 < y - m + 1
        <5> HIDE DEF n
        <5> QED BY ONLY <4>1
      <4> QED BY <1>10, <4>2
    <3> HIDE DEF k, l
    <3> QED BY <1>1, <3>1, <3>2, <3>3 DEF Walks
  <2>4. ~(i \in m + 1..n /\ j \in 1..m)
    <3>1. m \in Nat /\ n \in Int BY <1>1, <1>2
    <3>2. \A k, l \in 1..n : ~(k < l /\ k \in m + 1..n /\ l \in 1..m)
      <4> HIDE DEF n
      <4> QED BY ONLY <3>1
    <3> QED BY <1>10, <3>2
  <2> QED BY <1>7, <2>1, <2>2, <2>3, <2>4
<1>11. ASSUME NEW i \in 1..n
       PROVE  \/ \E j \in 2..Len(todo) : rest[i] = todo[j]
              \/ Below(f, rest[i].path) /\ At(f) = Dir /\ rest[i].path \in Paths /\ tree[rest[i].path] # None
  <2>1. CASE i \in 1..m BY <1>4, <1>8, <2>1
  <2>2. CASE i \in m + 1..n BY <1>2, <1>6, <2>2
  <2> QED BY <1>7, <2>1, <2>2
<1> HIDE DEF n, rest
<1>12. Walks(s, rest) BY <1>2, <1>7, <1>8, <1>9, <1>10 DEF Walks
<1> QED BY <1>2, <1>11, <1>12 DEF rest

-----------------------------------------------------------------------------
(* The ranges of a plan.                                                   *)

Ranges == [from : {None} \cup Seq(Nat), to : {None} \cup Seq(Nat), files : Nat, bytes : Nat]

\* From nothing to nothing, each range ending where the next begins.
Bounded(parts) ==
  /\ parts \in Seq(Ranges) /\ Len(parts) > 0
  /\ parts[1].from = None /\ parts[Len(parts)].to = None
  /\ \A k \in 1..Len(parts) - 1 : parts[k].to = parts[k + 1].from
  /\ \A k \in 2..Len(parts) : parts[k].from # None
  /\ \A j, k \in 2..Len(parts) : j < k => Before(parts[j].from, parts[k].from)

LEMMA BoundsAre ==
  ASSUME NEW parts, Bounded(parts)
  PROVE  /\ Len(parts) \in Nat /\ Len(parts) > 0
         /\ \A k \in 1..Len(parts) : parts[k] \in Ranges
         /\ \A k \in 2..Len(parts) : parts[k].from \in Seq(Nat)
<1>1. parts \in Seq(Ranges) /\ Len(parts) > 0 /\ \A k \in 2..Len(parts) : parts[k].from # None
  BY DEF Bounded
<1>2. Len(parts) \in Nat /\ \A k \in 1..Len(parts) : parts[k] \in Ranges BY <1>1
<1>3. \A k \in 2..Len(parts) : k \in 1..Len(parts) BY <1>2
<1> QED BY <1>1, <1>2, <1>3 DEF Ranges

\* No name is in two ranges.
LEMMA RangesApart ==
  ASSUME NEW parts, Bounded(parts), NEW j \in 1..Len(parts), NEW k \in 1..Len(parts), j < k,
         NEW n \in Seq(Nat), InRange(n, parts[j])
  PROVE  ~InRange(n, parts[k])
<1>1. Len(parts) \in Nat /\ j + 1 \in 2..Len(parts) /\ k \in 2..Len(parts) /\ j \in 1..Len(parts) - 1
  BY BoundsAre
<1>2. parts[j].to = parts[j + 1].from /\ parts[j + 1].from # None /\ parts[k].from # None
  BY <1>1 DEF Bounded
<1>3. parts[j + 1].from \in Seq(Nat) /\ parts[k].from \in Seq(Nat) BY <1>1, BoundsAre
<1>4. Before(n, parts[j + 1].from) BY <1>2 DEF InRange
<1>5. Before(n, parts[k].from)
  <2>1. CASE j + 1 = k BY <1>4, <2>1
  <2>2. CASE j + 1 < k
    <3>1. Before(parts[j + 1].from, parts[k].from) BY <1>1, <2>2 DEF Bounded
    <3> QED BY <1>3, <1>4, <3>1, BeforeTransitive
  <2>3. j + 1 = k \/ j + 1 < k BY <1>1
  <2> QED BY <2>1, <2>2, <2>3
<1> QED BY <1>2, <1>5 DEF InRange

\* Every name is in a range.
LEMMA RangesCover ==
  ASSUME NEW parts, Bounded(parts), NEW n \in Seq(Nat)
  PROVE  \E k \in 1..Len(parts) : InRange(n, parts[k])
<1> DEFINE len == Len(parts)
           reached(k) == parts[k].from = None \/ ~Before(n, parts[k].from)
           S == {m \in Nat : m < len /\ reached(len - m)}
<1>1. len \in Nat /\ len > 0 BY BoundsAre
<1>2. reached(1) BY DEF Bounded
<1>3. S # {}
  <2>1. len - 1 \in Nat /\ len - 1 < len /\ len - (len - 1) = 1 BY <1>1
  <2> HIDE DEF len, reached
  <2>2. len - 1 \in S BY <1>2, <2>1
  <2> QED BY <2>2
<1>4. Min(S) \in S /\ \A y \in S : Min(S) <= y
  <2>1. S \in SUBSET Nat OBVIOUS
  <2> HIDE DEF S
  <2> QED BY <1>3, <2>1, LeastNatural
<1> DEFINE m == Min(S)
           k == len - m
<1>5. m \in Nat /\ m < len /\ reached(k) /\ \A y \in S : m <= y
  <2> HIDE DEF len, reached
  <2> QED BY <1>4
<1>6. k \in 1..len /\ k \in Nat BY <1>1, <1>5
<1>7. CASE m = 0
  <2>1. k = len BY <1>1, <1>7
  <2>2. parts[k].to = None BY <2>1 DEF Bounded
  <2> QED BY <1>5, <1>6, <2>2 DEF InRange
<1>8. CASE m > 0
  <2>1. m - 1 \in Nat /\ m - 1 < len /\ ~(m <= m - 1) /\ len - (m - 1) = k + 1 BY <1>1, <1>5, <1>8
  <2>2. ~reached(k + 1)
    <3>1. m - 1 \notin S BY <1>5, <2>1
    <3> HIDE DEF reached, m, k, len
    <3> QED BY <2>1, <3>1
  <2>3. k \in 1..len - 1 BY <1>1, <1>5, <1>8
  <2>4. parts[k].to = parts[k + 1].from BY <2>3 DEF Bounded
  <2>5. Before(n, parts[k].to) BY <2>2, <2>4
  <2> QED BY <1>5, <1>6, <2>5 DEF InRange
<1> QED BY <1>5, <1>7, <1>8

\* One range, and one range more.
LEMMA FirstBounded == Bounded(<<Open(None, None)>>)
<1> DEFINE r == Open(None, None)
           parts == <<r>>
<1>1. r \in Ranges /\ r.from = None /\ r.to = None BY DEF Open, Ranges
<1> HIDE DEF r
<1>2. parts \in Seq(Ranges) /\ Len(parts) = 1 /\ parts[1] = r BY <1>1
<1>3. Bounded(parts)
  <2> HIDE DEF parts
  <2>1. \A k \in 1..0 : FALSE OBVIOUS
  <2>2. \A k \in 2..1 : FALSE OBVIOUS
  <2> QED BY <1>1, <1>2, <2>1, <2>2 DEF Bounded
<1> QED BY <1>3 DEF parts, r

LEMMA NextBounded ==
  ASSUME NEW parts, Bounded(parts), NEW n \in Seq(Nat), n # None,
         \A k \in 2..Len(parts) : Before(parts[k].from, n)
  PROVE  LET more == [parts EXCEPT ![Len(parts)].to = n] \o <<Open(n, None)>>
         IN /\ Bounded(more) /\ Len(more) = Len(parts) + 1
            /\ \A k \in 1..Len(parts) : more[k] = IF k = Len(parts) THEN [parts[k] EXCEPT !.to = n] ELSE parts[k]
            /\ more[Len(parts) + 1] = Open(n, None)
<1> DEFINE len == Len(parts)
           end == [parts[len] EXCEPT !.to = n]
           cut == [parts EXCEPT ![len] = end]
           next == Open(n, None)
           more == cut \o <<next>>
<1>1. parts \in Seq(Ranges) /\ len \in Nat /\ len > 0 /\ len \in 1..len /\ parts[len] \in Ranges
  BY BoundsAre DEF Bounded
<1>2. end \in Ranges /\ end.from = parts[len].from /\ end.to = n BY <1>1 DEF Ranges
<1>3. next \in Ranges /\ next.from = n /\ next.to = None BY DEF Ranges, Open
<1>4. [parts EXCEPT ![len].to = n] = cut BY <1>1
<1> HIDE DEF end, next
<1>5. /\ cut \in Seq(Ranges) /\ Len(cut) = len
      /\ \A k \in 1..len : cut[k] = IF k = len THEN end ELSE parts[k]
  <2> HIDE DEF len
  <2>1. len = Len(parts) BY DEF len
  <2> QED BY <1>1, <1>2, <2>1, ExceptSeq
<1> HIDE DEF cut
<1>6. <<next>> \in Seq(Ranges) /\ Len(<<next>>) = 1 /\ <<next>>[1] = next BY <1>3
<1> DEFINE one == <<next>>
<1> HIDE DEF one
<1>7. /\ cut \o one \in Seq(Ranges) /\ Len(cut \o one) = len + 1
      /\ \A k \in 1..len + 1 : (cut \o one)[k] = IF k <= len THEN cut[k] ELSE one[k - len]
  <2>1. one \in Seq(Ranges) /\ Len(one) = 1 BY <1>6 DEF one
  <2>2. /\ cut \o one \in Seq(Ranges) /\ Len(cut \o one) = Len(cut) + Len(one)
        /\ \A k \in 1..Len(cut) + Len(one) : (cut \o one)[k] =
             IF k <= Len(cut) THEN cut[k] ELSE one[k - Len(cut)]
    BY <1>5, <2>1, ConcatProperties
  <2> HIDE DEF len
  <2>3. Len(cut) = len /\ Len(one) = 1 BY <1>5, <2>1
  <2> QED BY <2>2, <2>3, Zenon
<1>8. more = cut \o one BY DEF one
<1> HIDE DEF more
<1>9. \A k \in 1..len : more[k] = IF k = len THEN end ELSE parts[k]
  <2> HIDE DEF len
  <2>1. \A k \in 1..len : k \in 1..len + 1 /\ k <= len BY <1>1
  <2> QED BY <1>5, <1>7, <1>8, <2>1
<1>10. more[len + 1] = next
  <2> HIDE DEF len
  <2>1. len + 1 \in 1..len + 1 /\ ~(len + 1 <= len) /\ (len + 1) - len = 1 BY <1>1
  <2>2. one[1] = next BY <1>6 DEF one
  <2> QED BY <1>7, <1>8, <2>1, <2>2
<1>11. \A k \in 1..len : more[k].from = parts[k].from BY <1>2, <1>9
<1>12. Bounded(more)
  <2>1. /\ parts[1].from = None
        /\ \A k \in 1..len - 1 : parts[k].to = parts[k + 1].from
        /\ \A k \in 2..len : parts[k].from # None
        /\ \A j, k \in 2..len : j < k => Before(parts[j].from, parts[k].from)
        /\ \A k \in 2..len : Before(parts[k].from, n)
    BY DEF Bounded
  <2> HIDE DEF len
  <2>2. more \in Seq(Ranges) /\ Len(more) = len + 1 BY <1>7, <1>8
  <2>3. more[1].from = None
    <3>1. 1 \in 1..len BY <1>1
    <3> QED BY <1>11, <2>1, <3>1
  <2>4. ASSUME NEW k \in 1..len PROVE more[k].to = more[k + 1].from
    <3>1. CASE k = len
      <4>1. more[k].to = n BY <1>2, <1>9, <3>1
      <4> QED BY <1>3, <1>10, <3>1, <4>1
    <3>2. CASE k # len
      <4>1. k \in 1..len - 1 /\ k + 1 \in 1..len BY <1>1, <3>2
      <4>2. more[k] = parts[k] BY <1>9, <3>2
      <4> QED BY <1>11, <2>1, <4>1, <4>2
    <3> QED BY <3>1, <3>2
  <2>5. \A k \in 2..len : k \in 1..len BY <1>1
  <2>6. \A k \in 2..len + 1 : k \in 2..len \/ k = len + 1 BY <1>1
  <2>7. \A k \in 2..len + 1 : more[k].from # None BY <1>3, <1>10, <1>11, <2>1, <2>5, <2>6
  <2>8. ASSUME NEW j \in 2..len + 1, NEW k \in 2..len + 1, j < k
        PROVE  Before(more[j].from, more[k].from)
    <3>1. j \in 2..len BY <1>1, <2>8
    <3>2. CASE k \in 2..len BY <1>11, <2>1, <2>5, <2>8, <3>1, <3>2
    <3>3. CASE k = len + 1 BY <1>3, <1>10, <1>11, <2>1, <2>5, <3>1, <3>3
    <3> QED BY <2>6, <3>2, <3>3
  <2>9. Len(more) > 0 /\ Len(more) - 1 = len BY <1>1, <2>2
  <2>10. more[Len(more)].to = None BY <1>3, <1>10, <2>2
  <2> QED BY <2>2, <2>3, <2>4, <2>7, <2>8, <2>9, <2>10 DEF Bounded
<1> QED BY <1>4, <1>7, <1>8, <1>9, <1>10, <1>12 DEF more, end, next, len

\* What is counted in the last range changes no bound.
OneMore(parts, size) == [parts EXCEPT ![Len(parts)].files = @ + 1, ![Len(parts)].bytes = @ + size]
LEMMA CountedBounded ==
  ASSUME NEW parts, Bounded(parts), NEW size \in Nat
  PROVE  LET more == OneMore(parts, size)
         IN /\ Bounded(more) /\ Len(more) = Len(parts)
            /\ \A k \in 1..Len(parts) : more[k].from = parts[k].from /\ more[k].to = parts[k].to
            /\ \A k \in 1..Len(parts) : k # Len(parts) => more[k] = parts[k]
            /\ more[Len(parts)].files = parts[Len(parts)].files + 1
            /\ more[Len(parts)].bytes = parts[Len(parts)].bytes + size
<1> DEFINE len == Len(parts)
           last == [parts[len] EXCEPT !.files = @ + 1, !.bytes = @ + size]
           more == [parts EXCEPT ![len] = last]
<1>1. parts \in Seq(Ranges) /\ len \in Nat /\ len > 0 /\ len \in 1..len /\ parts[len] \in Ranges
  BY BoundsAre DEF Bounded
<1>2. /\ last \in Ranges /\ last.from = parts[len].from /\ last.to = parts[len].to
      /\ last.files = parts[len].files + 1 /\ last.bytes = parts[len].bytes + size
  <2> DEFINE r == parts[len]
  <2>1. r \in Ranges BY <1>1
  <2>2. last = [r EXCEPT !.files = r.files + 1, !.bytes = r.bytes + size] OBVIOUS
  <2> HIDE DEF r
  <2>3. r.files \in Nat /\ r.bytes \in Nat BY <2>1 DEF Ranges
  <2>4. r.files + 1 \in Nat /\ r.bytes + size \in Nat BY <2>3
  <2>5. last \in Ranges /\ last.from = r.from /\ last.to = r.to BY <2>1, <2>2, <2>4 DEF Ranges
  <2>6. last.files = r.files + 1 /\ last.bytes = r.bytes + size BY <2>1, <2>2 DEF Ranges
  <2> HIDE DEF last
  <2> QED BY <2>5, <2>6 DEF r
<1>3. OneMore(parts, size) = more BY <1>1 DEF Ranges, OneMore
<1> HIDE DEF last
<1>4. /\ more \in Seq(Ranges) /\ Len(more) = len
      /\ \A k \in 1..len : more[k] = IF k = len THEN last ELSE parts[k]
  <2> HIDE DEF len
  <2>1. len = Len(parts) BY DEF len
  <2> QED BY <1>1, <1>2, <2>1, ExceptSeq
<1> HIDE DEF more
<1>5. \A k \in 1..len : more[k].from = parts[k].from /\ more[k].to = parts[k].to BY <1>2, <1>4
<1>6. Bounded(more)
  <2>1. /\ parts[1].from = None /\ parts[len].to = None
        /\ \A k \in 1..len - 1 : parts[k].to = parts[k + 1].from
        /\ \A k \in 2..len : parts[k].from # None
        /\ \A j, k \in 2..len : j < k => Before(parts[j].from, parts[k].from)
    BY DEF Bounded
  <2> HIDE DEF len
  <2>2. \A k \in 1..len - 1 : k \in 1..len /\ k + 1 \in 1..len BY <1>1
  <2>3. \A k \in 2..len : k \in 1..len BY <1>1
  <2>4. 1 \in 1..len BY <1>1
  <2> QED BY <1>1, <1>4, <1>5, <2>1, <2>2, <2>3, <2>4 DEF Bounded
<1> QED BY <1>2, <1>3, <1>4, <1>5, <1>6 DEF more, len

LEMMA PlannedBounded ==
  ASSUME NEW parts, Bounded(parts), NEW n \in Seq(Nat), n # None, NEW size \in Nat,
         \A k \in 2..Len(parts) : Before(parts[k].from, n)
  PROVE  LET more == Planned(parts, n, size)
         IN /\ Bounded(more)
            /\ \A k \in 2..Len(more) :
                 more[k].from = n \/ (k \in 2..Len(parts) /\ more[k].from = parts[k].from)
<1> DEFINE len == Len(parts)
           open == IF Full(parts[len], size)
                   THEN [parts EXCEPT ![len].to = n] \o <<Open(n, None)>> ELSE parts
           more == OneMore(open, size)
<1>1. len \in Nat BY BoundsAre
<1>2. /\ Bounded(open)
      /\ \A k \in 2..Len(open) : open[k].from = n \/ (k \in 2..len /\ open[k].from = parts[k].from)
  <2>1. CASE Full(parts[len], size)
    <3> DEFINE two == [parts EXCEPT ![len].to = n] \o <<Open(n, None)>>
    <3>1. /\ Bounded(two) /\ Len(two) = len + 1
          /\ \A k \in 1..len : two[k] = IF k = len THEN [parts[k] EXCEPT !.to = n] ELSE parts[k]
          /\ two[len + 1] = Open(n, None)
      BY NextBounded, Zenon
    <3>2. open = two BY <2>1
    <3> HIDE DEF two, open, len
    <3>3. \A k \in 2..len + 1 : k \in 2..len \/ k = len + 1 BY <1>1
    <3>4. \A k \in 2..len : k \in 1..len BY <1>1
    <3>5. \A k \in 1..len : parts[k] \in Ranges BY BoundsAre DEF len
    <3>6. \A k \in 1..len : two[k].from = parts[k].from BY <3>1, <3>5 DEF Ranges
    <3>7. two[len + 1].from = n BY <3>1 DEF Open
    <3> QED BY <3>1, <3>2, <3>3, <3>4, <3>6, <3>7
  <2>2. CASE ~Full(parts[len], size) BY <2>2
  <2> QED BY <2>1, <2>2
<1>3. Planned(parts, n, size) = more BY DEF Planned, OneMore
<1> HIDE DEF open
<1>4. /\ Bounded(more) /\ Len(more) = Len(open)
      /\ \A k \in 1..Len(open) : more[k].from = open[k].from
  BY <1>2, CountedBounded
<1>5. Len(open) \in Nat BY <1>2, BoundsAre
<1> HIDE DEF more
<1>6. \A k \in 2..Len(open) : k \in 1..Len(open) BY <1>5
<1> QED BY <1>2, <1>3, <1>4, <1>6 DEF len

-----------------------------------------------------------------------------
(* Zips.                                                                   *)

Name(e) == NameOf(e.top, e.path)

LEMMA NamesOf ==
  ASSUME SelOK, NEW e, NEW f, EntryOf(sel, e), EntryOf(sel, f)
  PROVE  /\ Name(e) \in Seq(Nat) /\ Name(e) # None
         /\ Apart(e.path, f.path) => Before(Name(e), Name(f))
         /\ Below(e.path, f.path) => Before(Name(e), Name(f))
<1>1. /\ e.top \in sel /\ e.path \in Nodes /\ Under(e.top, e.path) /\ e.top \in Nodes
      /\ f.top \in sel /\ f.path \in Nodes /\ Under(f.top, f.path) /\ f.top \in Nodes
  BY DEF EntryOf, Steps
<1>2. Name(e) \in Seq(Nat) BY <1>1, NameIs DEF Name
<1>3. Name(e) # None BY <1>1, NamesAssumption DEF Name, Nodes
<1> QED BY <1>1, <1>2, <1>3, NamesApart, BeforeIs DEF Name

\* A file has one name, whatever it is asked for with, and that is some name.
LEMMA SameName ==
  ASSUME SelOK, NEW s \in sel, NEW t \in sel, NEW p \in Paths, Under(s, p), Under(t, p)
  PROVE  NameOf(s, p) = NameOf(t, p) /\ NameOf(s, p) # <<>>
<1>1. s \in Nodes /\ t \in Nodes /\ p \in Nodes BY SelIs DEF Nodes
<1>2. Depth(s) = Depth(t) BY <1>1, SelAgrees
<1>3. /\ Depth(s) \in Nat
      /\ NameOf(s, p) \in Seq(Nat) /\ Len(NameOf(s, p)) = Len(p) - Depth(s)
      /\ \A i \in 1..Len(p) - Depth(s) : NameOf(s, p)[i] = p[Depth(s) + i]
  BY <1>1, NameIs
<1>4. /\ NameOf(t, p) \in Seq(Nat) /\ Len(NameOf(t, p)) = Len(p) - Depth(s)
      /\ \A i \in 1..Len(p) - Depth(s) : NameOf(t, p)[i] = p[Depth(s) + i]
  BY <1>1, <1>2, NameIs
<1>5. NameOf(s, p) = NameOf(t, p) BY <1>3, <1>4, SeqEqual
<1>6. Depth(s) < Len(p)
  <2>1. p \in Seq(Nat) /\ Len(p) \in Nat /\ Len(p) > 0 /\ s \in Seq(Nat) /\ Len(s) \in Nat
    BY <1>1, PathIs, NodeIs DEF Nodes
  <2>2. Len(s) <= Len(p) BY <2>1 DEF Under, Below
  <2> QED BY <2>1, <2>2 DEF Depth
<1>7. Len(NameOf(s, p)) # 0 BY <1>3, <1>6, PathIs
<1> QED BY <1>5, <1>7, EmptySeq

\* What comes after the first path has a name after its name, and after what
\* names of the walk are after.
LEMMA RestNames ==
  ASSUME TreeTyped, SelOK, NEW todo, Walks(sel, todo), todo # <<>>
  PROVE  /\ \A i \in 1..Len(Rest(todo)) : Before(Name(todo[1]), Name(Rest(todo)[i]))
         /\ \A x \in Seq(Nat) : (\A j \in 1..Len(todo) : Before(x, Name(todo[j]))) =>
              \A i \in 1..Len(Rest(todo)) : Before(x, Name(Rest(todo)[i]))
<1>1. /\ todo \in Seq(Steps) /\ Len(todo) \in Nat /\ Len(todo) > 0 /\ 1 \in 1..Len(todo)
      /\ \A j \in 2..Len(todo) : j \in 1..Len(todo) /\ 1 < j
  BY EmptySeq DEF Walks
<1>2. \A j \in 1..Len(todo) : EntryOf(sel, todo[j]) BY DEF Walks
<1>3. Walks(sel, Rest(todo)) BY SelIs, RestWalks
<1>4. ASSUME NEW i \in 1..Len(Rest(todo))
      PROVE  /\ EntryOf(sel, Rest(todo)[i])
             /\ \/ \E j \in 2..Len(todo) : Rest(todo)[i] = todo[j]
                \/ Below(todo[1].path, Rest(todo)[i].path)
  BY <1>3, SelIs, RestWalks DEF Walks
<1>5. ASSUME NEW i \in 1..Len(Rest(todo)) PROVE Before(Name(todo[1]), Name(Rest(todo)[i]))
  <2>1. ASSUME NEW j \in 2..Len(todo), Rest(todo)[i] = todo[j] PROVE Apart(todo[1].path, Rest(todo)[i].path)
    BY <1>1, <2>1 DEF Walks
  <2> QED BY <1>1, <1>2, <1>4, <2>1, NamesOf
<1>6. ASSUME NEW x \in Seq(Nat), \A j \in 1..Len(todo) : Before(x, Name(todo[j])),
             NEW i \in 1..Len(Rest(todo))
      PROVE  Before(x, Name(Rest(todo)[i]))
  <2>1. Name(todo[1]) \in Seq(Nat) /\ Name(Rest(todo)[i]) \in Seq(Nat) BY <1>1, <1>2, <1>4, NamesOf
  <2>2. Before(x, Name(todo[1])) BY <1>1, <1>6
  <2> QED BY <1>5, <2>1, <2>2, BeforeTransitive
<1> QED BY <1>5, <1>6

\* The rest after a file is what was to be visited after it.
LEMMA RestOfFile ==
  ASSUME TreeTyped, NEW s \in SUBSET Nodes, NEW todo, Walks(s, todo), todo # <<>>, At(todo[1].path) # Dir
  PROVE  \A i \in 1..Len(Rest(todo)) : Apart(todo[1].path, Rest(todo)[i].path)
<1>1. todo \in Seq(Steps) /\ Len(todo) \in Nat /\ Len(todo) > 0 BY EmptySeq DEF Walks
<1>2. \A j \in 2..Len(todo) : Apart(todo[1].path, todo[j].path)
  <2>1. \A j \in 2..Len(todo) : 1 \in 1..Len(todo) /\ j \in 1..Len(todo) /\ 1 < j BY <1>1
  <2> QED BY <2>1 DEF Walks
<1> QED BY <1>2, RestWalks

Gots == [name : Seq(Nat), what : {None, Dir} \cup Nat]

\* What a part has so far: names of its range, in order.
GotIs(got, r) ==
  /\ got \in Seq(Gots)
  /\ \A i \in 1..Len(got) : InRange(got[i].name, r)
  /\ \A i, j \in 1..Len(got) : i < j => Before(got[i].name, got[j].name)
Precedes(got, n) == \A i \in 1..Len(got) : Before(got[i].name, n)

LEMMA GotMore ==
  ASSUME NEW r, NEW got, GotIs(got, r), NEW e \in Gots, InRange(e.name, r), Precedes(got, e.name)
  PROVE  /\ GotIs(Append(got, e), r)
         /\ \A i \in 1..Len(got) : \E j \in 1..Len(Append(got, e)) : Append(got, e)[j] = got[i]
         /\ \E j \in 1..Len(Append(got, e)) : Append(got, e)[j] = e
         /\ \A n \in Seq(Nat) : Precedes(got, n) /\ Before(e.name, n) => Precedes(Append(got, e), n)
<1> DEFINE more == Append(got, e)
           len == Len(got)
<1>1. got \in Seq(Gots) /\ len \in Nat BY DEF GotIs
<1>2. more \in Seq(Gots) /\ Len(more) = len + 1 /\ more[len + 1] = e
      /\ \A i \in 1..len : more[i] = got[i]
  BY <1>1, AppendProperties
<1> HIDE DEF more, len
<1>3. \A i \in 1..len + 1 : i \in 1..len \/ i = len + 1 BY <1>1
<1>4. \A i \in 1..len : i \in 1..len + 1 BY <1>1
<1>5. len + 1 \in 1..len + 1 BY <1>1
<1>6. \A i \in 1..len + 1 : InRange(more[i].name, r) BY <1>2, <1>3 DEF GotIs, len
<1>7. ASSUME NEW i \in 1..len + 1, NEW j \in 1..len + 1, i < j PROVE Before(more[i].name, more[j].name)
  <2>1. i \in 1..len BY <1>1, <1>7
  <2>2. CASE j \in 1..len BY <1>2, <1>7, <2>1, <2>2 DEF GotIs, len
  <2>3. CASE j = len + 1 BY <1>2, <2>1, <2>3 DEF Precedes, len
  <2> QED BY <1>3, <2>2, <2>3
<1>8. GotIs(more, r) BY <1>2, <1>6, <1>7 DEF GotIs
<1>9. ASSUME NEW n \in Seq(Nat), Precedes(got, n), Before(e.name, n) PROVE Precedes(more, n)
  BY <1>2, <1>3, <1>9 DEF Precedes, len
<1>10. \A i \in 1..len : \E j \in 1..Len(more) : more[j] = got[i] BY <1>2, <1>4
<1>11. \E j \in 1..Len(more) : more[j] = e BY <1>2, <1>5
<1> QED BY <1>8, <1>9, <1>10, <1>11 DEF more, len

\* A download of a part: the walk that is left, the entry whose header is out,
\* and the entries before, all of them in order.
Downloads == [pc : {"new", "busy", "done"}, todo : Seq(Steps), open : {None} \cup Steps, got : Seq(Gots)]
PartIs(s, d, r) ==
  /\ d \in Downloads
  /\ Walks(s, d.todo) /\ GotIs(d.got, r)
  /\ \A i \in 1..Len(d.todo) : Precedes(d.got, Name(d.todo[i]))
  /\ d.open # None =>
       /\ EntryOf(s, d.open) /\ d.open.path \in Paths
       /\ InRange(Name(d.open), r) /\ Precedes(d.got, Name(d.open))
       /\ \A i \in 1..Len(d.todo) : Apart(d.open.path, d.todo[i].path)
  /\ d.pc = "done" => d.todo = <<>> /\ d.open = None

\* A file that stays is in what a download has, or will be.
Covered(d, p, e) ==
  \/ \E i \in 1..Len(d.got) : d.got[i] = e
  \/ d.open # None /\ d.open.path = p
  \/ \E i \in 1..Len(d.todo) : Under(d.todo[i].path, p)
Keeps(d, r) ==
  \A p \in stay, s \in sel :
    IsFile(p) /\ Under(s, p) /\ InRange(NameOf(s, p), r) =>
      Covered(d, p, Entry(NameOf(s, p), tree[p].ver))

PlanOK ==
  /\ zip \in [pc : {"new", "plan", "ready"}, todo : Seq(Steps), parts : Seq(Ranges)]
  /\ Walks(sel, zip.todo)
  /\ zip.pc # "new" =>
       /\ Bounded(zip.parts)
       /\ \A k \in 2..Len(zip.parts), i \in 1..Len(zip.todo) : Before(zip.parts[k].from, Name(zip.todo[i]))

PartsOK ==
  /\ DOMAIN part = IF zip.pc = "ready" THEN 1..Len(zip.parts) ELSE {}
  /\ \A k \in DOMAIN part :
       PartIs(sel, part[k], zip.parts[k]) /\ (part[k].pc # "new" => Keeps(part[k], zip.parts[k]))
  /\ Cardinality(Busy) <= ZipSlots

ZipInv == SelOK /\ PlanOK /\ PartsOK

LEMMA NoWalk == ASSUME NEW s PROVE Walks(s, <<>>)
  BY EmptySeq DEF Walks

LEMMA AgainIs == ASSUME NEW s, NEW r PROVE PartIs(s, Again, r) /\ Again.pc = "new"
<1>1. Again \in Downloads /\ Again.todo = <<>> /\ Again.got = <<>> /\ Again.open = None /\ Again.pc = "new"
  BY EmptySeq DEF Again, Downloads
<1>2. Walks(s, Again.todo) BY <1>1, NoWalk
<1>3. GotIs(Again.got, r) BY <1>1, EmptySeq DEF GotIs
<1>4. \A i \in 1..Len(Again.todo) : FALSE BY <1>1, EmptySeq
<1> QED BY <1>1, <1>2, <1>3, <1>4 DEF PartIs

LEMMA BusyFinite == ASSUME PlanOK, PartsOK PROVE IsFiniteSet(DOMAIN part) /\ IsFiniteSet(Busy)
<1>1. IsFiniteSet(DOMAIN part)
  <2>1. Len(zip.parts) \in Nat BY DEF PlanOK
  <2>2. IsFiniteSet(1..Len(zip.parts)) BY <2>1, FS_Interval
  <2>3. IsFiniteSet({}) BY FS_EmptySet
  <2> QED BY <2>2, <2>3 DEF PartsOK
<1>2. Busy \subseteq DOMAIN part BY DEF Busy
<1> QED BY <1>1, <1>2, FS_Subset

\* A step of one download.
LEMMA PartMoves ==
  ASSUME ZipInv, UNCHANGED <<tree, changed, stay, sel, zip>>, NEW k \in DOMAIN part, NEW d,
         part' = [part EXCEPT ![k] = d], PartIs(sel, d, zip.parts[k]),
         d.pc # "new" => Keeps(d, zip.parts[k]),
         d.pc = "busy" => part[k].pc = "busy" \/ Cardinality(Busy) < ZipSlots
  PROVE  ZipInv'
<1>1. DOMAIN part' = DOMAIN part /\ \A j \in DOMAIN part : part'[j] = IF j = k THEN d ELSE part[j]
  OBVIOUS
<1>2. SelOK' /\ PlanOK' BY DEF ZipInv, SelOK, PlanOK
<1>3. \A j \in DOMAIN part : PartIs(sel, part'[j], zip.parts[j]) BY <1>1 DEF ZipInv, PartsOK
<1>4. ASSUME NEW j \in DOMAIN part, part'[j].pc # "new" PROVE Keeps(part[j], zip.parts[j])'
  <2> DEFINE e == part'[j]
  <2>1. Keeps(IF j = k THEN d ELSE part[j], zip.parts[j]) BY <1>1, <1>4 DEF ZipInv, PartsOK
  <2>2. e = IF j = k THEN d ELSE part[j] BY <1>1
  <2> QED BY <2>1, <2>2 DEF Keeps, IsFile, At
<1>5. Cardinality(Busy') <= ZipSlots
  <2>1. Cardinality(Busy) <= ZipSlots /\ ZipSlots \in Nat BY ZipAssumption DEF ZipInv, PartsOK
  <2>2. IsFiniteSet(Busy) BY BusyFinite DEF ZipInv
  <2>3. CASE d.pc = "busy" /\ k \notin Busy
    <3>1. Cardinality(Busy) < ZipSlots BY <2>3 DEF Busy
    <3>2. Busy' \subseteq Busy \cup {k} BY <1>1 DEF Busy
    <3>3. IsFiniteSet(Busy \cup {k}) /\ Cardinality(Busy \cup {k}) = Cardinality(Busy) + 1
      BY <2>2, <2>3, FS_AddElement
    <3>4. Cardinality(Busy') <= Cardinality(Busy \cup {k}) /\ IsFiniteSet(Busy') BY <3>2, <3>3, FS_Subset
    <3>5. Cardinality(Busy') \in Nat /\ Cardinality(Busy) \in Nat BY <2>2, <3>4, FS_CardinalityType
    <3> QED BY <2>1, <3>1, <3>3, <3>4, <3>5
  <2>4. CASE ~(d.pc = "busy" /\ k \notin Busy)
    <3>1. Busy' \subseteq Busy BY <1>1, <2>4 DEF Busy
    <3>2. Cardinality(Busy') <= Cardinality(Busy) /\ IsFiniteSet(Busy') BY <2>2, <3>1, FS_Subset
    <3>3. Cardinality(Busy') \in Nat /\ Cardinality(Busy) \in Nat BY <2>2, <3>2, FS_CardinalityType
    <3> QED BY <2>1, <3>2, <3>3
  <2> QED BY <2>3, <2>4
<1>6. PartsOK' BY <1>1, <1>3, <1>4, <1>5 DEF PartsOK, ZipInv
<1> QED BY <1>2, <1>6 DEF ZipInv

LEMMA PartAgain ==
  ASSUME ZipInv, UNCHANGED <<tree, changed, stay, sel, zip>>, NEW k \in DOMAIN part,
         part' = [part EXCEPT ![k] = Again]
  PROVE  ZipInv'
  BY AgainIs, PartMoves

LEMMA PartStartInv == ASSUME TreeTyped, ZipInv, NEW k \in DOMAIN part, PartStart(k) PROVE ZipInv'
<1> DEFINE d == [pc |-> "busy", todo |-> Walk(sel), open |-> None, got |-> <<>>]
<1>1. Walks(sel, Walk(sel)) /\ \A s \in sel : \E i \in 1..Len(Walk(sel)) : Walk(sel)[i].path = s
  BY WalkStarts DEF ZipInv
<1>2. /\ d.pc = "busy" /\ d.todo = Walk(sel) /\ d.open = None /\ d.got = <<>> /\ d \in Downloads
  BY <1>1, EmptySeq DEF Downloads, Walks
<1> HIDE DEF d
<1>3. GotIs(d.got, zip.parts[k]) /\ \A n : Precedes(d.got, n) BY <1>2, EmptySeq DEF GotIs, Precedes
<1>4. PartIs(sel, d, zip.parts[k]) BY <1>1, <1>2, <1>3 DEF PartIs
<1>5. Keeps(d, zip.parts[k]) BY <1>1, <1>2 DEF Keeps, Covered
<1>6. part' = [part EXCEPT ![k] = d] BY DEF PartStart, d
<1> QED BY <1>2, <1>4, <1>5, <1>6, PartMoves DEF PartStart

LEMMA PartEndInv == ASSUME TreeTyped, ZipInv, NEW k \in DOMAIN part, PartEnd(k) PROVE ZipInv'
<1> DEFINE c == part[k]
           d == [c EXCEPT !.pc = "done"]
<1>1. PartIs(sel, c, zip.parts[k]) /\ Keeps(c, zip.parts[k]) /\ c \in Downloads
      /\ c.todo = <<>> /\ c.open = None
  BY DEF ZipInv, PartsOK, PartEnd, PartIs
<1> HIDE DEF c
<1>2. d \in Downloads /\ d.pc = "done" /\ d.todo = c.todo /\ d.open = c.open /\ d.got = c.got
  BY <1>1 DEF Downloads
<1> HIDE DEF d
<1>3. PartIs(sel, d, zip.parts[k]) BY <1>1, <1>2 DEF PartIs
<1>4. Keeps(d, zip.parts[k]) BY <1>1, <1>2 DEF Keeps, Covered
<1>5. part' = [part EXCEPT ![k] = d] BY DEF PartEnd, c, d
<1> QED BY <1>2, <1>3, <1>4, <1>5, PartMoves DEF PartEnd

LEMMA PartCopyInv == ASSUME TreeTyped, ZipInv, NEW k \in DOMAIN part, PartCopy(k) PROVE ZipInv'
<1> DEFINE c == part[k]
           r == zip.parts[k]
           p == c.open.path
           what == IF IsFile(p) THEN tree[p].ver ELSE None
           e == Entry(NameOf(c.open.top, p), what)
           d == [c EXCEPT !.open = None, !.got = Append(@, e)]
<1>1. /\ PartIs(sel, c, r) /\ Keeps(c, r) /\ c \in Downloads /\ c.open # None /\ SelOK
      /\ part' = [part EXCEPT ![k] = IF At(p) = Dir THEN Again ELSE d]
      /\ UNCHANGED <<tree, changed, stay, sel, zip>> /\ part[k].pc = "busy"
  BY DEF ZipInv, PartsOK, PartCopy, PartIs
<1> HIDE DEF c, r
<1>2. CASE At(p) = Dir
  <2>1. part' = [part EXCEPT ![k] = Again] BY <1>1, <1>2
  <2> QED BY <1>1, <2>1, PartAgain
<1>3. CASE At(p) # Dir
  <2>1. /\ EntryOf(sel, c.open) /\ p \in Paths /\ InRange(Name(c.open), r) /\ Precedes(c.got, Name(c.open))
        /\ \A i \in 1..Len(c.todo) : Apart(p, c.todo[i].path)
        /\ Walks(sel, c.todo) /\ GotIs(c.got, r)
        /\ \A i \in 1..Len(c.todo) : Precedes(c.got, Name(c.todo[i]))
    BY <1>1 DEF PartIs
  <2>2. c.todo \in Seq(Steps) /\ \A i \in 1..Len(c.todo) : EntryOf(sel, c.todo[i]) BY <2>1 DEF Walks
  <2>3. Name(c.open) \in Seq(Nat) /\ \A i \in 1..Len(c.todo) :
          Name(c.todo[i]) \in Seq(Nat) /\ Before(Name(c.open), Name(c.todo[i]))
    BY <1>1, <2>1, <2>2, NamesOf
  <2>4. what \in {None} \cup Nat BY <2>1, FileIs DEF Files
  <2>5. e \in Gots /\ e.name = Name(c.open) /\ e.what = what BY <2>3, <2>4 DEF Gots, Entry, Name
  <2> DEFINE got == Append(c.got, e)
  <2>6. /\ d.pc = c.pc /\ d.todo = c.todo /\ d.open = None /\ d.got = got
        /\ DOMAIN d = {"pc", "todo", "open", "got"}
    BY <1>1 DEF Downloads
  <2>7. GotIs(got, r) /\ \A i \in 1..Len(c.todo) : Precedes(got, Name(c.todo[i]))
    <3> HIDE DEF e
    <3> QED BY <2>1, <2>3, <2>5, GotMore
  <2>8. /\ \A i \in 1..Len(c.got) : \E j \in 1..Len(got) : got[j] = c.got[i]
        /\ \E j \in 1..Len(got) : got[j] = e
    <3> HIDE DEF e
    <3> QED BY <2>1, <2>5, GotMore
  <2>9. got \in Seq(Gots) BY <2>7 DEF GotIs
  <2> HIDE DEF got
  <2>10. d \in Downloads BY <1>1, <2>9 DEF Downloads, got
  <2>11. d.pc = "busy" BY <1>1, <2>6 DEF c
  <2> HIDE DEF d
  <2>12. PartIs(sel, d, r) BY <2>1, <2>6, <2>7, <2>10, <2>11 DEF PartIs
  <2>13. Keeps(d, r)
    <3> SUFFICES ASSUME NEW q \in stay, NEW s \in sel, IsFile(q), Under(s, q), InRange(NameOf(s, q), r)
                 PROVE  Covered(d, q, Entry(NameOf(s, q), tree[q].ver))
      BY DEF Keeps
    <3>1. Covered(c, q, Entry(NameOf(s, q), tree[q].ver)) BY <1>1 DEF Keeps
    <3>2. CASE p = q
      <4>1. NameOf(s, q) = NameOf(c.open.top, q)
        BY <1>1, <2>1, <3>2, SameName DEF EntryOf
      <4>2. e = Entry(NameOf(s, q), tree[q].ver) BY <3>2, <4>1
      <4> QED BY <2>6, <2>8, <4>2 DEF Covered
    <3>3. CASE p # q BY <2>6, <2>8, <3>1, <3>3 DEF Covered
    <3> QED BY <3>2, <3>3
  <2>14. part' = [part EXCEPT ![k] = d] BY <1>1, <1>3
  <2> QED BY <1>1, <2>12, <2>13, <2>14, PartMoves DEF r
<1> QED BY <1>2, <1>3

LEMMA PartVisitInv == ASSUME TreeTyped, ZipInv, NEW k \in DOMAIN part, PartVisit(k) PROVE ZipInv'
<1> DEFINE c == part[k]
           r == zip.parts[k]
           here == c.todo[1]
           n == NameOf(here.top, here.path)
           takes == n # <<>> /\ InRange(n, r)
           open == IF IsFile(here.path) /\ takes THEN here ELSE None
           got == IF At(here.path) = Dir /\ takes THEN Append(c.got, Entry(n, Dir)) ELSE c.got
           rest == Rest(c.todo)
           d == [c EXCEPT !.todo = rest, !.open = open, !.got = got]
<1>1. /\ PartIs(sel, c, r) /\ Keeps(c, r) /\ c \in Downloads /\ c.open = None /\ c.todo # <<>> /\ SelOK
      /\ UNCHANGED <<tree, changed, stay, sel, zip>> /\ c.pc = "busy"
  BY DEF ZipInv, PartsOK, PartVisit, PartIs
<1>2. /\ Walks(sel, c.todo) /\ GotIs(c.got, r) /\ c.todo \in Seq(Steps)
      /\ \A i \in 1..Len(c.todo) : Precedes(c.got, Name(c.todo[i]))
      /\ Len(c.todo) \in Nat /\ 1 \in 1..Len(c.todo) /\ EntryOf(sel, here) /\ Head(c.todo) = here
      /\ sel \subseteq Nodes
  <2>1. c.todo \in Seq(Steps) BY <1>1 DEF PartIs, Walks
  <2>2. Len(c.todo) \in Nat /\ Len(c.todo) > 0 BY <1>1, <2>1, EmptySeq
  <2>3. 1 \in 1..Len(c.todo) BY <2>2
  <2> QED BY <1>1, <2>1, <2>2, <2>3, SelIs DEF PartIs, Walks
<1>3. part' = [part EXCEPT ![k] = IF Fails(here) THEN Again ELSE d] BY <1>2 DEF PartVisit
<1> HIDE DEF c, r
<1>4. CASE Fails(here)
  <2>1. part' = [part EXCEPT ![k] = Again] BY <1>3, <1>4
  <2> QED BY <1>1, <2>1, PartAgain
<1>5. CASE ~Fails(here)
  <2>1. /\ Walks(sel, rest) /\ rest \in Seq(Steps) /\ \A i \in 1..Len(rest) : EntryOf(sel, rest[i])
    BY <1>1, <1>2, RestWalks DEF Walks
  <2>2. /\ \A i \in 1..Len(rest) : Before(Name(here), Name(rest[i])) /\ Name(rest[i]) \in Seq(Nat)
        /\ \A x \in Seq(Nat) : (\A j \in 1..Len(c.todo) : Before(x, Name(c.todo[j]))) =>
             \A i \in 1..Len(rest) : Before(x, Name(rest[i]))
    BY <1>1, <1>2, <2>1, RestNames, NamesOf
  <2>3. n = Name(here) /\ n \in Seq(Nat) BY <1>1, <1>2, NamesOf DEF Name
  <2>4. /\ here \in Steps /\ here.top \in sel /\ Under(here.top, here.path) /\ here.path \in Nodes
    BY <1>2 DEF EntryOf, Steps
  <2>5. \A i \in 1..Len(rest) : Precedes(c.got, Name(rest[i]))
    <3>1. \A i \in 1..Len(c.got) : c.got[i].name \in Seq(Nat)
      <4>1. c.got \in Seq(Gots) BY <1>2 DEF GotIs
      <4>2. \A i \in 1..Len(c.got) : c.got[i] \in Gots BY <4>1
      <4> QED BY <4>2 DEF Gots
    <3> QED BY <1>2, <2>2, <3>1 DEF Precedes
  <2>6. Precedes(c.got, n) BY <1>2, <2>3
  <2> DEFINE e == Entry(n, Dir)
  <2>7. e \in Gots /\ e.name = n BY <2>3 DEF Entry, Gots
  <2> HIDE DEF e
  <2>8. /\ GotIs(got, r) /\ \A i \in 1..Len(rest) : Precedes(got, Name(rest[i]))
        /\ \A i \in 1..Len(c.got) : \E j \in 1..Len(got) : got[j] = c.got[i]
    <3>1. CASE At(here.path) = Dir /\ takes
      <4>1. got = Append(c.got, e) BY <3>1 DEF e
      <4>2. InRange(e.name, r) /\ Precedes(c.got, e.name) BY <2>6, <2>7, <3>1
      <4>3. \A i \in 1..Len(rest) : Name(rest[i]) \in Seq(Nat) /\ Before(e.name, Name(rest[i]))
        BY <2>2, <2>3, <2>7
      <4> HIDE DEF got, n, here, rest, takes
      <4>4. /\ GotIs(got, r) /\ \A x \in Seq(Nat) : Precedes(c.got, x) /\ Before(e.name, x) => Precedes(got, x)
            /\ \A i \in 1..Len(c.got) : \E j \in 1..Len(got) : got[j] = c.got[i]
        BY <1>2, <2>7, <4>1, <4>2, GotMore
      <4> QED BY <2>5, <4>3, <4>4
    <3>2. CASE ~(At(here.path) = Dir /\ takes) BY <1>2, <2>5, <3>2
    <3> QED BY <3>1, <3>2
  <2>9. open # None =>
          /\ open = here /\ IsFile(here.path) /\ here.path \in Paths /\ InRange(n, r) /\ got = c.got
          /\ \A i \in 1..Len(rest) : Apart(here.path, rest[i].path)
    <3> SUFFICES ASSUME IsFile(here.path), takes
                 PROVE  /\ here.path \in Paths /\ At(here.path) # Dir
                        /\ \A i \in 1..Len(rest) : Apart(here.path, rest[i].path)
      OBVIOUS
    <3>1. At(here.path) # Dir /\ here.path \in Paths BY <2>4 DEF IsFile, At, Nodes
    <3> QED BY <1>2, <1>1, <3>1, RestOfFile
  <2>10. got \in Seq(Gots) /\ open \in {None} \cup Steps BY <2>4, <2>8 DEF GotIs
  <2> HIDE DEF open, got, takes
  <2>11. d \in Downloads /\ d.pc = "busy" /\ d.todo = rest /\ d.open = open /\ d.got = got
    <3> HIDE DEF rest
    <3> QED BY <1>1, <2>1, <2>10 DEF Downloads
  <2> HIDE DEF d
  <2>12. PartIs(sel, d, r)
    <3>1. open # None => EntryOf(sel, open) /\ InRange(Name(open), r) /\ Precedes(got, Name(open))
      BY <1>2, <2>3, <2>6, <2>9
    <3> HIDE DEF here, rest, n
    <3> QED BY <2>1, <2>8, <2>9, <2>11, <3>1 DEF PartIs
  <2>13. Keeps(d, r)
    <3> SUFFICES ASSUME NEW q \in stay, NEW s \in sel, IsFile(q), Under(s, q), InRange(NameOf(s, q), r)
                 PROVE  Covered(d, q, Entry(NameOf(s, q), tree[q].ver))
      BY DEF Keeps
    <3>1. Covered(c, q, Entry(NameOf(s, q), tree[q].ver)) BY <1>1 DEF Keeps
    <3>2. q \in Paths /\ tree[q] # None BY AtIs DEF TreeTyped, IsFile
    <3>3. CASE \E i \in 1..Len(c.got) : c.got[i] = Entry(NameOf(s, q), tree[q].ver)
      BY <2>8, <2>11, <3>3 DEF Covered
    <3>4. ASSUME NEW i \in 1..Len(c.todo), Under(c.todo[i].path, q)
          PROVE  Covered(d, q, Entry(NameOf(s, q), tree[q].ver))
      <4>1. CASE here.path = q
        <5>1. n = NameOf(s, q) /\ n # <<>> BY <1>1, <2>4, <3>2, <4>1, SameName
        <5>2. open = here BY <4>1, <5>1 DEF open, takes
        <5>3. open # None BY <2>4, <5>2, NamesAssumption DEF Steps, Nodes
        <5> QED BY <2>11, <4>1, <5>2, <5>3 DEF Covered
      <4>2. CASE here.path # q
        <5>1. \E j \in 1..Len(rest) : Under(rest[j].path, q)
          BY <1>1, <1>2, <3>2, <3>4, <4>2, RestCovers
        <5> QED BY <2>11, <5>1 DEF Covered
      <4> QED BY <4>1, <4>2
    <3> QED BY <1>1, <3>1, <3>3, <3>4 DEF Covered
  <2>14. part' = [part EXCEPT ![k] = d] BY <1>3, <1>5
  <2> QED BY <1>1, <2>11, <2>12, <2>13, <2>14, PartMoves DEF r, c
<1> QED BY <1>4, <1>5

\* While there is no plan there is no part.
LEMMA NoParts ==
  ASSUME ZipInv, zip.pc # "ready", UNCHANGED <<sel, part>>, PlanOK', zip'.pc # "ready"
  PROVE  ZipInv'
<1>1. DOMAIN part = {} /\ Cardinality(Busy) <= ZipSlots BY DEF ZipInv, PartsOK
<1>2. PartsOK' BY <1>1 DEF PartsOK, Busy
<1> QED BY <1>2 DEF ZipInv, SelOK

LEMMA PlanStartInv == ASSUME TreeTyped, ZipInv, PlanStart PROVE ZipInv'
<1> DEFINE parts == <<Open(None, None)>>
<1>1. /\ zip.pc = "new" /\ UNCHANGED <<sel, part>> /\ SelOK
      /\ zip' = [pc |-> "plan", todo |-> Walk(sel), parts |-> parts]
  BY DEF PlanStart, ZipInv
<1>2. Walks(sel, Walk(sel)) BY <1>1, WalkStarts
<1>3. Bounded(parts) /\ parts \in Seq(Ranges) /\ Len(parts) = 1 BY FirstBounded DEF Bounded
<1> HIDE DEF parts
<1>4. zip'.pc = "plan" /\ zip'.todo = Walk(sel) /\ zip'.parts = parts BY <1>1
<1>5. zip' \in [pc : {"new", "plan", "ready"}, todo : Seq(Steps), parts : Seq(Ranges)]
  BY <1>1, <1>2, <1>3 DEF Walks
<1>6. \A k \in 2..Len(parts) : FALSE BY <1>3
<1>7. PlanOK' BY <1>1, <1>2, <1>3, <1>4, <1>5, <1>6 DEF PlanOK
<1> QED BY <1>1, <1>4, <1>7, NoParts

LEMMA NoPlanIs == ASSUME NEW s PROVE
  /\ NoPlan \in [pc : {"new", "plan", "ready"}, todo : Seq(Steps), parts : Seq(Ranges)]
  /\ Walks(s, NoPlan.todo) /\ NoPlan.pc = "new"
<1>1. NoPlan.pc = "new" /\ NoPlan.todo = <<>> /\ NoPlan.parts = <<>> BY DEF NoPlan
<1>2. NoPlan \in [pc : {"new", "plan", "ready"}, todo : Seq(Steps), parts : Seq(Ranges)]
  BY EmptySeq DEF NoPlan
<1> QED BY <1>1, <1>2, NoWalk

LEMMA NoPlanInv == ASSUME ZipInv, zip.pc # "ready", UNCHANGED <<sel, part>>, zip' = NoPlan PROVE ZipInv'
<1>1. PlanOK' BY NoPlanIs DEF PlanOK
<1> QED BY <1>1, NoPlanIs, NoParts

LEMMA PlanVisitInv == ASSUME TreeTyped, ZipInv, PlanVisit PROVE ZipInv'
<1> DEFINE todo == zip.todo
           parts == zip.parts
           here == todo[1]
           n == NameOf(here.top, here.path)
           more == IF IsFile(here.path) THEN Planned(parts, n, tree[here.path].size) ELSE parts
           rest == Rest(todo)
<1>1. /\ zip.pc = "plan" /\ UNCHANGED <<sel, part, tree>> /\ SelOK /\ todo # <<>>
      /\ Walks(sel, todo) /\ Bounded(parts)
      /\ \A k \in 2..Len(parts), i \in 1..Len(todo) : Before(parts[k].from, Name(todo[i]))
      /\ zip \in [pc : {"new", "plan", "ready"}, todo : Seq(Steps), parts : Seq(Ranges)]
  BY DEF PlanVisit, ZipInv, PlanOK
<1>2. /\ todo \in Seq(Steps) /\ Len(todo) \in Nat /\ 1 \in 1..Len(todo) /\ Head(todo) = here
      /\ EntryOf(sel, here) /\ sel \subseteq Nodes
  <2>1. todo \in Seq(Steps) BY <1>1 DEF Walks
  <2>2. Len(todo) \in Nat /\ Len(todo) > 0 BY <1>1, <2>1, EmptySeq
  <2>3. 1 \in 1..Len(todo) BY <2>2
  <2> HIDE DEF todo
  <2> QED BY <1>1, <2>1, <2>2, <2>3, SelIs DEF Walks
<1>3. zip' = IF Fails(here) THEN NoPlan ELSE [zip EXCEPT !.todo = rest, !.parts = more]
  BY <1>1, <1>2 DEF PlanVisit
<1>4. CASE Fails(here) BY <1>1, <1>3, <1>4, NoPlanInv
<1>5. CASE ~Fails(here)
  <2>1. Walks(sel, rest) /\ rest \in Seq(Steps) /\ \A i \in 1..Len(rest) : EntryOf(sel, rest[i])
    BY <1>1, <1>2, RestWalks DEF Walks
  <2>2. /\ \A i \in 1..Len(rest) : Before(Name(here), Name(rest[i])) /\ Name(rest[i]) \in Seq(Nat)
        /\ \A x \in Seq(Nat) : (\A j \in 1..Len(todo) : Before(x, Name(todo[j]))) =>
             \A i \in 1..Len(rest) : Before(x, Name(rest[i]))
    BY <1>1, <1>2, <2>1, RestNames, NamesOf
  <2>3. n = Name(here) /\ n \in Seq(Nat) /\ n # None BY <1>1, <1>2, NamesOf DEF Name
  <2>4. Len(parts) \in Nat /\ \A k \in 2..Len(parts) : parts[k].from \in Seq(Nat) BY <1>1, BoundsAre
  <2>5. \A k \in 2..Len(parts) : Before(parts[k].from, n) BY <1>1, <1>2, <2>3
  <2>6. \A k \in 2..Len(parts), i \in 1..Len(rest) : Before(parts[k].from, Name(rest[i]))
    BY <1>1, <2>2, <2>4
  <2>7. Bounded(more) /\ \A k \in 2..Len(more), i \in 1..Len(rest) : Before(more[k].from, Name(rest[i]))
    <3>1. CASE IsFile(here.path)
      <4> DEFINE size == tree[here.path].size
      <4>1. here.path \in Paths BY <1>2, <3>1 DEF EntryOf, Steps, Nodes, IsFile, At
      <4>2. size \in Nat BY <3>1, <4>1, FileIs, SizesAssumption DEF Files
      <4>3. more = Planned(parts, n, size) BY <3>1
      <4> HIDE DEF more, size, n, rest, here, parts, todo
      <4>4. Bounded(more) /\ \A k \in 2..Len(more) :
              more[k].from = n \/ (k \in 2..Len(parts) /\ more[k].from = parts[k].from)
        BY <1>1, <2>3, <2>5, <4>2, <4>3, PlannedBounded
      <4> QED BY <2>2, <2>3, <2>6, <4>4
    <3>2. CASE ~IsFile(here.path) BY <1>1, <2>6, <3>2
    <3> QED BY <3>1, <3>2
  <2>8. more \in Seq(Ranges) BY <2>7 DEF Bounded
  <2> HIDE DEF more, rest
  <2>9. /\ zip' \in [pc : {"new", "plan", "ready"}, todo : Seq(Steps), parts : Seq(Ranges)]
        /\ zip'.pc = "plan" /\ zip'.todo = rest /\ zip'.parts = more
    BY <1>1, <1>3, <1>5, <2>1, <2>8
  <2>10. PlanOK' BY <1>1, <2>1, <2>7, <2>9 DEF PlanOK
  <2> QED BY <1>1, <2>9, <2>10, NoParts
<1> QED BY <1>4, <1>5

\* A plan is ready, and no part of it was asked for.
LEMMA PlanReady ==
  ASSUME ZipInv, UNCHANGED sel, NEW parts, Bounded(parts), NEW z, zip' = z, z.pc = "ready", z.todo = <<>>,
         z.parts = parts, z \in [pc : {"new", "plan", "ready"}, todo : Seq(Steps), parts : Seq(Ranges)],
         part' = [k \in 1..Len(parts) |-> Again]
  PROVE  ZipInv'
<1>1. zip'.pc = "ready" /\ zip'.todo = <<>> /\ zip'.parts = parts OBVIOUS
<1>2. SelOK' BY DEF ZipInv, SelOK
<1>3. \A i \in 1..Len(<<>>) : FALSE BY EmptySeq
<1>4. PlanOK'
  <2>1. Walks(sel', zip'.todo) BY <1>1, NoWalk
  <2> QED BY <1>1, <1>3, <2>1 DEF PlanOK
<1>5. DOMAIN part' = 1..Len(parts) /\ \A k \in 1..Len(parts) : part'[k] = Again OBVIOUS
<1>6. Cardinality(Busy') <= ZipSlots
  <2>1. Busy' = {} BY <1>5, AgainIs DEF Busy
  <2>2. Cardinality({}) = 0 BY FS_EmptySet
  <2> QED BY <2>1, <2>2, ZipAssumption
<1>7. \A k \in DOMAIN part' : PartIs(sel', part'[k], zip'.parts[k]) /\ part'[k].pc = "new"
  BY <1>5, AgainIs
<1>8. PartsOK' BY <1>1, <1>5, <1>6, <1>7 DEF PartsOK
<1> QED BY <1>2, <1>4, <1>8 DEF ZipInv

LEMMA PlanEndInv == ASSUME ZipInv, PlanEnd PROVE ZipInv'
<1> DEFINE z == [zip EXCEPT !.pc = "ready"]
<1>1. /\ zip \in [pc : {"new", "plan", "ready"}, todo : Seq(Steps), parts : Seq(Ranges)]
      /\ Bounded(zip.parts) /\ zip.todo = <<>>
      /\ zip' = z /\ part' = [k \in 1..Len(zip.parts) |-> Again] /\ UNCHANGED sel
  BY DEF PlanEnd, ZipInv, PlanOK
<1>2. /\ z.pc = "ready" /\ z.todo = <<>> /\ z.parts = zip.parts
      /\ z \in [pc : {"new", "plan", "ready"}, todo : Seq(Steps), parts : Seq(Ranges)]
  BY <1>1
<1> HIDE DEF z
<1> QED BY <1>1, <1>2, PlanReady

LEMMA PlanTimeoutInv == ASSUME ZipInv, PlanTimeout PROVE ZipInv'
<1> DEFINE parts == <<Open(None, None)>>
           z == [pc |-> "ready", todo |-> <<>>, parts |-> parts]
<1>1. zip' = z /\ UNCHANGED sel /\ part' = <<Again>> BY DEF PlanTimeout
<1>2. Bounded(parts) /\ parts \in Seq(Ranges) /\ Len(parts) = 1 BY FirstBounded DEF Bounded
<1>3. <<Again>> = [k \in 1..1 |-> Again] OBVIOUS
<1> HIDE DEF parts
<1>4. /\ z.pc = "ready" /\ z.todo = <<>> /\ z.parts = parts
      /\ z \in [pc : {"new", "plan", "ready"}, todo : Seq(Steps), parts : Seq(Ranges)]
  BY <1>2, EmptySeq
<1> HIDE DEF z
<1> QED BY <1>1, <1>2, <1>3, <1>4, PlanReady

\* The folder changes: what stays is what it was.
LEMMA ChangeKeeps ==
  ASSUME TreeTyped, Change
  PROVE  stay' \subseteq stay /\ \A p \in stay' : tree'[p] = tree[p]
<1> USE DEF ChangeTo, TreeTyped
<1>1. CASE Write BY <1>1 DEF Write
<1>2. CASE Mkdir BY <1>2 DEF Mkdir
<1>3. CASE Delete BY <1>3 DEF Delete
<1>4. CASE Rename BY <1>4 DEF Rename
<1> QED BY <1>1, <1>2, <1>3, <1>4 DEF Change

LEMMA ChangeZipInv == ASSUME TreeTyped, ZipInv, Change, UNCHANGED zipVars PROVE ZipInv'
<1>1. stay' \subseteq stay /\ stay' \subseteq Paths /\ \A p \in stay' : tree'[p] = tree[p]
  BY ChangeKeeps DEF TreeTyped
<1>2. UNCHANGED <<sel, zip, part>> BY DEF zipVars
<1>3. SelOK' /\ PlanOK' BY <1>2 DEF ZipInv, SelOK, PlanOK
<1>4. \A p \in stay' : IsFile(p)' <=> IsFile(p)
  <2> TAKE p \in stay'
  <2>1. p # <<>> BY <1>1, PathIs
  <2> QED BY <1>1, <2>1 DEF IsFile, At
<1>5. ASSUME NEW k \in DOMAIN part, Keeps(part[k], zip.parts[k]) PROVE Keeps(part[k], zip.parts[k])'
  BY <1>1, <1>2, <1>4, <1>5 DEF Keeps
<1>6. PartsOK' BY <1>2, <1>5 DEF PartsOK, ZipInv, Busy
<1> QED BY <1>3, <1>6 DEF ZipInv

LEMMA CrashZipInv == ASSUME ZipInv, ZipCrash, UNCHANGED treeVars PROVE ZipInv'
<1>1. UNCHANGED <<sel, tree, stay>> BY DEF ZipCrash, treeVars
<1>2. CASE zip.pc = "plan"
  <2>1. DOMAIN part = {} /\ zip' = NoPlan BY <1>2 DEF ZipInv, PartsOK, ZipCrash
  <2>2. DOMAIN part' = {} BY <2>1 DEF ZipCrash
  <2>3. Busy' = {} BY <2>2 DEF Busy
  <2>4. Cardinality(Busy') <= ZipSlots BY <2>3, FS_EmptySet, ZipAssumption
  <2>5. PlanOK' BY <2>1, NoPlanIs DEF PlanOK
  <2>6. PartsOK' BY <2>1, <2>2, <2>4, NoPlanIs DEF PartsOK
  <2> QED BY <1>1, <2>5, <2>6 DEF ZipInv, SelOK
<1>3. CASE zip.pc # "plan"
  <2>1. zip' = zip BY <1>3 DEF ZipCrash
  <2>2. /\ DOMAIN part' = DOMAIN part
        /\ \A k \in DOMAIN part : part'[k] = IF part[k].pc = "busy" THEN Again ELSE part[k]
    BY DEF ZipCrash
  <2>3. \A k \in DOMAIN part : PartIs(sel, part'[k], zip.parts[k])
    BY <2>2, AgainIs DEF ZipInv, PartsOK
  <2>4. ASSUME NEW k \in DOMAIN part, part'[k].pc # "new" PROVE Keeps(part[k], zip.parts[k])'
    <3>1. part'[k] = part[k] BY <2>2, <2>4, AgainIs
    <3>2. Keeps(part[k], zip.parts[k]) BY <2>4, <3>1 DEF ZipInv, PartsOK
    <3> QED BY <1>1, <2>1, <3>1, <3>2 DEF Keeps, IsFile, At
  <2>5. Busy' = {} BY <2>2, AgainIs DEF Busy
  <2>6. Cardinality(Busy') <= ZipSlots BY <2>5, FS_EmptySet, ZipAssumption
  <2>7. PartsOK' BY <1>1, <2>1, <2>2, <2>3, <2>4, <2>6 DEF PartsOK, ZipInv
  <2>8. SelOK' /\ PlanOK' BY <1>1, <2>1 DEF ZipInv, SelOK, PlanOK
  <2> QED BY <2>7, <2>8 DEF ZipInv
<1> QED BY <1>2, <1>3

LEMMA StepZipInv == ASSUME TreeTyped, ZipInv, [Next]_vars PROVE ZipInv'
<1>1. ASSUME UNCHANGED <<treeVars, zipVars>> PROVE ZipInv'
  <2>1. UNCHANGED <<tree, stay, sel, zip, part>> BY <1>1 DEF treeVars, zipVars
  <2>2. ASSUME NEW k \in DOMAIN part, Keeps(part[k], zip.parts[k]) PROVE Keeps(part[k], zip.parts[k])'
    BY <2>1, <2>2 DEF Keeps, IsFile, At
  <2> QED BY <2>1, <2>2 DEF ZipInv, SelOK, PlanOK, PartsOK, Busy
<1>2. CASE ZipNext
  <2>1. ASSUME NEW k \in DOMAIN part, PartFails(k) PROVE ZipInv'
    BY <2>1, PartAgain DEF PartFails
  <2> QED BY <1>2, <2>1, PlanStartInv, PlanVisitInv, PlanEndInv, PlanTimeoutInv, PartStartInv,
             PartVisitInv, PartCopyInv, PartEndInv DEF ZipNext
<1> QED BY <1>1, <1>2, ChangeZipInv, CrashZipInv DEF Next, vars

LEMMA InitZips == ASSUME Init PROVE TreeTyped /\ ZipInv
<1>1. SelOK /\ zip = NoPlan /\ part = <<>> BY DEF Init, ZipInit, SelOK
<1>2. PlanOK BY <1>1, NoPlanIs DEF PlanOK
<1>3. DOMAIN part = {} BY <1>1
<1>4. Busy = {} BY <1>3 DEF Busy
<1>5. PartsOK BY <1>1, <1>3, <1>4, NoPlanIs, FS_EmptySet, ZipAssumption DEF PartsOK
<1> QED BY <1>1, <1>2, <1>5, TreeInitTyped DEF ZipInv, Init

\* The names of a part are in order and no name is in two parts, however the
\* folder changes; and with all of them downloaded, what stayed is in them
\* (vfs/zip.go). The selection is of items of one folder, or all of it.
THEOREM PartsCoverTheSelection == Spec => []PartsCoverOnce
<1>1. Init => TreeTyped /\ ZipInv BY InitZips
<1>2. TreeTyped /\ ZipInv /\ [Next]_vars => (TreeTyped /\ ZipInv)' BY StepTreeTyped, StepZipInv
<1>3. TreeTyped /\ ZipInv => PartsCoverOnce
  <2> SUFFICES ASSUME TreeTyped, ZipInv PROVE PartsCoverOnce OBVIOUS
  <2>1. TreeTypeOK BY SizesAssumption DEF TreeTyped, TreeTypeOK
  <2>2. ZipTypeOK
    <3>1. DOMAIN zip.parts = 1..Len(zip.parts) BY DEF ZipInv, PlanOK
    <3> QED BY <3>1 DEF ZipTypeOK, ZipInv, PlanOK, PartsOK
  <2>3. ASSUME NEW k \in DOMAIN part
        PROVE  /\ PartIs(sel, part[k], zip.parts[k]) /\ GotIs(part[k].got, zip.parts[k])
               /\ DOMAIN part[k].got = 1..Len(part[k].got)
               /\ Bounded(zip.parts) /\ k \in 1..Len(zip.parts)
               /\ \A i \in DOMAIN part[k].got :
                    part[k].got[i].name \in Seq(Nat) /\ InRange(part[k].got[i].name, zip.parts[k])
    <3>1. PartIs(sel, part[k], zip.parts[k]) /\ GotIs(part[k].got, zip.parts[k])
      BY DEF ZipInv, PartsOK, PartIs
    <3>2. part[k].got \in Seq(Gots) BY <3>1 DEF GotIs
    <3>3. zip.pc = "ready" /\ k \in 1..Len(zip.parts) BY DEF ZipInv, PartsOK
    <3>4. \A i \in 1..Len(part[k].got) : part[k].got[i] \in Gots BY <3>2
    <3>5. \A i \in 1..Len(part[k].got) : part[k].got[i].name \in Seq(Nat) BY <3>4 DEF Gots
    <3> QED BY <3>1, <3>2, <3>3, <3>5 DEF ZipInv, PlanOK, GotIs
  <2>4. ASSUME NEW k \in DOMAIN part, NEW a \in DOMAIN part[k].got, NEW b \in DOMAIN part[k].got, a < b
        PROVE  Before(part[k].got[a].name, part[k].got[b].name)
    BY <2>3, <2>4 DEF GotIs
  <2>5. ASSUME NEW j \in DOMAIN part, NEW k \in DOMAIN part, j # k PROVE NamesIn(j) \cap NamesIn(k) = {}
    <3> SUFFICES ASSUME NEW n \in NamesIn(j), n \in NamesIn(k) PROVE FALSE OBVIOUS
    <3>1. n \in Seq(Nat) /\ InRange(n, zip.parts[j]) /\ InRange(n, zip.parts[k]) BY <2>3 DEF NamesIn
    <3>2. j < k \/ k < j BY <2>3, <2>5
    <3> QED BY <2>3, <3>1, <3>2, RangesApart
  <2>6. ASSUME DOMAIN part # {}, \A k \in DOMAIN part : Done(k), NEW p \in stay, NEW s \in Selected(p), IsFile(p)
        PROVE  \E k \in DOMAIN part : \E i \in DOMAIN part[k].got :
                 part[k].got[i] = Entry(NameOf(s, p), tree[p].ver)
    <3>1. s \in sel /\ Under(s, p) /\ p \in Paths BY DEF Selected, Under, TreeTyped
    <3>2. s \in Nodes /\ p \in Nodes BY <3>1, SelIs DEF ZipInv, Nodes
    <3>3. NameOf(s, p) \in Seq(Nat) BY <3>1, <3>2, NameIs
    <3>4. zip.pc = "ready" /\ DOMAIN part = 1..Len(zip.parts) /\ Bounded(zip.parts)
      BY <2>6 DEF ZipInv, PartsOK, PlanOK
    <3>5. PICK k \in DOMAIN part : InRange(NameOf(s, p), zip.parts[k]) BY <3>3, <3>4, RangesCover
    <3> DEFINE d == part[k]
               e == Entry(NameOf(s, p), tree[p].ver)
    <3>6. d.pc = "done" BY <2>6 DEF Done
    <3>7. Keeps(d, zip.parts[k]) /\ d.todo = <<>> /\ d.open = None
      BY <3>6 DEF ZipInv, PartsOK, PartIs
    <3>8. Covered(d, p, e) BY <2>6, <3>1, <3>5, <3>7 DEF Keeps
    <3>9. \A i \in 1..Len(d.todo) : FALSE BY <3>7, EmptySeq
    <3>10. \E i \in 1..Len(d.got) : d.got[i] = e BY <3>7, <3>8, <3>9 DEF Covered
    <3> QED BY <2>3, <3>10
  <2> QED BY <2>1, <2>2, <2>4, <2>5, <2>6 DEF PartsCoverOnce
<1> QED BY <1>1, <1>2, <1>3, PTL DEF Spec

-----------------------------------------------------------------------------
(* The numbers of a plan.                                                  *)

\* Files asked for that a walk does not come to any more, and those of them
\* whose name is in a range.
Visited(todo) ==
  {p \in Paths : /\ IsFile(p) /\ \E s \in sel : Under(s, p)
                 /\ \A i \in 1..Len(todo) : ~Under(todo[i].path, p)}
NamedIn(p, r) == \E s \in sel : Under(s, p) /\ InRange(NameOf(s, p), r)
Within(V, r) == {p \in V : NamedIn(p, r)}

SizeOf == [p \in Paths |-> tree[p].size]
Measures(r, S) == r.files = Cardinality(S) /\ r.bytes = SumOver(SizeOf, S)
PlanMeasures(parts, V) ==
  \A k \in 1..Len(parts) : /\ Measures(parts[k], Within(V, parts[k]))
                           /\ parts[k].bytes <= PartSize \/ parts[k].files = 1
PlanCounts(parts, V) ==
  /\ PlanMeasures(parts, V)
  /\ Len(parts) > 1 => \A k \in 1..Len(parts) : parts[k].files > 0

\* The names of what was visited come before those of what is to be.
Ahead(V, todo) ==
  \A p \in V, s \in sel : Under(s, p) => \A i \in 1..Len(todo) : Before(NameOf(s, p), Name(todo[i]))

\* Before the numbers of a plan are shown, and after, nothing about the folder
\* having changed.
CountsOK ==
  stay = Paths =>
    /\ zip.pc = "plan" => PlanCounts(zip.parts, Visited(zip.todo)) /\ Ahead(Visited(zip.todo), zip.todo)
    /\ zip.pc = "ready" /\ Len(zip.parts) > 1 => PlanCounts(zip.parts, Visited(<<>>))

\* Each visit adds its path, if that is a file's, to what was visited.
LEMMA VisitedMore ==
  ASSUME TreeTyped, SelOK, NEW todo, Walks(sel, todo), todo # <<>>
  PROVE  /\ ~IsFile(todo[1].path) => Visited(Rest(todo)) = Visited(todo)
         /\ IsFile(todo[1].path) =>
              /\ todo[1].path \in Paths /\ todo[1].path \notin Visited(todo)
              /\ Visited(Rest(todo)) = Visited(todo) \cup {todo[1].path}
<1> DEFINE here == todo[1].path
           rest == Rest(todo)
<1>1. /\ todo \in Seq(Steps) /\ Len(todo) \in Nat /\ 1 \in 1..Len(todo)
      /\ \A j \in 2..Len(todo) : j \in 1..Len(todo)
  <2>1. todo \in Seq(Steps) /\ Len(todo) \in Nat /\ Len(todo) > 0 BY EmptySeq DEF Walks
  <2> QED BY <2>1
<1>2. EntryOf(sel, todo[1]) /\ here \in Nodes BY <1>1 DEF Walks, EntryOf, Steps
<1>3. Walks(sel, rest) /\ \A i \in 1..Len(rest) : rest[i].path \in Nodes
  BY <1>1, SelIs, RestWalks DEF Walks, EntryOf, Steps
<1> HIDE DEF here, rest
<1>4. ASSUME NEW p \in Paths, IsFile(p), p # here
      PROVE  (\E i \in 1..Len(todo) : Under(todo[i].path, p)) <=> (\E i \in 1..Len(rest) : Under(rest[i].path, p))
  <2>1. tree[p] # None BY <1>4, AtIs DEF IsFile
  <2>2. ASSUME NEW i \in 1..Len(todo), Under(todo[i].path, p) PROVE \E j \in 1..Len(rest) : Under(rest[j].path, p)
    BY <1>1, <1>4, <2>1, <2>2, RestCovers DEF here, rest
  <2>3. ASSUME NEW i \in 1..Len(rest), Under(rest[i].path, p) PROVE \E j \in 1..Len(todo) : Under(todo[j].path, p)
    <3>1. (\E j \in 2..Len(todo) : rest[i] = todo[j]) \/ Below(here, rest[i].path)
      BY <1>1, SelIs, RestWalks DEF here, rest
    <3>2. CASE \E j \in 2..Len(todo) : rest[i] = todo[j] BY <1>1, <2>3, <3>2
    <3>3. CASE Below(here, rest[i].path)
      <4>1. here \in Seq(Nat) /\ rest[i].path \in Seq(Nat) /\ p \in Seq(Nat)
        BY <1>2, <1>3, NodeIs DEF Nodes
      <4>2. Below(here, p) BY <2>3, <3>3, <4>1, BelowTransitive DEF Under
      <4> QED BY <1>1, <4>2 DEF Under, here
    <3> QED BY <3>1, <3>2, <3>3
  <2> QED BY <2>2, <2>3
<1>5. here \notin Visited(todo) BY <1>1 DEF Visited, Under, here
<1>6. CASE ~IsFile(here) BY <1>4, <1>6 DEF Visited, here, rest
<1>7. CASE IsFile(here)
  <2>1. here \in Paths BY <1>2, <1>7 DEF Nodes, IsFile, At
  <2>2. \E s \in sel : Under(s, here) BY <1>2 DEF EntryOf, here
  <2>3. \A i \in 1..Len(rest) : Apart(here, rest[i].path)
    BY <1>7, SelIs, RestOfFile DEF IsFile, here, rest
  <2>4. \A i \in 1..Len(rest) : ~Under(rest[i].path, here)
    <3> TAKE i \in 1..Len(rest)
    <3>1. rest[i].path \in Seq(Nat) /\ here \in Seq(Nat) BY <1>3, <2>1, NodeIs DEF Nodes
    <3>2. ~Apart(here, here) BY <3>1, BeforeIrreflexive DEF Before, Apart
    <3>3. Apart(here, rest[i].path) BY <2>3
    <3> QED BY <3>1, <3>2, <3>3, ApartBelow DEF Under
  <2>5. here \in Visited(rest) BY <1>7, <2>1, <2>2, <2>4 DEF Visited
  <2>6. Visited(rest) = Visited(todo) \cup {here} BY <1>4, <2>5 DEF Visited
  <2> QED BY <1>5, <1>7, <2>1, <2>6 DEF here, rest
<1> QED BY <1>6, <1>7 DEF here

\* The names of what was visited stay before the others.
LEMMA AheadMore ==
  ASSUME TreeTyped, SelOK, NEW todo, Walks(sel, todo), todo # <<>>, Ahead(Visited(todo), todo)
  PROVE  Ahead(Visited(Rest(todo)), Rest(todo))
<1> SUFFICES ASSUME NEW p \in Visited(Rest(todo)), NEW s \in sel, Under(s, p), NEW i \in 1..Len(Rest(todo))
             PROVE  Before(NameOf(s, p), Name(Rest(todo)[i]))
  BY DEF Ahead
<1>1. p \in Paths /\ p \in Nodes /\ s \in Nodes BY SelIs DEF Visited, Nodes
<1>2. NameOf(s, p) \in Seq(Nat) BY <1>1, NameIs
<1>3. CASE p \in Visited(todo)
  <2>1. \A j \in 1..Len(todo) : Before(NameOf(s, p), Name(todo[j])) BY <1>3 DEF Ahead
  <2> QED BY <1>2, <2>1, RestNames
<1>4. CASE p \notin Visited(todo)
  <2>1. p = todo[1].path BY <1>4, VisitedMore
  <2>2. todo \in Seq(Steps) /\ Len(todo) \in Nat /\ Len(todo) > 0 BY EmptySeq DEF Walks
  <2>3. 1 \in 1..Len(todo) BY <2>2
  <2>4. todo[1].top \in sel /\ Under(todo[1].top, p) BY <2>1, <2>3 DEF Walks, EntryOf
  <2>5. NameOf(s, p) = Name(todo[1]) BY <1>1, <2>1, <2>4, SameName DEF Name
  <2> QED BY <2>5, RestNames
<1> QED BY <1>3, <1>4

\* A range is what its bounds are.
LEMMA WithinAgree ==
  ASSUME NEW V, NEW r, NEW q, r.from = q.from, r.to = q.to
  PROVE  Within(V, r) = Within(V, q)
  BY DEF Within, NamedIn, InRange

\* One file more in what is measured.
LEMMA MeasuresMore ==
  ASSUME TreeTyped, NEW S \in SUBSET Paths, \A p \in S : IsFile(p), NEW p \in Paths, IsFile(p), p \notin S,
         NEW r, NEW q, Measures(r, S), q.files = r.files + 1, q.bytes = r.bytes + tree[p].size
  PROVE  Measures(q, S \cup {p})
<1>1. IsFiniteSet(S) BY FiniteAssumption, FS_Subset
<1>2. Cardinality(S \cup {p}) = Cardinality(S) + 1 BY <1>1, FS_AddElement
<1>3. \A x \in S \cup {p} : SizeOf[x] \in Nat
  <2>1. \A x \in S \cup {p} : tree[x] \in Files BY FileIs
  <2> QED BY <2>1, SizesAssumption DEF SizeOf, Files
<1>4. SumOver(SizeOf, S \cup {p}) = SizeOf[p] + SumOver(SizeOf, S) BY <1>1, <1>3, SumAdd
<1>5. SumOver(SizeOf, S) \in Nat BY <1>1, <1>3, SumNat
<1>6. SizeOf[p] = tree[p].size BY DEF SizeOf
<1>7. SizeOf[p] \in Nat BY <1>3
<1> QED BY <1>2, <1>4, <1>5, <1>6, <1>7 DEF Measures

\* A name after where the ranges begin is in the last of them alone.
LEMMA LastRange ==
  ASSUME NEW parts, Bounded(parts), NEW n \in Seq(Nat), \A k \in 2..Len(parts) : Before(parts[k].from, n)
  PROVE  \A k \in 1..Len(parts) : InRange(n, parts[k]) <=> k = Len(parts)
<1>1. Len(parts) \in Nat /\ Len(parts) > 0 /\ Len(parts) \in 1..Len(parts) BY BoundsAre
<1>2. InRange(n, parts[Len(parts)])
  <2> DEFINE m == Len(parts)
             from == parts[m].from
  <2>0. m \in Nat /\ m > 0 /\ parts[1].from = None BY <1>1 DEF Bounded
  <2>1. from = None \/ (from \in Seq(Nat) /\ Before(from, n))
    <3>1. \A k \in 2..m : parts[k].from \in Seq(Nat) /\ Before(parts[k].from, n) BY BoundsAre
    <3> HIDE DEF m
    <3> QED BY <2>0, <3>1
  <2>2. from = None \/ ~Before(n, from) BY <2>1, BeforeTransitive, BeforeIrreflexive
  <2> QED BY <2>2 DEF Bounded, InRange
<1> SUFFICES ASSUME NEW k \in 1..Len(parts), k # Len(parts), InRange(n, parts[k]) PROVE FALSE BY <1>2
<1>3. k < Len(parts) BY <1>1
<1> QED BY <1>1, <1>2, <1>3, RangesApart

\* What a file adds is in the last range.
LEMMA WithinMore ==
  ASSUME SelOK, NEW V \in SUBSET Paths, NEW p \in Paths, NEW s \in sel, Under(s, p), NEW r
  PROVE  Within(V \cup {p}, r) = IF InRange(NameOf(s, p), r) THEN Within(V, r) \cup {p} ELSE Within(V, r) \ {p}
<1>1. NamedIn(p, r) <=> InRange(NameOf(s, p), r) BY SameName DEF NamedIn
<1> QED BY <1>1 DEF Within

\* The plan counts one file more, in the last range or in a new one.
LEMMA CountedMore ==
  ASSUME TreeTyped, SelOK, NEW parts, Bounded(parts), NEW V \in SUBSET Paths, \A p \in V : IsFile(p),
         PlanMeasures(parts, V), NEW p \in Paths, IsFile(p), p \notin V, NEW s \in sel, Under(s, p),
         \A k \in 1..Len(parts) : InRange(NameOf(s, p), parts[k]) <=> k = Len(parts),
         parts[Len(parts)].files = 0 \/ parts[Len(parts)].bytes + tree[p].size <= PartSize,
         \A k \in 1..Len(parts) : k # Len(parts) => parts[k].files > 0
  PROVE  PlanCounts(OneMore(parts, tree[p].size), V \cup {p})
<1> DEFINE m == Len(parts)
           size == tree[p].size
           more == OneMore(parts, size)
<1>1. size \in Nat BY FileIs, SizesAssumption DEF Files
<1>2. m \in Nat /\ m > 0 /\ m \in 1..m /\ \A k \in 1..m : parts[k] \in Ranges BY BoundsAre
<1>3. /\ Len(more) = m
      /\ \A k \in 1..m : more[k].from = parts[k].from /\ more[k].to = parts[k].to
      /\ \A k \in 1..m : k # m => more[k] = parts[k]
      /\ more[m].files = parts[m].files + 1 /\ more[m].bytes = parts[m].bytes + size
  BY <1>1, CountedBounded
<1>4. /\ \A k \in 1..m : Measures(parts[k], Within(V, parts[k]))
      /\ \A k \in 1..m : parts[k].bytes <= PartSize \/ parts[k].files = 1
  BY DEF PlanCounts, PlanMeasures
<1>5. parts[m].files = 0 \/ parts[m].bytes + size <= PartSize OBVIOUS
<1>6. \A k \in 1..m : k # m => parts[k].files > 0 OBVIOUS
<1>7. \A k \in 1..m : InRange(NameOf(s, p), parts[k]) <=> k = m OBVIOUS
<1> HIDE DEF m, more, size
<1>8. ASSUME NEW k \in 1..m
      PROVE  Within(V \cup {p}, more[k]) = IF k = m THEN Within(V, parts[k]) \cup {p} ELSE Within(V, parts[k])
  <2>1. Within(V \cup {p}, more[k]) = Within(V \cup {p}, parts[k]) BY <1>3, WithinAgree
  <2>2. p \notin Within(V, parts[k]) BY DEF Within
  <2>3. Within(V \cup {p}, parts[k]) = IF k = m THEN Within(V, parts[k]) \cup {p} ELSE Within(V, parts[k]) \ {p}
    BY <1>7, WithinMore
  <2>4. Within(V, parts[k]) \ {p} = Within(V, parts[k]) BY <2>2
  <2> QED BY <2>1, <2>3, <2>4
<1>9. Measures(more[m], Within(V \cup {p}, more[m]))
  <2> DEFINE S == Within(V, parts[m])
  <2>1. S \in SUBSET Paths /\ p \notin S /\ \A x \in S : IsFile(x) BY DEF Within
  <2>2. Within(V \cup {p}, more[m]) = S \cup {p} BY <1>2, <1>8
  <2>3. Measures(parts[m], S) BY <1>2, <1>4
  <2>4. more[m].files = parts[m].files + 1 /\ more[m].bytes = parts[m].bytes + tree[p].size BY <1>3 DEF size
  <2> HIDE DEF S
  <2>5. Measures(more[m], S \cup {p}) BY <2>1, <2>3, <2>4, MeasuresMore
  <2> QED BY <2>2, <2>5
<1>10. \A k \in 1..m : k # m => Measures(more[k], Within(V \cup {p}, more[k])) BY <1>3, <1>4, <1>8
<1>11. parts[m].files \in Nat /\ parts[m].bytes \in Nat BY <1>2 DEF Ranges
<1>12. more[m].bytes <= PartSize \/ more[m].files = 1 BY <1>1, <1>3, <1>5, <1>11
<1>13. \A k \in 1..m : more[k].bytes <= PartSize \/ more[k].files = 1
  <2> TAKE k \in 1..m
  <2> QED BY <1>3, <1>4, <1>12
<1>14. \A k \in 1..m : more[k].files > 0
  <2>1. more[m].files > 0 BY <1>3, <1>11
  <2> TAKE k \in 1..m
  <2> QED BY <1>3, <1>6, <2>1
<1>15. \A k \in 1..Len(more) : Measures(more[k], Within(V \cup {p}, more[k])) BY <1>3, <1>9, <1>10
<1>16. PlanCounts(more, V \cup {p}) BY <1>3, <1>13, <1>14, <1>15 DEF PlanCounts, PlanMeasures
<1> QED BY <1>16 DEF more, size

\* A part that is full ends before the next file, and a new one begins there.
LEMMA PartFull ==
  ASSUME SelOK, NEW parts, Bounded(parts), NEW V \in SUBSET Paths, PlanCounts(parts, V),
         NEW n \in Seq(Nat), n # None, \A k \in 2..Len(parts) : Before(parts[k].from, n),
         \A x \in V, t \in sel : Under(t, x) => Before(NameOf(t, x), n),
         parts[Len(parts)].files > 0
  PROVE  LET open == [parts EXCEPT ![Len(parts)].to = n] \o <<Open(n, None)>>
         IN PlanMeasures(open, V) /\ \A k \in 1..Len(open) : k # Len(open) => open[k].files > 0
<1> DEFINE m == Len(parts)
           open == [parts EXCEPT ![Len(parts)].to = n] \o <<Open(n, None)>>
<1>1. m \in Nat /\ m > 0 /\ m \in 1..m /\ parts[m].to = None BY BoundsAre DEF Bounded
<1>2. /\ Len(open) = m + 1
      /\ \A k \in 1..m : open[k] = IF k = m THEN [parts[k] EXCEPT !.to = n] ELSE parts[k]
      /\ open[m + 1] = Open(n, None)
  BY NextBounded
<1>3. /\ \A k \in 1..m : Measures(parts[k], Within(V, parts[k]))
      /\ \A k \in 1..m : parts[k].bytes <= PartSize \/ parts[k].files = 1
      /\ m > 1 => \A k \in 1..m : parts[k].files > 0
  BY DEF PlanCounts, PlanMeasures
<1>4. \A k \in 1..m : parts[k].files > 0
  <2>1. parts[m].files > 0 OBVIOUS
  <2> HIDE DEF m
  <2> QED BY <1>1, <1>3, <2>1
<1>5. \A k \in 1..m : parts[k] \in Ranges BY BoundsAre
<1>6. \A x \in V, t \in sel : Under(t, x) => Before(NameOf(t, x), n) /\ ~(~Before(NameOf(t, x), n)) OBVIOUS
<1> HIDE DEF m, open
<1>7. ASSUME NEW k \in 1..m
      PROVE  open[k].from = parts[k].from /\ open[k].files = parts[k].files /\ open[k].bytes = parts[k].bytes
             /\ open[k].to = IF k = m THEN n ELSE parts[k].to
  BY <1>2, <1>5 DEF Ranges
<1>8. \A k \in 1..m : Within(V, open[k]) = Within(V, parts[k])
  <2> TAKE k \in 1..m
  <2>1. CASE k # m BY <1>7, <2>1, WithinAgree
  <2>2. CASE k = m
    <3>1. \A x \in V : NamedIn(x, open[k]) <=> NamedIn(x, parts[k])
      BY <1>1, <1>6, <1>7, <2>2 DEF NamedIn, InRange
    <3> QED BY <3>1 DEF Within
  <2> QED BY <2>1, <2>2
<1>9. \A k \in 1..m : Measures(open[k], Within(V, open[k])) BY <1>3, <1>7, <1>8 DEF Measures
<1>10. open[m + 1].from = n /\ open[m + 1].to = None /\ open[m + 1].files = 0 /\ open[m + 1].bytes = 0
  BY <1>2 DEF Open
<1>11. Within(V, open[m + 1]) = {} BY <1>6, <1>10 DEF Within, NamedIn, InRange
<1>12. Measures(open[m + 1], Within(V, open[m + 1])) BY <1>10, <1>11, FS_EmptySet, SumEmpty DEF Measures
<1>13. \A k \in 1..m + 1 : k \in 1..m \/ k = m + 1 BY <1>1
<1>14. \A k \in 1..m + 1 : open[k].bytes <= PartSize \/ open[k].files = 1
  BY <1>3, <1>7, <1>10, <1>13, ZipAssumption
<1>15. \A k \in 1..m + 1 : k # m + 1 => open[k].files > 0 BY <1>4, <1>7, <1>13
<1>16. \A k \in 1..Len(open) : Measures(open[k], Within(V, open[k])) BY <1>2, <1>9, <1>12, <1>13
<1> QED BY <1>2, <1>14, <1>15, <1>16 DEF PlanMeasures, open

\* A visit of a file counts it.
LEMMA PlannedCounts ==
  ASSUME TreeTyped, SelOK, NEW parts, Bounded(parts), NEW V \in SUBSET Paths, \A p \in V : IsFile(p),
         PlanCounts(parts, V), NEW p \in Paths, IsFile(p), p \notin V, NEW s \in sel, Under(s, p),
         \A k \in 2..Len(parts) : Before(parts[k].from, NameOf(s, p)),
         \A x \in V, t \in sel : Under(t, x) => Before(NameOf(t, x), NameOf(s, p))
  PROVE  PlanCounts(Planned(parts, NameOf(s, p), tree[p].size), V \cup {p})
<1> DEFINE n == NameOf(s, p)
           size == tree[p].size
           open == [parts EXCEPT ![Len(parts)].to = n] \o <<Open(n, None)>>
           m == Len(parts)
<1>1. size \in Nat BY FileIs, SizesAssumption DEF Files
<1>2. n \in Seq(Nat) /\ n # None
  <2>1. s \in Nodes /\ p \in Nodes BY SelIs DEF Nodes
  <2> QED BY <2>1, NameIs, NamesAssumption DEF Nodes
<1>3. m \in Nat /\ m > 0 /\ m \in 1..m /\ \A k \in 1..m : parts[k] \in Ranges BY BoundsAre
<1>4. parts[m].files \in Nat /\ parts[m].bytes \in Nat BY <1>3 DEF Ranges
<1>5. PlanMeasures(parts, V) /\ (m > 1 => \A k \in 1..m : parts[k].files > 0) BY DEF PlanCounts
<1>6. \A k \in 2..m : Before(parts[k].from, n) OBVIOUS
<1>7. CASE Full(parts[m], size)
  <2>1. parts[m].files > 0 BY <1>7 DEF Full
  <2>2. Planned(parts, n, size) = OneMore(open, size) BY <1>7 DEF Planned, OneMore
  <2>3. PlanMeasures(open, V) /\ \A k \in 1..Len(open) : k # Len(open) => open[k].files > 0
    BY <1>2, <1>6, <2>1, PartFull
  <2>4. /\ Bounded(open) /\ Len(open) = m + 1 /\ open[m + 1] = Open(n, None)
        /\ \A k \in 1..m : open[k] = IF k = m THEN [parts[k] EXCEPT !.to = n] ELSE parts[k]
    BY <1>2, <1>6, NextBounded
  <2> HIDE DEF open, m
  <2>5. \A k \in 1..Len(open) : InRange(n, open[k]) <=> k = Len(open)
    <3>1. InRange(n, open[m + 1]) BY <1>2, <2>4, BeforeIrreflexive DEF InRange, Open
    <3>2. m + 1 \in 1..Len(open) /\ \A k \in 1..Len(open) : k # m + 1 => k < m + 1 BY <1>3, <2>4
    <3> QED BY <1>2, <2>4, <3>1, <3>2, RangesApart
  <2>6. open[Len(open)].files = 0 BY <2>4 DEF Open
  <2>7. Bounded(open) BY <2>4
  <2>8. PlanMeasures(open, V) BY <2>3
  <2>9. \A k \in 1..Len(open) : k # Len(open) => open[k].files > 0 BY <2>3
  <2>10. PlanCounts(OneMore(open, tree[p].size), V \cup {p})
    BY <2>5, <2>6, <2>7, <2>8, <2>9, CountedMore
  <2> QED BY <2>2, <2>10
<1>8. CASE ~Full(parts[m], size)
  <2>1. parts[m].files = 0 \/ parts[m].bytes + size <= PartSize BY <1>1, <1>4, <1>8, ZipAssumption DEF Full
  <2>2. Planned(parts, n, size) = OneMore(parts, size) BY <1>8 DEF Planned, OneMore
  <2>3. \A k \in 1..m : k # m => parts[k].files > 0
    <3> HIDE DEF m
    <3>1. \A k \in 1..m : k # m => m > 1 BY <1>3
    <3> QED BY <1>5, <3>1
  <2>4. \A k \in 1..m : InRange(n, parts[k]) <=> k = m BY <1>2, <1>6, LastRange
  <2> QED BY <1>5, <2>1, <2>2, <2>3, <2>4, CountedMore
<1> QED BY <1>7, <1>8

LEMMA CountsKept ==
  ASSUME UNCHANGED <<tree, sel>>
  PROVE  /\ \A t : Visited(t)' = Visited(t)
         /\ \A q, V : PlanCounts(q, V)' <=> PlanCounts(q, V)
         /\ \A V, t : Ahead(V, t)' <=> Ahead(V, t)
<1>1. \A t : Visited(t)' = Visited(t) BY DEF Visited, IsFile, At
<1>2. \A V, r : Within(V, r)' = Within(V, r) BY DEF Within, NamedIn
<1>3. \A r, S : Measures(r, S)' <=> Measures(r, S) BY DEF Measures, SizeOf
<1>4. \A q, V : PlanCounts(q, V)' <=> PlanCounts(q, V) BY <1>2, <1>3 DEF PlanCounts, PlanMeasures
<1> QED BY <1>1, <1>4 DEF Ahead

LEMMA PlanVisitCounts == ASSUME TreeTyped, ZipInv, CountsOK, PlanVisit PROVE CountsOK'
<1> DEFINE todo == zip.todo
           parts == zip.parts
           here == todo[1]
           n == NameOf(here.top, here.path)
           more == IF IsFile(here.path) THEN Planned(parts, n, tree[here.path].size) ELSE parts
           rest == Rest(todo)
<1>1. /\ zip.pc = "plan" /\ UNCHANGED <<sel, tree, stay>> /\ SelOK /\ todo # <<>>
      /\ Walks(sel, todo) /\ Bounded(parts)
      /\ \A k \in 2..Len(parts), i \in 1..Len(todo) : Before(parts[k].from, Name(todo[i]))
      /\ zip \in [pc : {"new", "plan", "ready"}, todo : Seq(Steps), parts : Seq(Ranges)]
  BY DEF PlanVisit, ZipInv, PlanOK
<1>2. /\ todo \in Seq(Steps) /\ Len(todo) \in Nat /\ 1 \in 1..Len(todo) /\ Head(todo) = here
      /\ here.top \in sel /\ Under(here.top, here.path)
  <2>1. todo \in Seq(Steps) BY <1>1 DEF Walks
  <2>2. Len(todo) \in Nat /\ Len(todo) > 0 BY <1>1, <2>1, EmptySeq
  <2>3. 1 \in 1..Len(todo) BY <2>2
  <2> HIDE DEF todo
  <2> QED BY <1>1, <2>1, <2>2, <2>3 DEF Walks, EntryOf
<1>3. zip' = IF Fails(here) THEN NoPlan ELSE [zip EXCEPT !.todo = rest, !.parts = more]
  BY <1>1, <1>2 DEF PlanVisit
<1>4. CASE Fails(here)
  <2>1. zip'.pc = "new" BY <1>3, <1>4, NoPlanIs
  <2> QED BY <2>1 DEF CountsOK
<1>5. CASE ~Fails(here) /\ stay # Paths BY <1>1, <1>5 DEF CountsOK
<1>6. CASE ~Fails(here) /\ stay = Paths
  <2>1. PlanCounts(parts, Visited(todo)) /\ Ahead(Visited(todo), todo) BY <1>1, <1>6 DEF CountsOK
  <2>2. Ahead(Visited(rest), rest) BY <1>1, <2>1, AheadMore
  <2>3. PlanCounts(more, Visited(rest))
    <3>1. CASE ~IsFile(here.path) BY <1>1, <2>1, <3>1, VisitedMore
    <3>2. CASE IsFile(here.path)
      <4> DEFINE V == Visited(todo)
                 p == here.path
      <4>1. p \in Paths /\ p \notin V /\ Visited(rest) = V \cup {p} BY <1>1, <3>2, VisitedMore
      <4>2. V \in SUBSET Paths /\ \A x \in V : IsFile(x) BY DEF Visited
      <4>3. \A x \in V, t \in sel : Under(t, x) => Before(NameOf(t, x), n) BY <1>2, <2>1 DEF Ahead, Name
      <4>4. \A k \in 2..Len(parts) : Before(parts[k].from, n) BY <1>1, <1>2 DEF Name
      <4> HIDE DEF V
      <4>5. PlanCounts(Planned(parts, n, tree[p].size), V \cup {p})
        BY <1>1, <1>2, <2>1, <3>2, <4>1, <4>2, <4>3, <4>4, PlannedCounts DEF V
      <4> QED BY <3>2, <4>1, <4>5
    <3> QED BY <3>1, <3>2
  <2> HIDE DEF more, rest
  <2>4. zip'.pc = "plan" /\ zip'.todo = rest /\ zip'.parts = more BY <1>1, <1>3, <1>6
  <2> QED BY <1>1, <1>6, <2>2, <2>3, <2>4, CountsKept DEF CountsOK
<1> QED BY <1>4, <1>5, <1>6

\* A plan begins with nothing visited.
LEMMA PlanStartCounts == ASSUME TreeTyped, ZipInv, PlanStart PROVE CountsOK'
<1> DEFINE parts == <<Open(None, None)>>
           todo == Walk(sel)
<1>1. /\ zip'.pc = "plan" /\ zip'.todo = todo /\ zip'.parts = parts /\ UNCHANGED <<tree, sel>> /\ SelOK
  BY DEF PlanStart, ZipInv
<1>2. Visited(todo) = {}
  <2>1. \A s \in sel : \E i \in 1..Len(todo) : todo[i].path = s BY <1>1, WalkStarts
  <2> QED BY <2>1 DEF Visited
<1>3. Len(parts) = 1 /\ parts[1] = Open(None, None) OBVIOUS
<1> HIDE DEF parts, todo
<1>4. parts[1].files = 0 /\ parts[1].bytes = 0 BY <1>3 DEF Open
<1>5. Within({}, parts[1]) = {} BY DEF Within
<1>6. Measures(parts[1], {}) BY <1>4, FS_EmptySet, SumEmpty DEF Measures
<1>7. parts[1].bytes <= PartSize BY <1>4, ZipAssumption
<1>8. \A k \in 1..Len(parts) : k = 1 BY <1>3
<1>9. ~(Len(parts) > 1) BY <1>3
<1>10. PlanCounts(parts, {}) BY <1>5, <1>6, <1>7, <1>8, <1>9 DEF PlanCounts, PlanMeasures
<1>11. Ahead({}, todo) BY DEF Ahead
<1> QED BY <1>1, <1>2, <1>10, <1>11, CountsKept DEF CountsOK

LEMMA PlanEndCounts == ASSUME ZipInv, CountsOK, PlanEnd PROVE CountsOK'
<1>1. /\ zip.pc = "plan" /\ zip.todo = <<>> /\ UNCHANGED <<tree, stay, sel>>
      /\ zip' = [zip EXCEPT !.pc = "ready"]
      /\ zip \in [pc : {"new", "plan", "ready"}, todo : Seq(Steps), parts : Seq(Ranges)]
  BY DEF PlanEnd, ZipInv, PlanOK
<1>2. zip'.pc = "ready" /\ zip'.parts = zip.parts BY <1>1
<1> QED BY <1>1, <1>2, CountsKept DEF CountsOK

LEMMA PlanTimeoutCounts == ASSUME PlanTimeout PROVE CountsOK'
<1> DEFINE parts == <<Open(None, None)>>
<1>1. zip'.pc = "ready" /\ zip'.parts = parts BY DEF PlanTimeout
<1>2. ~(Len(parts) > 1) OBVIOUS
<1> HIDE DEF parts
<1> QED BY <1>1, <1>2 DEF CountsOK

LEMMA ChangeCounts == ASSUME TreeTyped, Change PROVE CountsOK'
<1>1. stay' # Paths
  <2> USE DEF ChangeTo
  <2>1. CASE Write BY <2>1 DEF Write
  <2>2. CASE Mkdir BY <2>2 DEF Mkdir
  <2>3. CASE Delete BY <2>3 DEF Delete
  <2>4. CASE Rename BY <2>4 DEF Rename
  <2> QED BY <2>1, <2>2, <2>3, <2>4 DEF Change
<1> QED BY <1>1 DEF CountsOK

LEMMA StepCounts == ASSUME TreeTyped, ZipInv, CountsOK, [Next]_vars PROVE CountsOK'
<1>1. ASSUME UNCHANGED <<tree, stay, sel, zip>> PROVE CountsOK' BY <1>1, CountsKept DEF CountsOK
<1>2. CASE ZipNext
  <2>1. ASSUME NEW k \in DOMAIN part,
               PartStart(k) \/ PartFails(k) \/ PartVisit(k) \/ PartCopy(k) \/ PartEnd(k)
        PROVE  CountsOK'
    BY <1>1, <2>1 DEF PartStart, PartFails, PartVisit, PartCopy, PartEnd
  <2> QED BY <1>2, <2>1, PlanStartCounts, PlanVisitCounts, PlanEndCounts, PlanTimeoutCounts DEF ZipNext
<1>3. CASE ZipCrash /\ UNCHANGED treeVars
  <2>1. zip' = NoPlan \/ zip' = zip BY <1>3 DEF ZipCrash
  <2>2. CASE zip' = zip BY <1>1, <1>3, <2>2 DEF ZipCrash, treeVars
  <2>3. CASE zip' = NoPlan BY <2>3, NoPlanIs DEF CountsOK
  <2> QED BY <2>1, <2>2, <2>3
<1>4. ASSUME UNCHANGED <<treeVars, zipVars>> PROVE CountsOK' BY <1>1, <1>4 DEF treeVars, zipVars
<1> QED BY <1>2, <1>3, <1>4, ChangeCounts DEF Next, vars

\* The bytes of a part, as the plan says them.
LEMMA BytesAreSum ==
  ASSUME NEW S \in SUBSET Paths
  PROVE  MapThenSumSet(LAMBDA p : tree[p].size, S) = SumOver(SizeOf, S)
<1>0. IsFiniteSet(S) BY FiniteAssumption, FS_Subset
<1> DEFINE IsBytes(g) ==
      g = [s \in SUBSET S |-> IF s = {} THEN 0 ELSE tree[Chosen(s)].size + g[s \ {Chosen(s)}]]
<1>1. MapThenSumSet(LAMBDA p : tree[p].size, S) = (CHOOSE g : IsBytes(g))[S]
  BY Zenon DEF MapThenSumSet, MapThenFoldSet, Chosen
<1>2. ASSUME NEW s \in SUBSET S, s # {} PROVE SizeOf[Chosen(s)] = tree[Chosen(s)].size
  BY <1>2, ChosenIn DEF SizeOf
<1>3. \A g : IsBytes(g) <=> IsFold(g, SizeOf, S) BY <1>2 DEF IsFold
<1>4. IsFold(CHOOSE g : IsBytes(g), SizeOf, S) BY <1>0, <1>3, FoldExists
<1> QED BY <1>0, <1>1, <1>4, SumPart

\* While the folder stays what it was, the numbers of a plan are those of its
\* parts, and a part is within the size or one file (planZipParts).
THEOREM PlansAreTrue == Spec => []PlanIsTrue
<1>1. Init => TreeTyped /\ ZipInv /\ CountsOK
  <2> SUFFICES ASSUME Init PROVE TreeTyped /\ ZipInv /\ CountsOK OBVIOUS
  <2>1. zip = NoPlan BY DEF Init, ZipInit
  <2>2. CountsOK BY <2>1, NoPlanIs DEF CountsOK
  <2> QED BY <2>2, InitZips DEF Init
<1>2. TreeTyped /\ ZipInv /\ CountsOK /\ [Next]_vars => (TreeTyped /\ ZipInv /\ CountsOK)'
  BY StepTreeTyped, StepZipInv, StepCounts
<1>3. TreeTyped /\ ZipInv /\ CountsOK => PlanIsTrue
  <2> SUFFICES ASSUME TreeTyped, ZipInv, CountsOK, zip.pc = "ready", stay = Paths, Len(zip.parts) > 1,
                      NEW k \in DOMAIN zip.parts
               PROVE  LET r == zip.parts[k]
                          files == {p \in Paths : IsFile(p) /\ \E s \in Selected(p) : InRange(NameOf(s, p), r)}
                      IN /\ r.files = Cardinality(files) /\ r.files > 0
                         /\ r.bytes = MapThenSumSet(LAMBDA p : tree[p].size, files)
                         /\ r.bytes <= PartSize \/ r.files = 1
    BY Zenon DEF PlanIsTrue
  <2> DEFINE r == zip.parts[k]
             files == {p \in Paths : IsFile(p) /\ \E s \in Selected(p) : InRange(NameOf(s, p), r)}
  <2>1. k \in 1..Len(zip.parts) BY DEF ZipInv, PlanOK
  <2>2. PlanCounts(zip.parts, Visited(<<>>)) BY DEF CountsOK
  <2>3. Within(Visited(<<>>), r) = files
    <3>1. \A p : \A i \in 1..Len(<<>>) : ~Under(<<>>[i].path, p) BY EmptySeq
    <3> QED BY <3>1 DEF Within, Visited, NamedIn, Selected, Under
  <2>4. Measures(r, files) /\ r.files > 0 /\ (r.bytes <= PartSize \/ r.files = 1)
    BY <2>1, <2>2, <2>3 DEF PlanCounts, PlanMeasures
  <2>5. MapThenSumSet(LAMBDA p : tree[p].size, files) = SumOver(SizeOf, files) BY BytesAreSum
  <2> QED BY <2>4, <2>5, Zenon DEF Measures
<1> QED BY <1>1, <1>2, <1>3, PTL DEF Spec

-----------------------------------------------------------------------------
(* Analyses: the header read first.                                        *)

LEMMA BeforeTotal ==
  ASSUME NEW a \in Seq(Nat), NEW b \in Seq(Nat), a # b
  PROVE  Before(a, b) \/ Before(b, a)
<1>1. Len(a) \in Nat /\ Len(b) \in Nat /\ (\A i \in 1..Len(a) : a[i] \in Nat) /\ (\A i \in 1..Len(b) : b[i] \in Nat)
  OBVIOUS
<1> DEFINE D == {i \in Nat : 1 <= i /\ i <= Len(a) /\ i <= Len(b) /\ a[i] # b[i]}
<1>2. CASE D = {}
  <2>1. \A i \in Nat : 1 <= i /\ i <= Len(a) /\ i <= Len(b) => a[i] = b[i] BY <1>2
  <2>2. CASE Len(a) < Len(b)
    <3>1. \A i \in 1..Len(a) : b[i] = a[i] BY <1>1, <2>1, <2>2
    <3> QED BY <2>2, <3>1, BelowAt, BeforeIs
  <2>3. CASE Len(b) < Len(a)
    <3>1. \A i \in 1..Len(b) : a[i] = b[i] BY <1>1, <2>1, <2>3
    <3> QED BY <2>3, <3>1, BelowAt, BeforeIs
  <2>4. CASE Len(a) = Len(b)
    <3>1. \A i \in 1..Len(a) : a[i] = b[i] BY <1>1, <2>1, <2>4
    <3> QED BY <2>4, <3>1, SeqEqual
  <2> QED BY <1>1, <2>2, <2>3, <2>4
<1>3. CASE D # {}
  <2>1. D \in SUBSET Nat OBVIOUS
  <2> DEFINE i == Min(D)
  <2>2. i \in D /\ \A y \in D : i <= y
    <3> HIDE DEF D
    <3> QED BY <1>3, <2>1, LeastNatural
  <2> HIDE DEF i
  <2>3. i \in Nat /\ 1 <= i /\ i <= Len(a) /\ i <= Len(b) /\ a[i] # b[i] BY <2>2
  <2>4. \A j \in Nat : 1 <= j /\ j < i => a[j] = b[j]
    <3> TAKE j \in Nat
    <3> HAVE 1 <= j /\ j < i
    <3>1. j \notin D BY <2>2, <2>3
    <3> QED BY <1>1, <2>3, <3>1
  <2>5. a[i] < b[i] \/ b[i] < a[i] BY <1>1, <2>3
  <2>6. PartsAt(a, b, i) \/ PartsAt(b, a, i) BY <2>3, <2>4, <2>5 DEF PartsAt
  <2> QED BY <2>6, ApartAt, BeforeIs
<1> QED BY <1>2, <1>3

\* Some paths have a first one.
LEMMA FirstIs == ASSUME NEW S \in SUBSET Paths, S # {} PROVE First(S) \in S
<1> DEFINE R == {w \in S \X S : Before(w[1], w[2])}
           n == Cardinality(S)
<1>1. IsFiniteSet(S) BY FiniteAssumption, FS_Subset
<1>2. \A x \in S : x \in Seq(Nat) BY PathIs
<1>3. \A x, y \in S : <<x, y>> \in R <=> Before(x, y) OBVIOUS
<1>4. Orders(R, S)
  <2> HIDE DEF R
  <2>1. \A x \in S : <<x, x>> \notin R BY <1>2, <1>3, BeforeIrreflexive
  <2>2. \A x, y \in S : x # y => <<x, y>> \in R \/ <<y, x>> \in R BY <1>2, <1>3, BeforeTotal
  <2>3. \A x, y, z \in S : <<x, y>> \in R /\ <<y, z>> \in R => <<x, z>> \in R BY <1>2, <1>3, BeforeTransitive
  <2> QED BY <2>1, <2>2, <2>3 DEF Orders
<1> HIDE DEF R
<1>5. PICK s \in [1..n -> S] : \A i, j \in 1..n : i < j => <<s[i], s[j]>> \in R
  BY <1>1, <1>4, InOrderExists
<1>6. \A x \in S : \E k \in 1..n : s[k] = x BY <1>1, <1>4, <1>5, InOrderHas
<1>7. n \in Nat BY <1>1, FS_CardinalityType
<1> HIDE DEF n
<1>8. 1 \in 1..n BY <1>6, <1>7
<1>9. \A q \in S : q = s[1] \/ Before(s[1], q)
  <2> TAKE q \in S
  <2>1. PICK k \in 1..n : s[k] = q BY <1>6
  <2>2. k = 1 \/ 1 < k BY <1>7
  <2>3. 1 < k => <<s[1], s[k]>> \in R BY <1>5, <1>8
  <2> QED BY <1>3, <1>5, <1>8, <2>1, <2>2, <2>3
<1>10. s[1] \in S BY <1>5, <1>8
<1>11. \E p \in S : \A q \in S : q = p \/ Before(p, q) BY <1>9, <1>10
<1> QED BY <1>11 DEF First

-----------------------------------------------------------------------------
(* Analyses: what they know.                                               *)

\* Functions on some of the paths.
Partial(S) == UNION {[D -> S] : D \in SUBSET Paths}

LEMMA PartialIs ==
  ASSUME NEW S
  PROVE  /\ \A f \in Partial(S) : DOMAIN f \subseteq Paths /\ \A p \in DOMAIN f : f[p] \in S
         /\ \A D \in SUBSET Paths : \A f \in [D -> S] : f \in Partial(S)
  BY DEF Partial

LEMMA PartialEmpty == ASSUME NEW S PROVE <<>> \in Partial(S) /\ DOMAIN <<>> = {}
<1>1. DOMAIN <<>> = {} OBVIOUS
<1>2. <<>> \in [{} -> S] OBVIOUS
<1> QED BY <1>1, <1>2, PartialIs

LEMMA PartialAlso ==
  ASSUME NEW S, NEW f \in Partial(S), NEW p \in Paths, NEW v \in S
  PROVE  Also(f, p, v) \in Partial(S)
<1>1. DOMAIN f \subseteq Paths /\ \A q \in DOMAIN f : f[q] \in S BY PartialIs
<1>2. Also(f, p, v) \in [DOMAIN f \cup {p} -> S] BY <1>1 DEF Also
<1>3. DOMAIN f \cup {p} \in SUBSET Paths BY <1>1
<1> QED BY <1>2, <1>3, PartialIs

Rows == [ver : Nat, size : Sizes, what : {None} \cup Nat, mixed : BOOLEAN]
\* A row says what the header of its file holds, unless the file was another
\* by then.
GoodRows == {r \in Rows : r.mixed \/ r.what = Header(r)}

LEMMA ProbedIs ==
  ASSUME TreeTyped, NEW p \in Paths, NEW file \in Files
  PROVE  Probed(p, file) \in GoodRows /\ Same(Probed(p, file), file)
<1>1. file.ver \in Nat /\ file.size \in Sizes BY DEF Files
<1>2. CASE IsFile(p)
  <2>1. tree[p].ver \in Nat /\ tree[p].size \in Sizes BY <1>2, FileIs DEF Files
  <2> QED BY <1>1, <1>2, <2>1 DEF Probed, RowOf, GoodRows, Rows, Same, Header, Bad
<1>3. CASE ~IsFile(p)
  BY <1>1, <1>3 DEF Probed, RowOf, GoodRows, Rows, Same, Header, Bad
<1> QED BY <1>2, <1>3

LEMMA SameHeader ==
  ASSUME NEW a, NEW b, Same(a, b)
  PROVE  Header(a) = Header(b)
  BY DEF Same, Header

Asks == [pc : {"walk", "job", "probe", "answer"}, kind : {"stats", "csv"}, sel : Selections,
         born : Nat, rounds : Nat, todo : Seq(Steps), scanned : Nat, partial : BOOLEAN,
         cut : BOOLEAN, since : Nat, cand : Partial(Files), misses : SUBSET Paths,
         got : Partial(GoodRows), rows : Partial(GoodRows)]
Jobs == [pc : {"run"}, misses : Partial(Files), rows : Partial(GoodRows)]

\* What is asked for leads to p.
Leads(s, p) == \E i \in DOMAIN s : s[i] = p \/ Below(s[i], p)
\* An analysis has every file, or comes to it.
HasAll(d) ==
  \A p \in Paths : IsFile(p) /\ Leads(d.sel, p) =>
    /\ d.pc = "walk" => p \in DOMAIN d.cand \/ \E i \in 1..Len(d.todo) : Under(d.todo[i].path, p)
    /\ d.pc \in {"probe", "answer"} => p \in DOMAIN d.cand
AskIs(d) ==
  /\ d \in Asks
  /\ d.scanned <= MaxScan /\ d.since <= changed
  /\ d.misses \subseteq DOMAIN d.cand
  /\ \A p \in DOMAIN d.got : p \in DOMAIN d.cand /\ Same(d.got[p], d.cand[p])
  /\ d.pc \in {"probe", "answer"} /\ ~d.cut => DOMAIN d.cand \subseteq DOMAIN d.got \cup d.misses
  /\ d.pc = "answer" => d.misses = {}
  /\ d.pc = "job" => \A p : Leads(d.sel, p) => \E i \in 1..Len(d.todo) : Under(d.todo[i].path, p)
  /\ ~d.partial /\ d.since = changed => HasAll(d)
MediaInv ==
  /\ changed \in Nat /\ mishaps \in Nat /\ spoilt \in Nat
  /\ ask \in [Askers -> {Off} \cup Asks] /\ job \in [Askers -> {Off} \cup Jobs]
  /\ media \in [Paths -> {None} \cup GoodRows]
  /\ \A a \in Askers : ask[a] # Off => AskIs(ask[a])

LEMMA OpenedIs ==
  ASSUME changed \in Nat, NEW s \in Selections, NEW kind \in {"stats", "csv"}, NEW born \in Nat, NEW rounds \in Nat
  PROVE  AskIs(Opened(s, kind, born, rounds)) /\ AskIs([Opened(s, kind, born, rounds) EXCEPT !.pc = "job"])
<1> DEFINE todo == [i \in DOMAIN s |-> [top |-> s[i], path |-> s[i]]]
<1>1. s \in Seq(Nodes) /\ DOMAIN s = 1..Len(s) /\ Len(s) \in Nat /\ \A i \in 1..Len(s) : s[i] \in Nodes
  BY MediaAssumption DEF Nodes
<1>2. todo \in Seq(Steps) /\ Len(todo) = Len(s)
  <2>1. \A i \in 1..Len(s) : [top |-> s[i], path |-> s[i]] \in Steps BY <1>1 DEF Steps
  <2> QED BY <1>1, <2>1, IsASeq
<1>3. \A p : Leads(s, p) => \E i \in 1..Len(todo) : Under(todo[i].path, p)
  BY <1>1, <1>2 DEF Leads, Under
<1> DEFINE d == Opened(s, kind, born, rounds)
           j == [d EXCEPT !.pc = "job"]
<1>4. d \in Asks
  <2> HIDE DEF todo
  <2> QED BY <1>2, PartialEmpty DEF Asks, Opened, todo
<1>5. /\ d.pc = "walk" /\ d.sel = s /\ d.todo = todo /\ d.scanned = 0 /\ d.since = changed
      /\ d.cand = <<>> /\ d.misses = {} /\ d.got = <<>>
  BY DEF Opened
<1>6. DOMAIN <<>> = {} OBVIOUS
<1> HIDE DEF d, todo
<1>7. /\ j \in Asks /\ j.pc = "job" /\ j.sel = s /\ j.todo = todo /\ j.scanned = 0 /\ j.since = changed
      /\ j.cand = <<>> /\ j.misses = {} /\ j.got = <<>>
  BY <1>4, <1>5 DEF Asks
<1> HIDE DEF j
<1>8. HasAll(d) /\ HasAll(j) BY <1>3, <1>5, <1>7 DEF HasAll
<1>9. AskIs(d) BY <1>4, <1>5, <1>6, <1>8, MediaAssumption DEF AskIs
<1>10. AskIs(j) BY <1>3, <1>6, <1>7, <1>8, MediaAssumption DEF AskIs
<1> QED BY <1>9, <1>10 DEF d, j

LEMMA AsksKept ==
  ASSUME UNCHANGED <<tree, changed>>
  PROVE  \A d : AskIs(d)' <=> AskIs(d)
  BY DEF AskIs, HasAll, IsFile, At

\* A step of one analysis.
LEMMA AskMoves ==
  ASSUME MediaInv, UNCHANGED <<tree, changed>>, NEW a \in Askers, NEW d, d = Off \/ AskIs(d),
         ask' = [ask EXCEPT ![a] = d],
         job' \in [Askers -> {Off} \cup Jobs], media' \in [Paths -> {None} \cup GoodRows],
         mishaps' \in Nat, spoilt' \in Nat
  PROVE  MediaInv'
<1>1. d = Off \/ d \in Asks BY DEF AskIs
<1>2. ask' \in [Askers -> {Off} \cup Asks] BY <1>1 DEF MediaInv
<1>3. \A b \in Askers : ask'[b] = IF b = a THEN d ELSE ask[b] BY DEF MediaInv
<1>4. \A b \in Askers : ask'[b] # Off => AskIs(ask'[b]) BY <1>3 DEF MediaInv
<1>5. \A b \in Askers : ask'[b] # Off => AskIs(ask[b])' BY <1>4, AsksKept
<1> QED BY <1>2, <1>5 DEF MediaInv

LEMMA MediaOpenInv == ASSUME TreeTyped, MediaInv, NEW a \in Askers, MediaOpen(a), UNCHANGED treeVars PROVE MediaInv'
<1>1. PICK s \in Selections, kind \in {"stats", "csv"} :
        ask' = [ask EXCEPT ![a] = Opened(s, kind, Happened, 0)]
  BY DEF MediaOpen
<1>2. Happened \in Nat BY DEF MediaInv, Happened
<1>3. AskIs(Opened(s, kind, Happened, 0)) BY <1>2, OpenedIs DEF MediaInv
<1> QED BY <1>1, <1>3, AskMoves DEF MediaOpen, MediaInv, treeVars

LEMMA MediaVisitInv == ASSUME TreeTyped, MediaInv, NEW a \in Askers, MediaVisit(a), UNCHANGED treeVars PROVE MediaInv'
<1> DEFINE d == ask[a]
           here == Head(d.todo)
           n == d.scanned + IF Counted(here) THEN 1 ELSE 0
           p == here.path
           more == IF IsFile(p) /\ p \notin DOMAIN d.cand THEN Also(d.cand, p, tree[p]) ELSE d.cand
           next == [d EXCEPT !.todo = Rest(d.todo), !.scanned = n, !.cand = more]
<1>1. d.pc = "walk" /\ d.todo # <<>> /\ UNCHANGED <<job, media, mishaps, spoilt, tree, changed>>
  BY DEF MediaVisit, treeVars
<1>2. AskIs(d) /\ d \in Asks BY <1>1 DEF MediaInv, AskIs, Off
<1>3. /\ d.todo \in Seq(Steps) /\ d.scanned \in Nat /\ d.cand \in Partial(Files) /\ d.sel \in Selections
  BY <1>2 DEF Asks
<1>4. /\ here = d.todo[1] /\ here \in Steps /\ p \in Nodes /\ Rest(d.todo) \in Seq(Steps)
      /\ Len(d.todo) \in Nat /\ Len(d.todo) > 0
  <2>1. /\ here = d.todo[1] /\ here \in Steps /\ Rest(d.todo) \in Seq(Steps) BY <1>1, <1>3, RestIs
  <2> QED BY <1>1, <1>3, <2>1, EmptySeq DEF Steps
<1>5. ask' = [ask EXCEPT ![a] = IF Fails(here) THEN Off ELSE IF n > MaxScan THEN Reached(d) ELSE next]
  BY DEF MediaVisit
<1>6. AskIs(Reached(d))
  <2>1. Reached(d) = [d EXCEPT !.todo = <<>>, !.partial = TRUE] BY DEF Reached
  <2>2. Reached(d) \in Asks
    <3>1. <<>> \in Seq(Steps) BY EmptySeq
    <3> QED BY <1>2, <2>1, <3>1 DEF Asks
  <2>3. /\ Reached(d).pc = "walk" /\ Reached(d).partial /\ Reached(d).scanned = d.scanned
        /\ Reached(d).since = d.since /\ Reached(d).misses = d.misses /\ Reached(d).cand = d.cand
        /\ Reached(d).got = d.got
    BY <1>1, <1>2, <2>1 DEF Asks
  <2> QED BY <1>2, <2>2, <2>3 DEF AskIs
<1>7. ASSUME ~(n > MaxScan) PROVE AskIs(next)
  <2>1. n \in Nat /\ n <= MaxScan BY <1>3, <1>7, MediaAssumption
  <2>2. /\ more \in Partial(Files)
        /\ DOMAIN more = DOMAIN d.cand \cup (IF IsFile(p) THEN {p} ELSE {})
        /\ \A q \in DOMAIN d.cand : more[q] = d.cand[q]
    <3>1. CASE IsFile(p) /\ p \notin DOMAIN d.cand
      <4>1. p \in Paths BY <1>4, <3>1 DEF Nodes, IsFile, At
      <4>2. tree[p] \in Files BY <3>1, <4>1, FileIs
      <4>3. more = Also(d.cand, p, tree[p]) BY <3>1
      <4> HIDE DEF more, p, d
      <4>4. \A q \in DOMAIN d.cand : q # p BY <3>1
      <4>5. /\ more \in Partial(Files) /\ DOMAIN more = DOMAIN d.cand \cup {p}
            /\ \A q \in DOMAIN d.cand : q # p => more[q] = d.cand[q]
        <5>1. DOMAIN more = DOMAIN d.cand \cup {p} /\ \A q \in DOMAIN d.cand : q # p => more[q] = d.cand[q]
          BY <4>3 DEF Also
        <5>2. more \in Partial(Files) BY <1>3, <4>1, <4>2, <4>3, PartialAlso
        <5> QED BY <5>1, <5>2
      <4> QED BY <3>1, <4>4, <4>5
    <3>2. CASE ~(IsFile(p) /\ p \notin DOMAIN d.cand)
      <4>1. more = d.cand BY <3>2
      <4> HIDE DEF more, p, d
      <4> QED BY <1>3, <3>2, <4>1
    <3> QED BY <3>1, <3>2
  <2> HIDE DEF more, n, p, here
  <2>3. next \in Asks BY <1>2, <1>4, <2>1, <2>2 DEF Asks
  <2>4. /\ next.pc = "walk" /\ next.partial = d.partial /\ next.scanned = n /\ next.sel = d.sel
        /\ next.since = d.since /\ next.misses = d.misses /\ next.cand = more
        /\ next.got = d.got /\ next.todo = Rest(d.todo)
    BY <1>1, <1>2 DEF Asks
  <2>5. ASSUME HasAll(d) PROVE HasAll(next)
    <3> SUFFICES ASSUME NEW q \in Paths, IsFile(q), Leads(d.sel, q)
                 PROVE  q \in DOMAIN more \/ \E i \in 1..Len(Rest(d.todo)) : Under(Rest(d.todo)[i].path, q)
      BY <2>4 DEF HasAll
    <3>1. q \in DOMAIN d.cand \/ \E i \in 1..Len(d.todo) : Under(d.todo[i].path, q)
      BY <1>1, <2>5 DEF HasAll
    <3>2. CASE q \in DOMAIN d.cand \/ q = p BY <2>2, <3>2
    <3>3. CASE q # p /\ \E i \in 1..Len(d.todo) : Under(d.todo[i].path, q)
      <4>1. tree[q] # None BY AtIs DEF IsFile
      <4>2. d.todo[1].path # q BY <1>4, <3>3 DEF p
      <4> QED BY <1>1, <1>3, <3>3, <4>1, <4>2, RestCovers
    <3> QED BY <3>1, <3>2, <3>3
  <2> HIDE DEF next
  <2> QED BY <1>1, <1>2, <2>1, <2>2, <2>3, <2>4, <2>5 DEF AskIs
<1> HIDE DEF next, n, here
<1>8. \E x : ask' = [ask EXCEPT ![a] = x] /\ (x = Off \/ AskIs(x)) BY <1>5, <1>6, <1>7
<1> QED BY <1>1, <1>8, AskMoves DEF MediaInv

\* What an analysis finds when its walk has ended: the rows that are valid, and
\* the files without one.
LEMMA MediaLookInv == ASSUME TreeTyped, MediaInv, NEW a \in Askers, MediaLook(a), UNCHANGED treeVars PROVE MediaInv'
<1> DEFINE d == ask[a]
           hits == {p \in DOMAIN d.cand : Valid(p, d.cand[p])}
           misses == DOMAIN d.cand \ hits
           many == Cardinality(misses) > SyncMax
           got == [p \in hits |-> media[p]]
           files == [p \in misses |-> d.cand[p]]
           look == [d EXCEPT !.pc = "probe", !.misses = misses, !.got = got]
           wait == [Opened(d.sel, d.kind, d.born, d.rounds + 1) EXCEPT !.pc = "job"]
           starts(r) == many /\ d.kind = "stats" /\ r
<1>0. PICK room \in BOOLEAN :
        /\ ask' = [ask EXCEPT ![a] = IF ~many THEN look ELSE IF starts(room) THEN wait ELSE Off]
        /\ job' = IF starts(room) THEN [job EXCEPT ![a] = Reading(files)] ELSE job
  BY DEF MediaLook
<1> DEFINE waits == starts(room)
<1>1. /\ d.pc = "walk" /\ d.todo = <<>> /\ UNCHANGED <<media, mishaps, spoilt, tree, changed>>
      /\ ask' = [ask EXCEPT ![a] = IF ~many THEN look ELSE IF waits THEN wait ELSE Off]
      /\ job' = IF waits THEN [job EXCEPT ![a] = Reading(files)] ELSE job
  BY <1>0 DEF MediaLook, treeVars
<1>2. AskIs(d) /\ d \in Asks BY <1>1 DEF MediaInv, AskIs, Off
<1>3. /\ d.cand \in Partial(Files) /\ d.sel \in Selections /\ d.kind \in {"stats", "csv"}
      /\ d.born \in Nat /\ d.rounds \in Nat
  BY <1>2 DEF Asks
<1>4. DOMAIN d.cand \subseteq Paths /\ \A p \in DOMAIN d.cand : d.cand[p] \in Files BY <1>3, PartialIs
<1>5. \A p \in hits : p \in Paths /\ media[p] \in GoodRows /\ Same(media[p], d.cand[p])
  BY <1>4 DEF Valid, MediaInv
<1>6. got \in Partial(GoodRows) /\ DOMAIN got = hits
  <2>1. got \in [hits -> GoodRows] /\ hits \in SUBSET Paths BY <1>4, <1>5
  <2> QED BY <2>1, PartialIs
<1>7. files \in Partial(Files)
  <2>1. files \in [misses -> Files] /\ misses \in SUBSET Paths BY <1>4
  <2> QED BY <2>1, PartialIs
<1>8. AskIs(look)
  <2>1. misses \subseteq DOMAIN d.cand /\ misses \subseteq Paths BY <1>4
  <2>2. \A p \in DOMAIN got : p \in DOMAIN d.cand /\ Same(got[p], d.cand[p]) BY <1>5
  <2>3. DOMAIN d.cand \subseteq DOMAIN got \cup misses OBVIOUS
  <2> HIDE DEF got, misses, hits
  <2>4. look \in Asks BY <1>2, <1>6, <2>1 DEF Asks
  <2>5. /\ look.pc = "probe" /\ look.partial = d.partial /\ look.scanned = d.scanned /\ look.sel = d.sel
        /\ look.since = d.since /\ look.misses = misses /\ look.cand = d.cand /\ look.got = got
    BY <1>2 DEF Asks
  <2> HIDE DEF look
  <2>6. \A i \in 1..Len(d.todo) : FALSE BY <1>1, EmptySeq
  <2>7. HasAll(d) => HasAll(look) BY <1>1, <2>5, <2>6 DEF HasAll
  <2> QED BY <1>2, <2>1, <2>2, <2>3, <2>4, <2>5, <2>7 DEF AskIs
<1>9. AskIs(wait)
  <2>1. changed \in Nat /\ d.rounds + 1 \in Nat BY <1>3 DEF MediaInv
  <2> HIDE DEF d
  <2> QED BY <1>3, <2>1, OpenedIs
<1>10. job' \in [Askers -> {Off} \cup Jobs]
  <2>1. Reading(files) \in Jobs BY <1>7, PartialEmpty DEF Reading, Jobs
  <2> QED BY <1>1, <2>1 DEF MediaInv
<1> HIDE DEF look, wait, many, waits
<1>11. \E x : ask' = [ask EXCEPT ![a] = x] /\ (x = Off \/ AskIs(x)) BY <1>1, <1>8, <1>9
<1> QED BY <1>1, <1>10, <1>11, AskMoves DEF MediaInv

LEMMA MediaProbeInv == ASSUME TreeTyped, MediaInv, NEW a \in Askers, MediaProbe(a), UNCHANGED treeVars PROVE MediaInv'
<1> DEFINE d == ask[a]
           p == First(d.misses)
           row == Probed(p, d.cand[p])
           next == [d EXCEPT !.misses = d.misses \ {p}, !.got = Also(d.got, p, row), !.rows = Also(d.rows, p, row)]
<1>1. d.pc = "probe" /\ d.misses # {} /\ UNCHANGED <<job, media, mishaps, spoilt, tree, changed>>
  BY DEF MediaProbe, treeVars
<1>2. AskIs(d) /\ d \in Asks BY <1>1 DEF MediaInv, AskIs, Off
<1>3. ask' = [ask EXCEPT ![a] = next]
  <2>1. ask' = [ask EXCEPT ![a].misses = @ \ {p}, ![a].got = Also(@, p, row), ![a].rows = Also(@, p, row)]
    BY DEF MediaProbe
  <2> HIDE DEF p, row
  <2> QED BY <1>2, <2>1 DEF MediaInv
<1>4. /\ d.cand \in Partial(Files) /\ d.got \in Partial(GoodRows) /\ d.rows \in Partial(GoodRows)
      /\ d.misses \in SUBSET Paths
  BY <1>2 DEF Asks
<1>5. p \in d.misses /\ p \in Paths /\ p \in DOMAIN d.cand BY <1>1, <1>2, <1>4, FirstIs DEF AskIs
<1>6. d.cand[p] \in Files BY <1>4, <1>5, PartialIs
<1>7. row \in GoodRows /\ Same(row, d.cand[p]) BY <1>5, <1>6, ProbedIs
<1> DEFINE got == Also(d.got, p, row)
           rows == Also(d.rows, p, row)
<1>8. got \in Partial(GoodRows) /\ rows \in Partial(GoodRows)
  <2> HIDE DEF p, row
  <2> QED BY <1>4, <1>5, <1>7, PartialAlso
<1>9. DOMAIN got = DOMAIN d.got \cup {p} /\ got[p] = row /\ \A q \in DOMAIN d.got : q # p => got[q] = d.got[q]
  <2> HIDE DEF p, row, d
  <2> QED BY DEF Also
<1>10. \A q \in DOMAIN got : q \in DOMAIN d.cand /\ Same(got[q], d.cand[q])
  <2> TAKE q \in DOMAIN got
  <2>1. CASE q = p BY <1>5, <1>7, <1>9, <2>1
  <2>2. CASE q # p
    <3>1. q \in DOMAIN d.got /\ got[q] = d.got[q] BY <1>9, <2>2
    <3> QED BY <1>2, <3>1 DEF AskIs
  <2> QED BY <2>1, <2>2
<1> HIDE DEF got, rows, row, p
<1>11. next \in Asks BY <1>2, <1>4, <1>8 DEF Asks, got, rows
<1>12. /\ next.pc = "probe" /\ next.partial = d.partial /\ next.scanned = d.scanned /\ next.sel = d.sel
       /\ next.since = d.since /\ next.misses = d.misses \ {p} /\ next.cand = d.cand /\ next.got = got
       /\ next.cut = d.cut
  BY <1>1, <1>2 DEF Asks, got
<1> HIDE DEF next
<1>13. HasAll(d) => HasAll(next) BY <1>1, <1>12 DEF HasAll
<1>14. ~d.cut => DOMAIN d.cand \subseteq DOMAIN got \cup (d.misses \ {p}) BY <1>1, <1>2, <1>9 DEF AskIs
<1>15. d.misses \ {p} \subseteq DOMAIN d.cand BY <1>2 DEF AskIs
<1>16. AskIs(next) BY <1>2, <1>10, <1>11, <1>12, <1>13, <1>14, <1>15 DEF AskIs
<1> QED BY <1>1, <1>3, <1>16, AskMoves DEF MediaInv

\* An answer goes on, without a file of those it did not read.
LEMMA AskGoes ==
  ASSUME MediaInv, NEW a \in Askers, ask[a].pc = "probe", NEW d,
         \/ d = [ask[a] EXCEPT !.misses = {}, !.cut = TRUE]
         \/ ask[a].misses = {} /\ d = [ask[a] EXCEPT !.pc = "answer"]
  PROVE  AskIs(d)
<1> DEFINE old == ask[a]
<1>1. AskIs(old) /\ old \in Asks /\ old.pc = "probe" BY DEF MediaInv, AskIs, Off
<1>2. \/ d = [old EXCEPT !.misses = {}, !.cut = TRUE]
      \/ old.misses = {} /\ d = [old EXCEPT !.pc = "answer"]
  OBVIOUS
<1> HIDE DEF old
<1>3. /\ d \in Asks /\ d.pc \in {"probe", "answer"} /\ d.scanned = old.scanned /\ d.partial = old.partial
      /\ d.since = old.since /\ d.sel = old.sel /\ d.cand = old.cand /\ d.got = old.got /\ d.misses = {}
      /\ d.cut \/ (d.cut = old.cut /\ old.misses = {})
  <2>1. CASE d = [old EXCEPT !.misses = {}, !.cut = TRUE] BY <1>1, <2>1 DEF Asks
  <2>2. CASE old.misses = {} /\ d = [old EXCEPT !.pc = "answer"] BY <1>1, <2>2 DEF Asks
  <2> QED BY <1>2, <2>1, <2>2
<1>4. HasAll(old) => HasAll(d) BY <1>1, <1>3 DEF HasAll
<1> QED BY <1>1, <1>3, <1>4 DEF AskIs

LEMMA PutIs ==
  ASSUME MediaInv, NEW rows \in Partial(GoodRows), Put(rows)
  PROVE  media' \in [Paths -> {None} \cup GoodRows] /\ spoilt' \in Nat
<1>1. \A p \in DOMAIN rows : rows[p] \in GoodRows BY PartialIs
<1>2. media' \in [Paths -> {None} \cup GoodRows] BY <1>1 DEF Put, Stored, MediaInv
<1> QED BY <1>2 DEF Put, MediaInv

LEMMA FlushIs ==
  ASSUME MediaInv, NEW rows \in Partial(GoodRows), Flush(rows)
  PROVE  media' \in [Paths -> {None} \cup GoodRows] /\ spoilt' \in Nat /\ mishaps' \in Nat
  BY PutIs DEF Flush, MediaInv

LEMMA MediaAskInv ==
  ASSUME MediaInv, NEW a \in Askers, UNCHANGED treeVars,
         \/ MediaTimeout(a) \/ MediaPut(a) \/ MediaAnswer(a) \/ MediaLeave(a)
  PROVE  MediaInv'
<1>1. CASE MediaTimeout(a)
  <2> DEFINE d == [ask[a] EXCEPT !.misses = {}, !.cut = TRUE]
  <2>1. ask' = [ask EXCEPT ![a] = d] BY <1>1 DEF MediaTimeout, MediaInv
  <2>2. AskIs(d) BY <1>1, AskGoes DEF MediaTimeout
  <2> HIDE DEF d
  <2> QED BY <1>1, <2>1, <2>2, AskMoves DEF MediaTimeout, MediaInv, treeVars
<1>2. CASE MediaPut(a)
  <2> DEFINE d == [ask[a] EXCEPT !.pc = "answer"]
  <2>1. ask' = [ask EXCEPT ![a] = d] /\ UNCHANGED <<tree, changed, job>>
    BY <1>2 DEF MediaPut, MediaInv, treeVars
  <2>2. AskIs(d) BY <1>2, AskGoes DEF MediaPut
  <2>3. ask[a].rows \in Partial(GoodRows)
    <3>1. ask[a] \in Asks BY <1>2 DEF MediaPut, MediaInv, Off
    <3> QED BY <3>1 DEF Asks
  <2>4. media' \in [Paths -> {None} \cup GoodRows] /\ spoilt' \in Nat /\ mishaps' \in Nat
    BY <1>2, <2>3, FlushIs DEF MediaPut
  <2> HIDE DEF d
  <2>5. job' \in [Askers -> {Off} \cup Jobs] BY <2>1 DEF MediaInv
  <2> QED BY <2>1, <2>2, <2>4, <2>5, AskMoves
<1>3. CASE MediaAnswer(a) \/ MediaLeave(a)
  BY <1>3, AskMoves DEF MediaAnswer, MediaLeave, MediaInv, treeVars
<1> QED BY <1>1, <1>2, <1>3

\* The page asks again: its walk begins.
LEMMA MediaAgainInv == ASSUME TreeTyped, MediaInv, NEW a \in Askers, MediaAgain(a), UNCHANGED treeVars PROVE MediaInv'
<1> DEFINE d == ask[a]
           next == [d EXCEPT !.pc = "walk", !.since = changed]
<1>1. /\ d.pc = "job" /\ UNCHANGED <<job, media, mishaps, spoilt, tree, changed>>
      /\ ask' = [ask EXCEPT ![a] = next]
  BY DEF MediaAgain, treeVars, MediaInv
<1>2. AskIs(d) /\ d \in Asks /\ changed \in Nat BY <1>1 DEF MediaInv, AskIs, Off
<1>3. /\ next \in Asks /\ next.pc = "walk" /\ next.scanned = d.scanned
      /\ next.since = changed /\ next.sel = d.sel /\ next.cand = d.cand /\ next.got = d.got
      /\ next.misses = d.misses /\ next.todo = d.todo
  BY <1>2 DEF Asks
<1> HIDE DEF next
<1>4. HasAll(next) BY <1>1, <1>2, <1>3 DEF HasAll, AskIs
<1>5. AskIs(next) BY <1>2, <1>3, <1>4 DEF AskIs
<1> QED BY <1>1, <1>5, AskMoves DEF MediaInv

\* A step of a job.
LEMMA JobMoves ==
  ASSUME MediaInv, UNCHANGED <<tree, changed, ask>>, NEW a \in Askers, NEW j, j = Off \/ j \in Jobs,
         job' = [job EXCEPT ![a] = j],
         media' \in [Paths -> {None} \cup GoodRows], mishaps' \in Nat, spoilt' \in Nat
  PROVE  MediaInv'
<1>1. job' \in [Askers -> {Off} \cup Jobs] BY DEF MediaInv
<1>2. \A b \in Askers : ask'[b] # Off => AskIs(ask[b])' BY AsksKept DEF MediaInv
<1> QED BY <1>1, <1>2 DEF MediaInv

LEMMA JobProbeInv == ASSUME TreeTyped, MediaInv, NEW a \in Askers, JobProbe(a), UNCHANGED treeVars PROVE MediaInv'
<1> DEFINE d == job[a]
           p == First(DOMAIN d.misses)
           rows == Also(d.rows, p, Probed(p, d.misses[p]))
           misses == [q \in DOMAIN d.misses \ {p} |-> d.misses[q]]
           next == [d EXCEPT !.rows = rows, !.misses = misses]
<1>1. /\ d # Off /\ DOMAIN d.misses # {} /\ UNCHANGED <<ask, media, mishaps, spoilt, tree, changed>>
      /\ job' = [job EXCEPT ![a].rows = Also(@, p, Probed(p, d.misses[p])),
                            ![a].misses = [q \in DOMAIN @ \ {p} |-> @[q]]]
  BY DEF JobProbe, treeVars
<1>2. d \in Jobs BY <1>1 DEF MediaInv
<1>3. job' = [job EXCEPT ![a] = next]
  <2> HIDE DEF p
  <2> QED BY <1>1, <1>2 DEF MediaInv
<1>4. d.misses \in Partial(Files) /\ d.rows \in Partial(GoodRows) BY <1>2 DEF Jobs
<1>5. DOMAIN d.misses \in SUBSET Paths /\ \A q \in DOMAIN d.misses : d.misses[q] \in Files BY <1>4, PartialIs
<1>6. p \in DOMAIN d.misses BY <1>1, <1>5, FirstIs
<1>7. p \in Paths /\ d.misses[p] \in Files BY <1>5, <1>6
<1>8. Probed(p, d.misses[p]) \in GoodRows BY <1>7, ProbedIs
<1>9. rows \in Partial(GoodRows)
  <2> DEFINE row == Probed(p, d.misses[p])
  <2>1. row \in GoodRows BY <1>8
  <2> HIDE DEF row, p
  <2> QED BY <1>4, <1>7, <2>1, PartialAlso DEF row
<1>10. misses \in Partial(Files)
  <2>1. misses \in [DOMAIN d.misses \ {p} -> Files] /\ DOMAIN d.misses \ {p} \in SUBSET Paths BY <1>5
  <2> QED BY <2>1, PartialIs
<1> HIDE DEF rows, misses
<1>11. next \in Jobs BY <1>2, <1>9, <1>10 DEF Jobs
<1> HIDE DEF next
<1> QED BY <1>1, <1>3, <1>11, JobMoves DEF MediaInv

LEMMA JobFlushInv == ASSUME MediaInv, NEW a \in Askers, JobFlush(a), UNCHANGED treeVars PROVE MediaInv'
<1> DEFINE next == [job[a] EXCEPT !.rows = <<>>]
<1>1. job[a] \in Jobs BY DEF JobFlush, MediaInv
<1>2. job[a].rows \in Partial(GoodRows) BY <1>1 DEF Jobs
<1>3. media' \in [Paths -> {None} \cup GoodRows] /\ spoilt' \in Nat /\ mishaps' \in Nat
  BY <1>2, FlushIs DEF JobFlush
<1>4. next \in Jobs BY <1>1, PartialEmpty DEF Jobs
<1>5. job' = [job EXCEPT ![a] = next] BY DEF JobFlush, MediaInv
<1> HIDE DEF next
<1> QED BY <1>3, <1>4, <1>5, JobMoves DEF JobFlush, treeVars

LEMMA JobEndInv ==
  ASSUME MediaInv, NEW a \in Askers, JobEnd(a) \/ JobCancel(a), UNCHANGED treeVars
  PROVE  MediaInv'
<1>1. job[a] \in Jobs BY DEF JobEnd, JobCancel, MediaInv
<1>2. job[a].rows \in Partial(GoodRows) BY <1>1 DEF Jobs
<1>3. media' \in [Paths -> {None} \cup GoodRows] /\ spoilt' \in Nat /\ mishaps' \in Nat
  <2>1. CASE JobEnd(a) BY <1>2, <2>1, FlushIs DEF JobEnd
  <2>2. CASE JobCancel(a) BY <1>2, <2>2, PutIs DEF JobCancel, MediaInv
  <2> QED BY <2>1, <2>2
<1> QED BY <1>3, JobMoves DEF JobEnd, JobCancel, treeVars

LEMMA ForgetInv == ASSUME MediaInv, Forget, UNCHANGED treeVars PROVE MediaInv'
<1>1. media' \in [Paths -> {None} \cup GoodRows] /\ mishaps' \in Nat BY DEF Forget, MediaInv
<1>2. UNCHANGED <<tree, changed, ask, job, spoilt>> BY DEF Forget, treeVars
<1>3. \A b \in Askers : ask'[b] # Off => AskIs(ask[b])' BY <1>2, AsksKept DEF MediaInv
<1> QED BY <1>1, <1>2, <1>3 DEF MediaInv

\* The folder changes: no walk was of what it is now.
LEMMA ChangeMediaInv == ASSUME TreeTyped, MediaInv, Change, UNCHANGED mediaVars PROVE MediaInv'
<1>1. changed' = changed + 1
  <2> USE DEF ChangeTo
  <2> QED BY DEF Change, Write, Mkdir, Delete, Rename
<1>2. UNCHANGED <<ask, job, media, mishaps, spoilt>> BY DEF mediaVars
<1>3. ASSUME NEW d, AskIs(d) PROVE AskIs(d)'
  <2>1. d.since \in Nat /\ d.since <= changed /\ changed \in Nat BY <1>3 DEF AskIs, Asks, MediaInv
  <2>2. d.since <= changed' /\ d.since # changed' BY <1>1, <2>1
  <2> QED BY <1>3, <2>2 DEF AskIs
<1>4. \A b \in Askers : ask'[b] # Off => AskIs(ask[b])' BY <1>2, <1>3 DEF MediaInv
<1> QED BY <1>1, <1>2, <1>4 DEF MediaInv

LEMMA StepMediaInv == ASSUME TreeTyped, MediaInv, [Next]_vars PROVE MediaInv'
<1>1. ASSUME UNCHANGED <<treeVars, mediaVars>> PROVE MediaInv'
  <2>1. UNCHANGED <<tree, changed, ask, job, media, mishaps, spoilt>> BY <1>1 DEF treeVars, mediaVars
  <2>2. \A b \in Askers : ask'[b] # Off => AskIs(ask[b])' BY <2>1, AsksKept DEF MediaInv
  <2> QED BY <2>1, <2>2 DEF MediaInv
<1>2. ASSUME ZipNext, UNCHANGED mediaVars PROVE MediaInv'
  <2>1. UNCHANGED <<tree, changed, ask, job, media, mishaps, spoilt>>
    BY <1>2 DEF ZipNext, PlanStart, PlanVisit, PlanEnd, PlanTimeout, PartStart, PartFails, PartVisit,
                PartCopy, PartEnd, mediaVars
  <2>2. \A b \in Askers : ask'[b] # Off => AskIs(ask[b])' BY <2>1, AsksKept DEF MediaInv
  <2> QED BY <2>1, <2>2 DEF MediaInv
<1>3. CASE MediaNext /\ UNCHANGED treeVars
  BY <1>3, MediaOpenInv, MediaVisitInv, MediaLookInv, MediaProbeInv, MediaAskInv, MediaAgainInv,
     JobProbeInv, JobFlushInv, JobEndInv, ForgetInv DEF MediaNext, MediaStep, JobStep
<1>4. CASE MediaCrash /\ UNCHANGED treeVars BY <1>4 DEF MediaCrash, MediaInv, treeVars
<1> QED BY <1>1, <1>2, <1>3, <1>4, ChangeMediaInv DEF Next, vars

\* What an analysis says of a file is what the file it listed holds, or another
\* had taken its place when the header was read; and of a folder that stays, an
\* analysis that neither the limit of entries nor the time cut short leaves
\* nothing out. Of the two, the answer tells only the limit (handlers_media.go).
THEOREM AnalysesAreTrue == Spec => []AnalysisTrue
<1>1. Init => TreeTyped /\ MediaInv
  BY TreeInitTyped DEF Init, MediaInit, MediaInv, TreeInit
<1>2. TreeTyped /\ MediaInv /\ [Next]_vars => (TreeTyped /\ MediaInv)' BY StepTreeTyped, StepMediaInv
<1>3. TreeTyped /\ MediaInv => AnalysisTrue
  <2> SUFFICES ASSUME TreeTyped, MediaInv PROVE AnalysisTrue OBVIOUS
  <2>1. MediaTypeOK
    <3>1. \A p \in Paths : media[p] # None => media[p].size \in Sizes BY DEF MediaInv, GoodRows, Rows
    <3> QED BY <3>1 DEF MediaTypeOK, MediaInv, AskIs
  <2>2. ASSUME NEW a \in Askers, ask[a].pc = "answer"
        PROVE  LET d == ask[a] IN
               /\ \A p \in DOMAIN d.got : d.got[p].what = Header(d.cand[p]) \/ d.got[p].mixed
               /\ ~d.partial /\ ~d.cut /\ d.since = changed =>
                    \A p \in Paths : IsFile(p) /\ (\E i \in DOMAIN d.sel : d.sel[i] = p \/ Below(d.sel[i], p))
                      => p \in DOMAIN d.got
    <3> DEFINE d == ask[a]
    <3>1. AskIs(d) /\ d \in Asks /\ d.pc = "answer" BY <2>2 DEF MediaInv, AskIs, Off
    <3> HIDE DEF d
    <3>2. ASSUME NEW p \in DOMAIN d.got PROVE d.got[p].what = Header(d.cand[p]) \/ d.got[p].mixed
      <4>1. d.got \in Partial(GoodRows) BY <3>1 DEF Asks
      <4>2. d.got[p] \in GoodRows BY <4>1, PartialIs
      <4>3. Same(d.got[p], d.cand[p]) BY <3>1 DEF AskIs
      <4>4. Header(d.got[p]) = Header(d.cand[p]) BY <4>3, SameHeader
      <4> QED BY <4>2, <4>4 DEF GoodRows
    <3>3. ASSUME ~d.partial, ~d.cut, d.since = changed, NEW p \in Paths, IsFile(p), Leads(d.sel, p)
          PROVE  p \in DOMAIN d.got
      BY <3>1, <3>3 DEF AskIs, HasAll
    <3> QED BY <3>2, <3>3 DEF Leads, d
  <2> QED BY <2>1, <2>2 DEF AnalysisTrue
<1> QED BY <1>1, <1>2, <1>3, PTL DEF Spec

-----------------------------------------------------------------------------
(* Analyses: one job is enough.  A walk is what the folder makes of it:    *)
(* while nothing happens, the walk that the page repeats after the job     *)
(* meets what the first one met.                                           *)

\* Where a walk is, where it starts, and where it goes from there.
Place(d) == [todo |-> d.todo, scanned |-> d.scanned, cand |-> d.cand]
StartOf(s) == [todo |-> [i \in DOMAIN s |-> [top |-> s[i], path |-> s[i]]], scanned |-> 0, cand |-> <<>>]
OneFurther(c) ==
  LET here == Head(c.todo)
      n == c.scanned + IF Counted(here) THEN 1 ELSE 0
  IN IF n > MaxScan THEN [todo |-> <<>>, scanned |-> c.scanned, cand |-> c.cand]
     ELSE [todo |-> Rest(c.todo), scanned |-> n,
           cand |-> IF IsFile(here.path) /\ here.path \notin DOMAIN c.cand
                    THEN Also(c.cand, here.path, tree[here.path]) ELSE c.cand]

\* T holds the places of a walk of s, from its start to e, and no others.
Passes(T, s, e) ==
  /\ StartOf(s) \in T /\ e \in T
  /\ \A c \in T : c = e \/ (c.todo # <<>> /\ OneFurther(c) \in T)

Fresh(cand) == \A p \in DOMAIN cand : p \in Paths /\ IsFile(p) /\ cand[p] = tree[p]
\* A job has read a file, or is to read it.
Reads(j, p) ==
  /\ j # Off
  /\ \/ p \in DOMAIN j.misses /\ j.misses[p] = tree[p]
     \/ p \notin DOMAIN j.misses /\ p \in DOMAIN j.rows /\ Same(j.rows[p], tree[p])
\* The table has what the first walk met, or will have it with the job.
Known(cand, j, waits) == \A p \in DOMAIN cand : Valid(p, tree[p]) \/ (waits /\ Reads(j, p))

\* As long as nothing happens, a page waits for one job.
Replays(d, j) ==
  /\ d.rounds <= 1
  /\ d.pc = "job" => d.rounds = 1
  /\ d.pc = "walk" /\ d.rounds = 0 => Fresh(d.cand) /\ \E T : Passes(T, d.sel, Place(d))
  /\ d.pc \in {"walk", "job"} /\ d.rounds = 1 =>
       \E T, e : /\ Passes(T, d.sel, e) /\ e.todo = <<>> /\ Place(d) \in T
                 /\ Fresh(e.cand) /\ Known(e.cand, j, d.pc = "job")
OneJob ==
  \A a \in Askers : ask[a] # Off =>
    ask[a].born <= Happened /\ (ask[a].born = Happened => Replays(ask[a], job[a]))

LEMMA HappenedIs == ASSUME MediaInv PROVE Happened \in Nat
  BY DEF MediaInv, Happened

LEMMA HappenedThen == ASSUME MediaInv' PROVE Happened' \in Nat
<1>1. changed' \in Nat /\ mishaps' \in Nat /\ spoilt' \in Nat BY DEF MediaInv
<1>2. \A i, j, k \in Nat : i + j + k \in Nat OBVIOUS
<1>3. changed' + mishaps' + spoilt' \in Nat BY ONLY <1>1, <1>2
<1> QED BY <1>3 DEF Happened

\* What an analysis knows holds as long as no row that is valid is lost.
Holds == \A p \in Paths : IsFile(p) /\ Valid(p, tree[p]) => Valid(p, tree[p])'

LEMMA ReplaysKept ==
  ASSUME UNCHANGED tree, Holds
  PROVE  \A d, j : Replays(d, j) => Replays(d, j)'
<1>1. \A c : OneFurther(c)' = OneFurther(c)
  BY DEF OneFurther, Counted, Rest, Listed, IsFile, At
<1>2. \A T, s, e : Passes(T, s, e)' <=> Passes(T, s, e) BY <1>1 DEF Passes
<1>3. \A c : Fresh(c)' <=> Fresh(c) BY DEF Fresh, IsFile, At
<1>4. \A j, p : Reads(j, p)' <=> Reads(j, p) BY DEF Reads
<1>5. ASSUME NEW c, NEW j, NEW w, Fresh(c), Known(c, j, w) PROVE Known(c, j, w)'
  BY <1>4, <1>5 DEF Known, Fresh, Holds
<1>6. ASSUME NEW d, NEW j, Replays(d, j), d.pc \in {"walk", "job"}, d.rounds = 1
      PROVE  \E T, e : /\ Passes(T, d.sel, e)' /\ e.todo = <<>> /\ Place(d) \in T
                       /\ Fresh(e.cand)' /\ Known(e.cand, j, d.pc = "job")'
  <2>1. PICK T, e : /\ Passes(T, d.sel, e) /\ e.todo = <<>> /\ Place(d) \in T
                    /\ Fresh(e.cand) /\ Known(e.cand, j, d.pc = "job")
    BY <1>6 DEF Replays
  <2> QED BY <1>2, <1>3, <1>5, <2>1
<1> TAKE d, j
<1> HAVE Replays(d, j)
<1>7. d.pc = "walk" /\ d.rounds = 0 => Fresh(d.cand)' /\ \E T : Passes(T, d.sel, Place(d))'
  BY <1>2, <1>3 DEF Replays
<1> QED BY <1>6, <1>7 DEF Replays, Place

\* A step of one analysis, with its job or without.
LEMMA OneJobMoves ==
  ASSUME MediaInv, OneJob, UNCHANGED <<tree, changed>>, MediaInv', Happened' >= Happened,
         Happened' = Happened => Holds,
         NEW a \in Askers, \A b \in Askers : b # a => ask'[b] = ask[b] /\ job'[b] = job[b],
         ask'[a] # Off => ask'[a].born <= Happened' /\ (ask'[a].born = Happened' => Replays(ask[a], job[a])')
  PROVE  OneJob'
<1> SUFFICES ASSUME NEW b \in Askers, ask'[b] # Off
             PROVE  ask'[b].born <= Happened' /\ (ask'[b].born = Happened' => Replays(ask[b], job[b])')
  BY DEF OneJob
<1>1. CASE b = a BY <1>1
<1>2. CASE b # a
  <2>1. ask'[b] = ask[b] /\ job'[b] = job[b] BY <1>2
  <2>2. ask[b] \in Asks /\ ask[b].born \in Nat BY <2>1 DEF MediaInv, Asks
  <2>3. ask[b].born <= Happened /\ (ask[b].born = Happened => Replays(ask[b], job[b])) BY <2>1 DEF OneJob
  <2>4. Happened \in Nat /\ Happened' \in Nat BY HappenedIs, HappenedThen
  <2> DEFINE born == ask[b].born
  <2>5. born <= Happened' BY <2>2, <2>3, <2>4
  <2>6. ASSUME born = Happened' PROVE Replays(ask[b], job[b])'
    <3>1. Happened' = Happened /\ born = Happened BY <2>2, <2>3, <2>4, <2>6
    <3>2. \A d, j : Replays(d, j) => Replays(d, j)' BY <3>1, ReplaysKept
    <3> QED BY <2>1, <2>3, <3>1, <3>2
  <2> QED BY <2>1, <2>5, <2>6
<1> QED BY <1>1, <1>2

\* What happened is never less, and what is known of a file is lost only by
\* something that happens.
LEMMA PutHolds ==
  ASSUME MediaInv, NEW rows \in Partial(GoodRows), Put(rows), UNCHANGED <<tree, changed>>,
         mishaps' = mishaps \/ mishaps' = mishaps + 1
  PROVE  Happened' >= Happened /\ (Happened' = Happened => Holds /\ mishaps' = mishaps)
<1>1. changed \in Nat /\ mishaps \in Nat /\ spoilt \in Nat /\ changed' = changed BY DEF MediaInv
<1>2. spoilt' = IF Spoils(rows) THEN spoilt + 1 ELSE spoilt BY DEF Put
<1>3. Happened' >= Happened BY <1>1, <1>2 DEF Happened
<1>4. ASSUME Happened' = Happened PROVE ~Spoils(rows) /\ mishaps' = mishaps BY <1>1, <1>2, <1>4 DEF Happened
<1>5. ASSUME ~Spoils(rows) PROVE Holds
  <2> SUFFICES ASSUME NEW p \in Paths, IsFile(p), Valid(p, tree[p]) PROVE Valid(p, tree[p])'
    BY DEF Holds
  <2>1. media'[p] = IF p \in DOMAIN rows THEN rows[p] ELSE media[p] BY DEF Put, Stored
  <2>2. CASE p \in DOMAIN rows
    <3>1. Same(rows[p], tree[p]) BY <1>5, <2>2 DEF Spoils
    <3>2. rows[p] \in Rows BY <2>2, PartialIs DEF GoodRows
    <3>3. rows[p] # None BY <3>2, MediaAssumption DEF Rows
    <3> QED BY <2>1, <2>2, <3>1, <3>3 DEF Valid, Same
  <2>3. CASE p \notin DOMAIN rows BY <2>1, <2>3 DEF Valid, Same
  <2> QED BY <2>2, <2>3
<1> QED BY <1>3, <1>4, <1>5

LEMMA NothingHolds ==
  ASSUME MediaInv, UNCHANGED <<tree, changed, media, spoilt>>, mishaps' = mishaps \/ mishaps' = mishaps + 1
  PROVE  Happened' >= Happened /\ Holds
<1>1. changed \in Nat /\ mishaps \in Nat /\ spoilt \in Nat BY DEF MediaInv
<1>2. Happened' >= Happened BY <1>1 DEF Happened
<1> QED BY <1>2 DEF Holds, Valid

LEMMA FlushHolds ==
  ASSUME MediaInv, NEW rows \in Partial(GoodRows), Flush(rows), UNCHANGED <<tree, changed>>
  PROVE  Happened' >= Happened /\ (Happened' = Happened => Holds /\ Put(rows))
<1>1. CASE Put(rows) /\ UNCHANGED mishaps BY <1>1, PutHolds
<1>2. CASE mishaps' = mishaps + 1 /\ UNCHANGED <<media, spoilt>>
  <2>1. changed \in Nat /\ mishaps \in Nat /\ spoilt \in Nat BY DEF MediaInv
  <2>2. Happened' >= Happened /\ Happened' # Happened BY <1>2, <2>1 DEF Happened
  <2> QED BY <2>2
<1> QED BY <1>1, <1>2 DEF Flush

LEMMA MediaOpenOnce ==
  ASSUME TreeTyped, MediaInv, OneJob, NEW a \in Askers, MediaOpen(a), UNCHANGED treeVars
  PROVE  OneJob'
<1>0. PICK s \in Selections, kind \in {"stats", "csv"} :
        ask' = [ask EXCEPT ![a] = Opened(s, kind, Happened, 0)]
  BY DEF MediaOpen
<1> DEFINE d == Opened(s, kind, Happened, 0)
<1>1. /\ UNCHANGED <<tree, changed, media, job, mishaps, spoilt>> /\ ask' = [ask EXCEPT ![a] = d]
      /\ MediaInv'
  BY <1>0, MediaOpenInv DEF MediaOpen, treeVars
<1>2. /\ d.pc = "walk" /\ d.rounds = 0 /\ d.cand = <<>> /\ d.born = Happened /\ Place(d) = StartOf(s)
      /\ d.sel = s
  BY DEF Opened, Place, StartOf
<1> HIDE DEF d
<1>3. Passes({StartOf(s)}, s, Place(d)) BY <1>2 DEF Passes
<1>4. Fresh(<<>>) BY DEF Fresh
<1>5. \A j : Replays(d, j) BY <1>2, <1>3, <1>4 DEF Replays
<1>6. ask'[a] = d /\ \A b \in Askers : b # a => ask'[b] = ask[b] BY <1>1 DEF MediaInv
<1>7. Happened' = Happened /\ Happened \in Nat /\ Holds BY <1>1, HappenedIs DEF Happened, Holds, Valid
<1>8. Replays(ask[a], job[a])' BY <1>1, <1>5, <1>6, <1>7, ReplaysKept
<1> QED BY <1>1, <1>2, <1>6, <1>7, <1>8, OneJobMoves

\* The first walk passes through one place more; the second one goes where the
\* first one went.
LEMMA MediaVisitOnce ==
  ASSUME TreeTyped, MediaInv, OneJob, NEW a \in Askers, MediaVisit(a), UNCHANGED treeVars
  PROVE  OneJob'
<1> DEFINE d == ask[a]
           here == Head(d.todo)
           n == d.scanned + IF Counted(here) THEN 1 ELSE 0
           p == here.path
           next == [d EXCEPT !.todo = Rest(d.todo), !.scanned = n,
                      !.cand = IF IsFile(p) /\ p \notin DOMAIN @ THEN Also(@, p, tree[p]) ELSE @]
           e == ask'[a]
<1>1. /\ UNCHANGED <<tree, changed, media, job, mishaps, spoilt>> /\ MediaInv'
      /\ d.pc = "walk" /\ d.todo # <<>>
      /\ ask' = [ask EXCEPT ![a] = IF Fails(here) THEN Off ELSE IF n > MaxScan THEN Reached(d) ELSE next]
  BY MediaVisitInv DEF MediaVisit, treeVars
<1>2. d \in Asks /\ d # Off BY <1>1 DEF MediaInv, Off
<1>3. e = IF Fails(here) THEN Off ELSE IF n > MaxScan THEN Reached(d) ELSE next BY <1>1 DEF MediaInv
<1>4. \A b \in Askers : b # a => ask'[b] = ask[b] /\ job'[b] = job[b] BY <1>1 DEF MediaInv
<1>5. Happened' = Happened /\ Happened' >= Happened /\ Happened \in Nat /\ Holds
  <2>1. Happened' = Happened /\ Happened \in Nat /\ Holds BY <1>1, HappenedIs DEF Happened, Holds, Valid
  <2> QED BY <2>1
<1>8. UNCHANGED <<tree, changed>> /\ MediaInv' BY <1>1
<1>6. CASE Fails(here)
  <2>1. ask'[a] = Off BY <1>3, <1>6
  <2> QED BY <1>4, <1>5, <1>8, <2>1, OneJobMoves
<1>7. CASE ~Fails(here)
  <2>1. /\ e.pc = "walk" /\ e.sel = d.sel /\ e.born = d.born /\ e.rounds = d.rounds
        /\ Place(e) = OneFurther(Place(d))
        /\ e.cand = d.cand \/ (IsFile(p) /\ e.cand = Also(d.cand, p, tree[p]))
    <3> DEFINE k == IF IsFile(p) /\ p \notin DOMAIN d.cand THEN Also(d.cand, p, tree[p]) ELSE d.cand
    <3>0. OneFurther(Place(d)) = IF n > MaxScan THEN [todo |-> <<>>, scanned |-> d.scanned, cand |-> d.cand]
                                 ELSE [todo |-> Rest(d.todo), scanned |-> n, cand |-> k]
      BY DEF OneFurther, Place
    <3>1. CASE n > MaxScan
      <4>1. e = [d EXCEPT !.todo = <<>>, !.partial = TRUE] BY <1>3, <1>7, <3>1 DEF Reached
      <4> HIDE DEF e, d
      <4>2. /\ e.pc = d.pc /\ e.sel = d.sel /\ e.born = d.born /\ e.rounds = d.rounds
            /\ e.todo = <<>> /\ e.scanned = d.scanned /\ e.cand = d.cand
        BY <1>2, <4>1 DEF Asks
      <4> QED BY <1>1, <3>0, <3>1, <4>2 DEF Place
    <3>2. CASE ~(n > MaxScan)
      <4>1. e = [d EXCEPT !.todo = Rest(d.todo), !.scanned = n, !.cand = k] BY <1>3, <1>7, <3>2
      <4> HIDE DEF k, n, e, d
      <4>2. /\ e.pc = d.pc /\ e.sel = d.sel /\ e.born = d.born /\ e.rounds = d.rounds
            /\ e.todo = Rest(d.todo) /\ e.scanned = n /\ e.cand = k
        BY <1>2, <4>1 DEF Asks
      <4>3. k = d.cand \/ (IsFile(p) /\ k = Also(d.cand, p, tree[p])) BY DEF k
      <4> QED BY <1>1, <3>0, <3>2, <4>2, <4>3 DEF Place
    <3> QED BY <3>1, <3>2
  <2>2. Place(d) \in [todo : {d.todo}, scanned : {d.scanned}, cand : {d.cand}] /\ Place(d).todo # <<>>
    BY <1>1 DEF Place
  <2>3. d.born <= Happened /\ (d.born = Happened => Replays(d, job[a])) BY <1>2 DEF OneJob
  <2>4. ASSUME Replays(d, job[a]) PROVE Replays(e, job[a])
    <3>1. d.rounds \in Nat BY <1>2 DEF Asks
    <3>2. CASE d.rounds = 0
      <4>1. PICK T : Passes(T, d.sel, Place(d)) BY <1>1, <2>4, <3>2 DEF Replays
      <4>2. Passes(T \cup {Place(e)}, d.sel, Place(e)) BY <2>1, <2>2, <4>1 DEF Passes
      <4>3. Fresh(d.cand) BY <1>1, <2>4, <3>2 DEF Replays
      <4>4. Fresh(e.cand)
        <5>1. CASE e.cand = d.cand BY <4>3, <5>1
        <5>2. CASE IsFile(p) /\ e.cand = Also(d.cand, p, tree[p])
          <6>1. p \in Paths
            <7>1. d.todo \in Seq(Steps) BY <1>2 DEF Asks
            <7>2. here \in Steps BY <1>1, <7>1, RestIs
            <7> QED BY <5>2, <7>2 DEF Steps, Nodes, IsFile, At
          <6> QED BY <4>3, <5>2, <6>1 DEF Fresh, Also
        <5> QED BY <2>1, <5>1, <5>2
      <4> HIDE DEF e
      <4> QED BY <2>1, <3>2, <4>2, <4>4 DEF Replays
    <3>3. CASE d.rounds # 0
      <4>1. d.rounds = 1 BY <2>4, <3>1, <3>3 DEF Replays
      <4>2. PICK T, f : /\ Passes(T, d.sel, f) /\ f.todo = <<>> /\ Place(d) \in T
                        /\ Fresh(f.cand) /\ Known(f.cand, job[a], FALSE)
        BY <1>1, <2>4, <4>1 DEF Replays
      <4>3. Place(d) # f BY <2>2, <4>2
      <4>4. Place(e) \in T BY <2>1, <4>2, <4>3 DEF Passes
      <4> HIDE DEF e
      <4> QED BY <2>1, <4>1, <4>2, <4>4 DEF Replays, Known
    <3> QED BY <3>2, <3>3
  <2>5. ASSUME ask'[a].born = Happened' PROVE Replays(ask[a], job[a])'
    <3>1. Replays(e, job[a]) BY <1>5, <2>1, <2>3, <2>4, <2>5
    <3>2. \A x, j : Replays(x, j) => Replays(x, j)' BY <1>1, <1>5, ReplaysKept
    <3> QED BY <1>1, <3>1, <3>2
  <2>6. ask'[a].born <= Happened' BY <1>5, <2>1, <2>3
  <2> QED BY <1>4, <1>5, <1>8, <2>5, <2>6, OneJobMoves
<1> QED BY <1>6, <1>7

\* The files without a valid row go to a job, or the answer is at hand: after a
\* job, it is.
LEMMA MediaLookOnce ==
  ASSUME TreeTyped, MediaInv, OneJob, NEW a \in Askers, MediaLook(a), UNCHANGED treeVars
  PROVE  OneJob'
<1> DEFINE d == ask[a]
           hits == {p \in DOMAIN d.cand : Valid(p, d.cand[p])}
           misses == DOMAIN d.cand \ hits
           many == Cardinality(misses) > SyncMax
           files == [p \in misses |-> d.cand[p]]
           got == [p \in hits |-> media[p]]
           look == [d EXCEPT !.pc = "probe", !.misses = misses, !.got = got]
           wait == [Opened(d.sel, d.kind, d.born, d.rounds + 1) EXCEPT !.pc = "job"]
           starts(r) == many /\ d.kind = "stats" /\ r
           e == ask'[a]
           j == job'[a]
<1>0. PICK room \in BOOLEAN :
        /\ ask' = [ask EXCEPT ![a] = IF ~many THEN look ELSE IF starts(room) THEN wait ELSE Off]
        /\ job' = IF starts(room) THEN [job EXCEPT ![a] = Reading(files)] ELSE job
  BY DEF MediaLook
<1> DEFINE waits == starts(room)
<1>1. /\ d.pc = "walk" /\ d.todo = <<>> /\ UNCHANGED <<media, mishaps, spoilt, tree, changed>>
      /\ ask' = [ask EXCEPT ![a] = IF ~many THEN look ELSE IF waits THEN wait ELSE Off]
      /\ job' = IF waits THEN [job EXCEPT ![a] = Reading(files)] ELSE job
  BY <1>0 DEF MediaLook, treeVars
<1>2. d \in Asks /\ d # Off BY <1>1 DEF MediaInv, Off
<1>3. UNCHANGED <<tree, changed>> /\ MediaInv' BY <1>1, MediaLookInv
<1>4. \A b \in Askers : b # a => ask'[b] = ask[b] /\ job'[b] = job[b] BY <1>1 DEF MediaInv
<1>5. Happened' = Happened /\ Happened' >= Happened /\ Happened \in Nat /\ Holds
  <2>1. Happened' = Happened /\ Happened \in Nat /\ Holds BY <1>1, HappenedIs DEF Happened, Holds, Valid
  <2> QED BY <2>1
<1>6. /\ e = IF ~many THEN look ELSE IF waits THEN wait ELSE Off
      /\ waits => j = Reading(files)
  BY <1>1 DEF MediaInv
<1>7. d.born <= Happened /\ (d.born = Happened => Replays(d, job[a])) BY <1>2 DEF OneJob
<1>8. d.rounds \in Nat /\ d.born \in Nat BY <1>2 DEF Asks
<1>9. CASE e = Off BY <1>3, <1>4, <1>5, <1>9, OneJobMoves
<1>10. CASE e # Off /\ ~many
  <2>1. e = look BY <1>6, <1>10
  <2> HIDE DEF e, got, misses, hits, d
  <2>2. e.pc = "probe" /\ e.rounds = d.rounds /\ e.born = d.born BY <1>2, <2>1 DEF Asks
  <2>3. ASSUME e.born = Happened' PROVE Replays(e, j)
    <3>1. Replays(d, job[a]) BY <1>5, <1>7, <2>2, <2>3
    <3>2. d.rounds <= 1 BY <3>1 DEF Replays
    <3> QED BY <2>2, <3>2 DEF Replays
  <2>4. \A x, y : Replays(x, y) => Replays(x, y)' BY <1>3, <1>5, ReplaysKept
  <2>5. e.born <= Happened' BY <1>5, <1>7, <2>2
  <2> QED BY <1>3, <1>4, <1>5, <2>3, <2>4, <2>5, OneJobMoves DEF e, j
<1>11. CASE e # Off /\ many
  <2>1. e = wait /\ j = Reading(files) /\ waits BY <1>6, <1>11
  <2>2. /\ e.pc = "job" /\ e.rounds = d.rounds + 1 /\ e.born = d.born /\ e.sel = d.sel
        /\ Place(e) = StartOf(d.sel)
    BY <2>1 DEF Opened, Place, StartOf
  <2>3. ASSUME e.born = Happened' PROVE Replays(e, j)
    <3>1. Replays(d, job[a]) BY <1>5, <1>7, <2>2, <2>3
    <3>2. d.rounds = 0
      <4> SUFFICES ASSUME d.rounds # 0 PROVE FALSE OBVIOUS
      <4>1. d.rounds = 1 BY <1>8, <3>1 DEF Replays
      <4>2. PICK T, f : /\ Passes(T, d.sel, f) /\ f.todo = <<>> /\ Place(d) \in T
                        /\ Fresh(f.cand) /\ Known(f.cand, job[a], FALSE)
        BY <1>1, <3>1, <4>1 DEF Replays, Known
      <4>3. Place(d).todo = <<>> /\ Place(d).cand = d.cand BY <1>1 DEF Place
      <4>4. Place(d) = f BY <4>2, <4>3 DEF Passes
      <4>5. \A p \in DOMAIN d.cand : Valid(p, d.cand[p]) BY <4>2, <4>3, <4>4 DEF Fresh, Known
      <4>6. misses = {} BY <4>5
      <4>7. Cardinality(misses) = 0 BY <4>6, FS_EmptySet
      <4> QED BY <1>11, <4>7, MediaAssumption
    <3>3. PICK T : Passes(T, d.sel, Place(d)) BY <1>1, <3>1, <3>2 DEF Replays
    <3>4. Fresh(d.cand) BY <1>1, <3>1, <3>2 DEF Replays
    <3>5. StartOf(d.sel) \in T BY <3>3 DEF Passes
    <3>6. Known(d.cand, j, TRUE)
      <4> SUFFICES ASSUME NEW p \in DOMAIN d.cand, ~Valid(p, tree[p]) PROVE Reads(j, p) BY DEF Known
      <4>1. d.cand[p] = tree[p] BY <3>4 DEF Fresh
      <4>2. p \in misses BY <4>1
      <4>3. j # Off /\ j.misses = files BY <2>1 DEF Reading, Off
      <4>4. p \in DOMAIN files /\ files[p] = tree[p] BY <4>1, <4>2
      <4> HIDE DEF files, j
      <4> QED BY <4>3, <4>4 DEF Reads
    <3>7. Place(d).todo = <<>> /\ Place(d).cand = d.cand BY <1>1 DEF Place
    <3>8. \E U, f : /\ Passes(U, d.sel, f) /\ f.todo = <<>> /\ StartOf(d.sel) \in U
                    /\ Fresh(f.cand) /\ Known(f.cand, j, TRUE)
      BY <3>3, <3>4, <3>5, <3>6, <3>7
    <3> HIDE DEF e, j, d
    <3> QED BY <1>8, <2>2, <3>2, <3>8 DEF Replays, Known
  <2>4. \A x, y : Replays(x, y) => Replays(x, y)' BY <1>3, <1>5, ReplaysKept
  <2> HIDE DEF e, j, d
  <2>5. e.born <= Happened' BY <1>5, <1>7, <2>2
  <2>6. e.born = Happened' => Replays(ask[a], job[a])' BY <2>3, <2>4 DEF e, j
  <2> QED BY <1>3, <1>4, <1>5, <2>5, <2>6, OneJobMoves DEF e
<1> QED BY <1>9, <1>10, <1>11

\* An analysis that answers, or leaves, waits for no job.
LEMMA MediaAskOnce ==
  ASSUME TreeTyped, MediaInv, OneJob, NEW a \in Askers, UNCHANGED treeVars,
         \/ MediaProbe(a) \/ MediaTimeout(a) \/ MediaPut(a)
         \/ MediaAnswer(a) \/ MediaLeave(a)
  PROVE  OneJob'
<1> DEFINE d == ask[a]
           e == ask'[a]
<1>1. UNCHANGED <<tree, changed>> /\ MediaInv' BY MediaProbeInv, MediaAskInv DEF treeVars
<1>2. \A b \in Askers : b # a => ask'[b] = ask[b] /\ job'[b] = job[b]
  BY DEF MediaProbe, MediaTimeout, MediaPut, MediaAnswer, MediaLeave, MediaInv
<1>3. Happened' >= Happened /\ (Happened' = Happened => Holds)
  <2>1. CASE MediaPut(a)
    <3>1. d \in Asks BY <2>1 DEF MediaPut, MediaInv, Off
    <3>2. d.rows \in Partial(GoodRows) BY <3>1 DEF Asks
    <3> QED BY <1>1, <2>1, <3>2, FlushHolds DEF MediaPut
  <2>2. CASE ~MediaPut(a)
    BY <1>1, <2>2, NothingHolds DEF MediaProbe, MediaTimeout, MediaAnswer, MediaLeave
  <2> QED BY <2>1, <2>2
<1>4. CASE MediaAnswer(a) \/ MediaLeave(a)
  <2>1. e = Off BY <1>4 DEF MediaAnswer, MediaLeave, MediaInv
  <2> QED BY <1>1, <1>2, <1>3, <2>1, OneJobMoves
<1>5. CASE MediaProbe(a) \/ MediaTimeout(a) \/ MediaPut(a)
  <2>1. d.pc = "probe" BY <1>5 DEF MediaProbe, MediaTimeout, MediaPut
  <2>2. d \in Asks /\ d # Off BY <2>1 DEF MediaInv, Off
  <2>3. e.pc \in {"probe", "answer"} /\ e.rounds = d.rounds /\ e.born = d.born
    <3>1. CASE MediaProbe(a)
      <4> DEFINE p == First(ask[a].misses)
                 row == Probed(p, ask[a].cand[p])
      <4>1. ask' = [ask EXCEPT ![a].misses = @ \ {p}, ![a].got = Also(@, p, row), ![a].rows = Also(@, p, row)]
        BY <3>1 DEF MediaProbe
      <4> HIDE DEF p, row
      <4> QED BY <2>1, <2>2, <4>1 DEF MediaInv, Asks
    <3>2. CASE MediaTimeout(a) BY <2>1, <2>2, <3>2 DEF MediaTimeout, MediaInv, Asks
    <3>3. CASE MediaPut(a)
      <4>1. ask' = [ask EXCEPT ![a].pc = "answer"] BY <3>3 DEF MediaPut
      <4> QED BY <2>1, <2>2, <4>1 DEF MediaInv, Asks
    <3> QED BY <1>5, <3>1, <3>2, <3>3
  <2>4. d.born <= Happened /\ (d.born = Happened => Replays(d, job[a])) /\ d.born \in Nat
    BY <2>2 DEF OneJob, Asks
  <2>5. Happened \in Nat /\ Happened' \in Nat BY <1>1, HappenedIs, HappenedThen
  <2> HIDE DEF e, d
  <2>6. e.born <= Happened' BY <1>3, <2>3, <2>4, <2>5
  <2>7. ASSUME e.born = Happened' PROVE e.rounds <= 1 /\ e.pc \in {"probe", "answer"}
    <3>1. d.born = Happened BY <1>3, <2>3, <2>4, <2>5, <2>7
    <3>2. d.rounds <= 1 BY <2>4, <3>1 DEF Replays
    <3> QED BY <2>3, <3>2
  <2>8. \A x, j : x.rounds <= 1 /\ x.pc \in {"probe", "answer"} => Replays(x, j)' BY DEF Replays
  <2>9. e.born = Happened' => Replays(ask[a], job[a])' BY <2>7, <2>8 DEF e
  <2> QED BY <1>1, <1>2, <1>3, <2>6, <2>9, OneJobMoves DEF e
<1> QED BY <1>4, <1>5

\* The page asks again: the job has left what it read in the table.
LEMMA MediaAgainOnce ==
  ASSUME TreeTyped, MediaInv, OneJob, NEW a \in Askers, MediaAgain(a), UNCHANGED treeVars
  PROVE  OneJob'
<1> DEFINE d == ask[a]
           e == ask'[a]
<1>1. /\ d.pc = "job" /\ job[a] = Off /\ UNCHANGED <<job, media, mishaps, spoilt, tree, changed>>
      /\ ask' = [ask EXCEPT ![a].pc = "walk", ![a].since = changed] /\ MediaInv'
  BY MediaAgainInv DEF MediaAgain, treeVars
<1>2. d \in Asks /\ d # Off BY <1>1 DEF MediaInv, Off
<1>3. UNCHANGED <<tree, changed>> /\ MediaInv' BY <1>1
<1>4. \A b \in Askers : b # a => ask'[b] = ask[b] /\ job'[b] = job[b] BY <1>1 DEF MediaInv
<1>5. Happened' = Happened /\ Happened' >= Happened /\ Happened \in Nat /\ Holds
  <2>1. Happened' = Happened /\ Happened \in Nat /\ Holds BY <1>1, HappenedIs DEF Happened, Holds, Valid
  <2> QED BY <2>1
<1>6. /\ e.pc = "walk" /\ e.rounds = d.rounds /\ e.born = d.born /\ e.sel = d.sel /\ Place(e) = Place(d)
  BY <1>1, <1>2 DEF MediaInv, Asks, Place
<1>7. d.born <= Happened /\ (d.born = Happened => Replays(d, job[a])) BY <1>2 DEF OneJob
<1> HIDE DEF e, d
<1>8. ASSUME e.born = Happened' PROVE Replays(e, job[a])
  <2>1. Replays(d, job[a]) BY <1>5, <1>6, <1>7, <1>8
  <2>2. d.rounds = 1 BY <1>1, <2>1 DEF Replays
  <2>3. PICK T, f : /\ Passes(T, d.sel, f) /\ f.todo = <<>> /\ Place(d) \in T
                    /\ Fresh(f.cand) /\ Known(f.cand, job[a], TRUE)
    BY <1>1, <2>1, <2>2 DEF Replays, Known
  <2>4. Known(f.cand, job[a], FALSE) BY <1>1, <2>3 DEF Known, Reads
  <2> QED BY <1>6, <2>2, <2>3, <2>4 DEF Replays, Known
<1>9. \A x, y : Replays(x, y) => Replays(x, y)' BY <1>3, <1>5, ReplaysKept
<1>10. e.born = Happened' => Replays(ask[a], job[a])' BY <1>1, <1>8, <1>9 DEF e
<1>11. e.born <= Happened' BY <1>5, <1>6, <1>7
<1> QED BY <1>3, <1>4, <1>5, <1>10, <1>11, OneJobMoves DEF e

\* What a job has read or is to read, it has read, or is to read, after a step.
LEMMA JobProbeReads ==
  ASSUME TreeTyped, MediaInv, NEW a \in Askers, JobProbe(a)
  PROVE  \A p \in Paths : Reads(job[a], p) => Reads(job'[a], p)
<1> DEFINE d == job[a]
           p == First(DOMAIN d.misses)
           row == Probed(p, d.misses[p])
           e == job'[a]
<1>1. /\ d # Off /\ DOMAIN d.misses # {}
      /\ job' = [job EXCEPT ![a].rows = Also(@, p, row), ![a].misses = [q \in DOMAIN @ \ {p} |-> @[q]]]
  BY DEF JobProbe
<1>2. d \in Jobs BY <1>1 DEF MediaInv
<1>3. d.misses \in Partial(Files) BY <1>2 DEF Jobs
<1>4. DOMAIN d.misses \in SUBSET Paths /\ \A q \in DOMAIN d.misses : d.misses[q] \in Files BY <1>3, PartialIs
<1>5. p \in DOMAIN d.misses BY <1>1, <1>4, FirstIs
<1>6. Same(row, d.misses[p]) BY <1>4, <1>5, ProbedIs
<1> HIDE DEF p, row
<1>7. /\ e.rows = Also(d.rows, p, row) /\ e.misses = [q \in DOMAIN d.misses \ {p} |-> d.misses[q]]
      /\ e.pc = "run"
  BY <1>1, <1>2 DEF MediaInv, Jobs
<1>8. e # Off BY <1>7 DEF Off
<1> HIDE DEF e, d
<1> SUFFICES ASSUME NEW q \in Paths, Reads(d, q) PROVE Reads(e, q) BY DEF d, e
<1>9. CASE q = p
  <2>1. d.misses[p] = tree[p] BY <1>5, <1>9 DEF Reads
  <2>2. q \notin DOMAIN e.misses /\ q \in DOMAIN e.rows /\ e.rows[q] = row BY <1>7, <1>9 DEF Also
  <2> QED BY <1>6, <1>8, <1>9, <2>1, <2>2 DEF Reads
<1>10. CASE q # p
  <2>1. q \in DOMAIN e.misses <=> q \in DOMAIN d.misses BY <1>7, <1>10
  <2>2. q \in DOMAIN d.misses => e.misses[q] = d.misses[q] BY <1>7, <1>10
  <2>3. q \in DOMAIN d.rows => q \in DOMAIN e.rows /\ e.rows[q] = d.rows[q] BY <1>7, <1>10 DEF Also
  <2> QED BY <1>8, <2>1, <2>2, <2>3 DEF Reads
<1> QED BY <1>9, <1>10

\* Whoever waits for a job that has read more, waits for what it waited for.
LEMMA ReadsMore ==
  ASSUME NEW d, NEW j, NEW k, \A p \in Paths : Reads(j, p) => Reads(k, p) \/ Valid(p, tree[p]), Replays(d, j)
  PROVE  Replays(d, k)
<1>1. ASSUME NEW c, NEW w, Fresh(c), Known(c, j, w) PROVE Known(c, k, w)
  BY <1>1 DEF Known, Fresh
<1>2. ASSUME d.pc \in {"walk", "job"}, d.rounds = 1
      PROVE  \E T, e : /\ Passes(T, d.sel, e) /\ e.todo = <<>> /\ Place(d) \in T
                       /\ Fresh(e.cand) /\ Known(e.cand, k, d.pc = "job")
  <2>1. PICK T, e : /\ Passes(T, d.sel, e) /\ e.todo = <<>> /\ Place(d) \in T
                    /\ Fresh(e.cand) /\ Known(e.cand, j, d.pc = "job")
    BY <1>2 DEF Replays
  <2> QED BY <1>1, <2>1
<1> QED BY <1>2 DEF Replays

LEMMA ReadsMoreThen ==
  ASSUME NEW d, NEW j, NEW k, \A p \in Paths : Reads(j, p)' => Reads(k, p)' \/ Valid(p, tree[p])', Replays(d, j)'
  PROVE  Replays(d, k)'
<1>1. ASSUME NEW c, NEW w, Fresh(c)', Known(c, j, w)' PROVE Known(c, k, w)'
  BY <1>1 DEF Known, Fresh
<1>2. ASSUME d.pc \in {"walk", "job"}, d.rounds = 1
      PROVE  \E T, e : /\ Passes(T, d.sel, e)' /\ e.todo = <<>> /\ Place(d) \in T
                       /\ Fresh(e.cand)' /\ Known(e.cand, k, d.pc = "job")'
  <2>1. PICK T, e : /\ Passes(T, d.sel, e)' /\ e.todo = <<>> /\ Place(d) \in T
                    /\ Fresh(e.cand)' /\ Known(e.cand, j, d.pc = "job")'
    BY <1>2 DEF Replays
  <2> QED BY <1>1, <2>1
<1> QED BY <1>2 DEF Replays

LEMMA JobProbeOnce ==
  ASSUME TreeTyped, MediaInv, OneJob, NEW a \in Askers, JobProbe(a), UNCHANGED treeVars
  PROVE  OneJob'
<1> DEFINE d == ask[a]
<1>1. UNCHANGED <<tree, changed>> /\ MediaInv' BY JobProbeInv DEF treeVars
<1>2. UNCHANGED <<ask, media, mishaps, spoilt>> /\ \A b \in Askers : b # a => job'[b] = job[b]
  BY DEF JobProbe, MediaInv
<1>3. Happened' = Happened /\ Happened' >= Happened /\ Holds
  <2>1. Happened' = Happened /\ Happened \in Nat /\ Holds BY <1>1, <1>2, HappenedIs DEF Happened, Holds, Valid
  <2> QED BY <2>1
<1>4. ASSUME d # Off PROVE d.born <= Happened /\ (d.born = Happened => Replays(d, job'[a]))
  <2>1. d.born <= Happened /\ (d.born = Happened => Replays(d, job[a])) BY <1>4 DEF OneJob
  <2>2. \A p \in Paths : Reads(job[a], p) => Reads(job'[a], p) BY JobProbeReads
  <2>3. ASSUME Replays(d, job[a]) PROVE Replays(d, job'[a])
    <3> DEFINE j == job[a]
               k == job'[a]
    <3> HIDE DEF j, k, d
    <3>1. \A p \in Paths : Reads(j, p) => Reads(k, p) BY <2>2 DEF j, k
    <3>2. Replays(d, j) BY <2>3 DEF j
    <3>3. Replays(d, k) BY <3>1, <3>2, ReadsMore
    <3> QED BY <3>3 DEF k
  <2> QED BY <2>1, <2>3
<1>5. \A x, y : Replays(x, y) => Replays(x, y)' BY <1>1, <1>3, ReplaysKept
<1>6. ask'[a] # Off => ask'[a].born <= Happened' /\ (ask'[a].born = Happened' => Replays(ask[a], job[a])')
  BY <1>2, <1>3, <1>4, <1>5
<1> QED BY <1>1, <1>2, <1>3, <1>6, OneJobMoves

\* The job has ended: the table has what it was to leave there.
LEMMA ReplaysLast ==
  ASSUME UNCHANGED tree, NEW j,
         \A p \in Paths : IsFile(p) /\ (Valid(p, tree[p]) \/ Reads(j, p)) => Valid(p, tree[p])'
  PROVE  \A d, k : Replays(d, j) => Replays(d, k)'
<1>1. \A c : OneFurther(c)' = OneFurther(c)
  BY DEF OneFurther, Counted, Rest, Listed, IsFile, At
<1>2. \A T, s, e : Passes(T, s, e)' <=> Passes(T, s, e) BY <1>1 DEF Passes
<1>3. \A c : Fresh(c)' <=> Fresh(c) BY DEF Fresh, IsFile, At
<1>4. ASSUME NEW c, NEW w, NEW k, Fresh(c), Known(c, j, w) PROVE Known(c, k, w)'
  BY <1>4 DEF Known, Fresh
<1>5. ASSUME NEW d, NEW k, Replays(d, j), d.pc \in {"walk", "job"}, d.rounds = 1
      PROVE  \E T, e : /\ Passes(T, d.sel, e)' /\ e.todo = <<>> /\ Place(d) \in T
                       /\ Fresh(e.cand)' /\ Known(e.cand, k, d.pc = "job")'
  <2>1. PICK T, e : /\ Passes(T, d.sel, e) /\ e.todo = <<>> /\ Place(d) \in T
                    /\ Fresh(e.cand) /\ Known(e.cand, j, d.pc = "job")
    BY <1>5 DEF Replays
  <2> QED BY <1>2, <1>3, <1>4, <2>1
<1> TAKE d, k
<1> HAVE Replays(d, j)
<1>6. d.pc = "walk" /\ d.rounds = 0 => Fresh(d.cand)' /\ \E T : Passes(T, d.sel, Place(d))'
  BY <1>2, <1>3 DEF Replays
<1> QED BY <1>5, <1>6 DEF Replays, Place

\* What happens, happens to every analysis that is open.
LEMMA LaterOnce ==
  ASSUME MediaInv, OneJob, UNCHANGED ask, Happened' > Happened, Happened' \in Nat
  PROVE  OneJob'
<1> SUFFICES ASSUME NEW a \in Askers, ask'[a] # Off
             PROVE  ask'[a].born <= Happened' /\ ask'[a].born # Happened'
  BY DEF OneJob
<1>1. ask'[a] = ask[a] /\ ask[a] # Off OBVIOUS
<1>2. ask[a].born \in Nat /\ ask[a].born <= Happened BY <1>1 DEF OneJob, MediaInv, Asks
<1>3. Happened \in Nat BY HappenedIs
<1> QED BY <1>1, <1>2, <1>3

\* What was read and written is in the table.
LEMMA PutValid ==
  ASSUME UNCHANGED tree, NEW rows \in Partial(GoodRows), Put(rows), NEW p \in DOMAIN rows,
         p \in Paths, Same(rows[p], tree[p])
  PROVE  Valid(p, tree[p])'
<1>1. rows[p] \in Rows BY PartialIs DEF GoodRows
<1>2. rows[p] # None BY <1>1, MediaAssumption DEF Rows
<1>3. media'[p] = rows[p] BY DEF Put, Stored
<1> QED BY <1>2, <1>3 DEF Valid, Same

\* A step of a job that writes: whoever waits for it, waits for what is left.
LEMMA JobWrites ==
  ASSUME MediaInv, OneJob, UNCHANGED <<tree, changed, ask>>, MediaInv', NEW a \in Askers,
         \A b \in Askers : b # a => job'[b] = job[b],
         Happened' >= Happened, Happened' = Happened => Holds,
         Happened' = Happened => \A d : Replays(d, job[a]) => Replays(d, job[a])'
  PROVE  OneJob'
<1>1. Happened \in Nat /\ Happened' \in Nat BY HappenedIs, HappenedThen
<1>2. ASSUME ask'[a] # Off
      PROVE  ask'[a].born <= Happened' /\ (ask'[a].born = Happened' => Replays(ask[a], job[a])')
  <2> DEFINE born == ask[a].born
  <2>1. ask[a] # Off /\ ask'[a] = ask[a] BY <1>2
  <2>2. born \in Nat /\ born <= Happened /\ (born = Happened => Replays(ask[a], job[a]))
    BY <2>1 DEF OneJob, MediaInv, Asks
  <2>3. born <= Happened' BY <1>1, <2>2
  <2>4. ASSUME born = Happened' PROVE Replays(ask[a], job[a])'
    <3>1. Happened' = Happened /\ born = Happened BY <1>1, <2>2, <2>4
    <3> QED BY <2>1, <2>2, <3>1
  <2> QED BY <2>1, <2>3, <2>4
<1> QED BY <1>2, OneJobMoves

LEMMA JobFlushOnce ==
  ASSUME TreeTyped, MediaInv, OneJob, NEW a \in Askers, JobFlush(a), UNCHANGED treeVars
  PROVE  OneJob'
<1>a. PICK j : j = job[a] OBVIOUS
<1>b. PICK k : k = job'[a] OBVIOUS
<1>1. UNCHANGED <<tree, changed, ask>> /\ MediaInv' /\ j \in Jobs
  BY <1>a, JobFlushInv DEF JobFlush, treeVars, MediaInv
<1>2. /\ \A b \in Askers : b # a => job'[b] = job[b]
      /\ j # Off /\ Flush(j.rows) /\ k = [j EXCEPT !.rows = <<>>]
  BY <1>1, <1>a, <1>b DEF JobFlush, MediaInv
<1>3. j.rows \in Partial(GoodRows) BY <1>1 DEF Jobs
<1>4. Happened' >= Happened /\ (Happened' = Happened => Holds /\ Put(j.rows)) BY <1>1, <1>2, <1>3, FlushHolds
<1>5. k # Off /\ k.misses = j.misses BY <1>1, <1>2 DEF Jobs, Off
<1>6. ASSUME Happened' = Happened, NEW d, Replays(d, j) PROVE Replays(d, k)'
  <2>1. \A p \in Paths : Reads(j, p) => Reads(k, p)' \/ Valid(p, tree[p])'
    <3> SUFFICES ASSUME NEW p \in Paths, Reads(j, p), ~(Valid(p, tree[p])') PROVE Reads(k, p)' OBVIOUS
    <3>1. ~(p \in DOMAIN j.rows /\ Same(j.rows[p], tree[p])) BY <1>1, <1>3, <1>4, <1>6, PutValid
    <3> QED BY <1>1, <1>5, <3>1 DEF Reads
  <2>2. Replays(d, j)' BY <1>1, <1>4, <1>6, ReplaysKept
  <2>3. \A p \in Paths : Reads(j, p)' => Reads(j, p) BY <1>1 DEF Reads
  <2> QED BY <2>1, <2>2, <2>3, ReadsMoreThen
<1>7. Happened' = Happened => \A d : Replays(d, job[a]) => Replays(d, job[a])' BY <1>a, <1>b, <1>6
<1> QED BY <1>1, <1>2, <1>4, <1>7, JobWrites

LEMMA JobEndOnce ==
  ASSUME TreeTyped, MediaInv, OneJob, NEW a \in Askers, JobEnd(a) \/ JobCancel(a), UNCHANGED treeVars
  PROVE  OneJob'
<1> DEFINE j == job[a]
<1>1. UNCHANGED <<tree, changed, ask>> /\ MediaInv' /\ j \in Jobs
  BY JobEndInv DEF JobEnd, JobCancel, treeVars, MediaInv
<1>2. (\A b \in Askers : b # a => job'[b] = job[b]) /\ j # Off BY <1>1 DEF JobEnd, JobCancel, MediaInv
<1>3. j.rows \in Partial(GoodRows) BY <1>1 DEF Jobs
<1>4. CASE JobEnd(a)
  <2>1. Flush(j.rows) /\ DOMAIN j.misses = {} BY <1>4 DEF JobEnd
  <2>2. Happened' >= Happened /\ (Happened' = Happened => Holds /\ Put(j.rows))
    BY <1>1, <1>3, <2>1, FlushHolds
  <2>3. ASSUME Happened' = Happened PROVE \A d, k : Replays(d, j) => Replays(d, k)'
    <3>1. ASSUME NEW p \in Paths, IsFile(p), Reads(j, p) PROVE Valid(p, tree[p])'
      <4>1. p \in DOMAIN j.rows /\ Same(j.rows[p], tree[p]) BY <2>1, <3>1 DEF Reads
      <4> QED BY <1>1, <1>3, <2>2, <2>3, <4>1, PutValid
    <3>2. \A p \in Paths : IsFile(p) /\ (Valid(p, tree[p]) \/ Reads(j, p)) => Valid(p, tree[p])'
      BY <2>2, <2>3, <3>1 DEF Holds
    <3> HIDE DEF j
    <3> QED BY <1>1, <3>2, ReplaysLast
  <2> HIDE DEF j
  <2>4. Happened' = Happened => \A d : Replays(d, j) => Replays(d, job[a])' BY <2>3
  <2> QED BY <1>1, <1>2, <2>2, <2>4, JobWrites DEF j
<1>5. CASE JobCancel(a)
  <2>1. changed' = changed /\ mishaps' = mishaps + 1 /\ ask' = ask BY <1>1, <1>5 DEF JobCancel
  <2>2. spoilt' = spoilt \/ spoilt' = spoilt + 1 BY <1>5 DEF JobCancel, Put
  <2>3. changed \in Nat /\ mishaps \in Nat /\ spoilt \in Nat BY DEF MediaInv
  <2>4. Happened' > Happened /\ Happened' \in Nat BY <2>1, <2>2, <2>3 DEF Happened
  <2> QED BY <2>1, <2>4, LaterOnce
<1> QED BY <1>4, <1>5

LEMMA ForgetOnce == ASSUME MediaInv, OneJob, Forget, UNCHANGED treeVars PROVE OneJob'
<1>1. changed' = changed /\ mishaps' = mishaps + 1 /\ spoilt' = spoilt /\ ask' = ask BY DEF Forget, treeVars
<1>2. Happened' > Happened /\ Happened' \in Nat BY <1>1, ForgetInv, HappenedThen DEF Happened, MediaInv
<1> QED BY <1>1, <1>2, LaterOnce

LEMMA ChangeOnce == ASSUME TreeTyped, MediaInv, OneJob, Change, UNCHANGED mediaVars PROVE OneJob'
<1>1. changed' = changed + 1
  <2> USE DEF ChangeTo
  <2> QED BY DEF Change, Write, Mkdir, Delete, Rename
<1>2. mishaps' = mishaps /\ spoilt' = spoilt /\ ask' = ask BY DEF mediaVars
<1>3. Happened' > Happened /\ Happened' \in Nat BY <1>1, <1>2, ChangeMediaInv, HappenedThen DEF Happened, MediaInv
<1> QED BY <1>2, <1>3, LaterOnce

LEMMA StepOneJob == ASSUME TreeTyped, MediaInv, OneJob, [Next]_vars PROVE OneJob'
<1>1. ASSUME UNCHANGED <<tree, changed, ask, job, media, mishaps, spoilt>> PROVE OneJob'
  <2>1. Happened' = Happened /\ Holds BY <1>1 DEF Happened, Holds, Valid
  <2>2. \A d, j : Replays(d, j) => Replays(d, j)' BY <1>1, <2>1, ReplaysKept
  <2> QED BY <1>1, <2>1, <2>2 DEF OneJob
<1>2. ASSUME UNCHANGED <<treeVars, mediaVars>> PROVE OneJob'
  BY <1>1, <1>2 DEF treeVars, mediaVars
<1>3. ASSUME ZipNext, UNCHANGED mediaVars PROVE OneJob'
  <2>1. UNCHANGED <<tree, changed, ask, job, media, mishaps, spoilt>>
    BY <1>3 DEF ZipNext, PlanStart, PlanVisit, PlanEnd, PlanTimeout, PartStart, PartFails, PartVisit,
                PartCopy, PartEnd, mediaVars
  <2> QED BY <1>1, <2>1
<1>4. CASE MediaNext /\ UNCHANGED treeVars
  BY <1>4, MediaOpenOnce, MediaVisitOnce, MediaLookOnce, MediaAskOnce, MediaAgainOnce,
     JobProbeOnce, JobFlushOnce, JobEndOnce, ForgetOnce DEF MediaNext, MediaStep, JobStep
<1>5. CASE MediaCrash /\ UNCHANGED treeVars BY <1>5 DEF MediaCrash, OneJob
<1> QED BY <1>2, <1>3, <1>4, <1>5, ChangeOnce DEF Next, vars

\* The job that an analysis leaves the headers to is enough: asked again after it,
\* the answer comes at once, unless something happened to the files or the rows
\* since the page opened (mediaCached and the job, handlers_media.go).
THEOREM OneJobIsEnough == Spec => []JobSuffices
<1>1. Init => TreeTyped /\ MediaInv /\ OneJob
  BY TreeInitTyped DEF Init, MediaInit, MediaInv, TreeInit, OneJob
<1>2. TreeTyped /\ MediaInv /\ OneJob /\ [Next]_vars => (TreeTyped /\ MediaInv /\ OneJob)'
  BY StepTreeTyped, StepMediaInv, StepOneJob
<1>3. MediaInv /\ OneJob => JobSuffices
  <2> SUFFICES ASSUME MediaInv, OneJob, NEW a \in Askers, ask[a] # Off, ask[a].rounds > 1,
                      ask[a].born = Happened
               PROVE  FALSE
    BY DEF JobSuffices
  <2>1. ask[a].rounds \in Nat BY DEF MediaInv, Asks
  <2>2. ask[a].rounds <= 1 BY DEF OneJob, Replays
  <2> QED BY <2>1, <2>2
<1> QED BY <1>1, <1>2, <1>3, PTL DEF Spec

=============================================================================
