---------------------------- MODULE LinksProofs ----------------------------
(***************************************************************************)
(* Theorems about Links, for every set of paths and of inodes and any      *)
(* number of requests, links and changes.                                  *)
(*                                                                         *)
(* The disk stays a tree because a move takes the whole of what is under a *)
(* path: paths are compared element by element. The rest is about ids. A   *)
(* row may go at any time and another come under its id; what a request or *)
(* a round of the maintenance remembers of a row is true of it while it    *)
(* stays, and of an id that was given again nothing is claimed.            *)
(***************************************************************************)
EXTENDS Links, SequenceTheorems, SumTheorems

-----------------------------------------------------------------------------
(* Paths.                                                                  *)

LEMMA PathIs ==
  ASSUME NEW p \in Paths
  PROVE  /\ p \in Seq(Names) /\ p # <<>> /\ Len(p) \in Nat /\ Len(p) > 0
         /\ \A i \in 1..Len(p) : p[i] \in Names
<1>1. p \in Seq(Names) /\ p # <<>> BY PathsAssumption
<1>2. Len(p) \in Nat /\ (Len(p) = 0 => p = <<>>) BY <1>1, EmptySeq, LenProperties
<1> QED BY <1>1, <1>2, ElementOfSeq

\* A prefix, element by element.
LEMMA PrefixAt ==
  ASSUME NEW s \in Seq(Names), NEW t \in Seq(Names)
  PROVE  IsPrefix(s, t) <=> Len(s) <= Len(t) /\ \A i \in 1..Len(s) : s[i] = t[i]
<1>0. Len(s) \in Nat /\ Len(t) \in Nat BY LenProperties
<1> SUFFICES ASSUME Len(s) <= Len(t)
             PROVE  SubSeq(s, 1, Len(s)) = SubSeq(t, 1, Len(s)) <=> \A i \in 1..Len(s) : s[i] = t[i]
  BY DEF IsPrefix
<1>1. SubSeq(s, 1, Len(s)) = s BY SubSeqFull
<1> DEFINE u == SubSeq(t, 1, Len(s))
<1>2. \A i \in 1..Len(s) : t[i] \in Names BY <1>0, ElementOfSeq
<1>3. /\ u \in Seq(Names) /\ Len(u) = Len(s)
      /\ \A i \in 1..Len(s) : u[i] = t[i]
  <2>1. /\ SubSeq(t, 1, Len(s)) \in Seq(Names)
        /\ Len(SubSeq(t, 1, Len(s))) = IF 1 <= Len(s) THEN Len(s) - 1 + 1 ELSE 0
        /\ \A i \in 1..Len(s) - 1 + 1 : SubSeq(t, 1, Len(s))[i] = t[1 + i - 1]
    BY <1>0, <1>2, SubSeqProperties
  <2> QED BY <1>0, <2>1
<1> HIDE DEF u
<1>4. s = u <=> \A i \in 1..Len(s) : s[i] = u[i] BY <1>3, SeqEqual
<1> QED BY <1>1, <1>3, <1>4 DEF u

LEMMA FrontAt ==
  ASSUME NEW s \in Seq(Names), s # <<>>
  PROVE  /\ Front(s) \in Seq(Names) /\ Len(Front(s)) = Len(s) - 1 /\ Len(s) > 0
         /\ \A i \in 1..Len(s) - 1 : Front(s)[i] = s[i]
<1>1. Len(s) \in Nat /\ Len(s) # 0 BY EmptySeq, LenProperties
<1>2. \A i \in 1..Len(s) - 1 : s[i] \in Names BY <1>1, ElementOfSeq
<1> DEFINE n == Len(s) - 1
           f == SubSeq(s, 1, n)
<1>3. n \in Int /\ n >= 0 /\ 1 \in Int /\ \A i \in 1..n : s[i] \in Names BY <1>1, <1>2
<1>4. /\ f \in Seq(Names) /\ Len(f) = IF 1 <= n THEN n - 1 + 1 ELSE 0
      /\ \A i \in 1..n - 1 + 1 : f[i] = s[1 + i - 1]
  BY <1>3, SubSeqProperties
<1> HIDE DEF f, n
<1>5. Len(f) = n /\ \A i \in 1..n : f[i] = s[i]
  <2>1. Len(f) = n BY <1>3, <1>4
  <2>2. \A i \in 1..n : i \in 1..n - 1 + 1 /\ 1 + i - 1 = i BY <1>3
  <2> QED BY <1>4, <2>1, <2>2
<1> QED BY <1>1, <1>4, <1>5 DEF Front, f, n

\* The folder of an item is a path, or the base folder.
LEMMA FolderIs ==
  ASSUME NEW p \in Paths
  PROVE  /\ Front(p) \in Seq(Names) /\ Len(Front(p)) = Len(p) - 1
         /\ Front(p) # <<>> <=> Len(p) > 1
         /\ Front(p) # <<>> => Front(p) \in Paths
         /\ IsPrefix(Front(p), p)
<1>1. /\ p \in Seq(Names) /\ p # <<>> /\ Len(p) \in Nat /\ Len(p) > 0 BY PathIs
<1>2. /\ Front(p) \in Seq(Names) /\ Len(Front(p)) = Len(p) - 1
      /\ \A i \in 1..Len(p) - 1 : Front(p)[i] = p[i]
  BY <1>1, FrontAt
<1>3. Front(p) = <<>> <=> Len(p) = 1 BY <1>1, <1>2, EmptySeq
<1>4. IsPrefix(Front(p), p) BY <1>1, <1>2, PrefixAt
<1>5. Front(p) # <<>> => Front(p) \in Paths BY PathsAssumption
<1> QED BY <1>1, <1>2, <1>3, <1>4, <1>5

LEMMA UnderSelf == ASSUME NEW p \in Paths PROVE p \in Under(p)
  BY PathIs, PrefixAt DEF Under

\* What is below p and not p has its folder there too.
LEMMA FolderUnder ==
  ASSUME NEW p \in Paths, NEW r \in Under(p), r # p
  PROVE  Front(r) \in Under(p)
<1>1. r \in Paths /\ IsPrefix(p, r) BY DEF Under
<1>2. /\ p \in Seq(Names) /\ r \in Seq(Names) /\ r # <<>>
      /\ Len(p) \in Nat /\ Len(p) > 0 /\ Len(r) \in Nat
  BY <1>1, PathIs
<1>3. Len(p) <= Len(r) /\ \A i \in 1..Len(p) : p[i] = r[i] BY <1>1, <1>2, PrefixAt
<1>4. Len(p) # Len(r) BY <1>2, <1>3, SeqEqual
<1>5. /\ Front(r) \in Seq(Names) /\ Len(Front(r)) = Len(r) - 1
      /\ \A i \in 1..Len(r) - 1 : Front(r)[i] = r[i]
  BY <1>2, FrontAt
<1>6. IsPrefix(p, Front(r)) BY <1>2, <1>3, <1>4, <1>5, PrefixAt
<1>7. Front(r) \in Paths BY <1>1, <1>2, <1>3, <1>4, FolderIs
<1> QED BY <1>6, <1>7 DEF Under

\* What is below the folder of an item is there with the item.
LEMMA UnderFolder ==
  ASSUME NEW p \in Paths, NEW r \in Paths, Front(r) \in Under(p)
  PROVE  r \in Under(p)
<1>1. /\ Front(r) \in Paths /\ IsPrefix(p, Front(r)) BY DEF Under
<1>2. /\ p \in Seq(Names) /\ r \in Seq(Names) /\ r # <<>> /\ Len(p) \in Nat /\ Len(r) \in Nat
  BY PathIs
<1>3. /\ Front(r) \in Seq(Names) /\ Len(Front(r)) = Len(r) - 1
      /\ \A i \in 1..Len(r) - 1 : Front(r)[i] = r[i]
  BY <1>2, FrontAt
<1>4. Len(p) <= Len(r) - 1 /\ \A i \in 1..Len(p) : p[i] = Front(r)[i]
  BY <1>1, <1>2, <1>3, PrefixAt
<1>5. Len(p) <= Len(r) /\ \A i \in 1..Len(p) : p[i] = r[i]
  <2>1. \A i \in 1..Len(p) : i \in 1..Len(r) - 1 BY <1>2, <1>4
  <2> QED BY <1>2, <1>3, <1>4, <2>1
<1>6. IsPrefix(p, r) BY <1>2, <1>5, PrefixAt
<1> QED BY <1>6 DEF Under

-----------------------------------------------------------------------------
(* Moves: the path that comes to r when p goes to q.                       *)

Source(p, q, r) == p \o SubSeq(r, Len(q) + 1, Len(r))

LEMMA SourceAt ==
  ASSUME NEW p \in Paths, NEW q \in Paths, NEW r \in Under(q)
  PROVE  /\ Source(p, q, r) \in Seq(Names)
         /\ Len(Source(p, q, r)) = Len(p) + (Len(r) - Len(q))
         /\ \A i \in 1..Len(p) : Source(p, q, r)[i] = p[i]
         /\ \A i \in 1..Len(r) - Len(q) : Source(p, q, r)[Len(p) + i] = r[Len(q) + i]
         /\ Len(q) <= Len(r) /\ \A i \in 1..Len(q) : q[i] = r[i]
<1>1. r \in Paths /\ IsPrefix(q, r) BY DEF Under
<1>2. /\ p \in Seq(Names) /\ q \in Seq(Names) /\ r \in Seq(Names)
      /\ Len(p) \in Nat /\ Len(q) \in Nat /\ Len(r) \in Nat
      /\ \A i \in 1..Len(r) : r[i] \in Names
  BY <1>1, PathIs
<1>3. Len(q) <= Len(r) /\ \A i \in 1..Len(q) : q[i] = r[i] BY <1>1, <1>2, PrefixAt
<1> DEFINE m == Len(q) + 1
           t == SubSeq(r, m, Len(r))
<1>4. /\ t \in Seq(Names) /\ Len(t) = Len(r) - Len(q)
      /\ \A i \in 1..Len(r) - Len(q) : t[i] = r[Len(q) + i]
  <2>1. m \in Int /\ m >= 1 /\ Len(r) \in Int /\ \A i \in m..Len(r) : r[i] \in Names BY <1>2
  <2>2. /\ SubSeq(r, m, Len(r)) \in Seq(Names)
        /\ Len(SubSeq(r, m, Len(r))) = IF m <= Len(r) THEN Len(r) - m + 1 ELSE 0
        /\ \A i \in 1..Len(r) - m + 1 : SubSeq(r, m, Len(r))[i] = r[m + i - 1]
    BY <2>1, SubSeqProperties
  <2>3. \A i \in 1..Len(r) - Len(q) : m + i - 1 = Len(q) + i BY <1>2
  <2> QED BY <1>2, <1>3, <2>2, <2>3
<1> HIDE DEF t
<1>5. /\ p \o t \in Seq(Names) /\ Len(p \o t) = Len(p) + Len(t)
      /\ \A i \in 1..Len(p) + Len(t) : (p \o t)[i] = IF i <= Len(p) THEN p[i] ELSE t[i - Len(p)]
  BY <1>2, <1>4, ConcatProperties
<1>6. Source(p, q, r) = p \o t BY DEF Source, t
<1>7. ASSUME NEW i \in 1..Len(r) - Len(q) PROVE (p \o t)[Len(p) + i] = r[Len(q) + i]
  <2>1. Len(p) + i \in 1..Len(p) + Len(t) /\ ~(Len(p) + i <= Len(p)) /\ (Len(p) + i) - Len(p) = i
    BY <1>2, <1>4
  <2> QED BY <1>4, <1>5, <2>1
<1> QED BY <1>2, <1>3, <1>4, <1>5, <1>6, <1>7

LEMMA SourceInjective ==
  ASSUME NEW p \in Paths, NEW q \in Paths, NEW r \in Under(q), NEW s \in Under(q),
         Source(p, q, r) = Source(p, q, s)
  PROVE  r = s
<1>1. /\ r \in Seq(Names) /\ s \in Seq(Names) /\ Len(r) \in Nat /\ Len(s) \in Nat
      /\ Len(p) \in Nat /\ Len(q) \in Nat
  BY PathIs DEF Under
<1>2. /\ Len(Source(p, q, r)) = Len(p) + (Len(r) - Len(q))
      /\ \A i \in 1..Len(r) - Len(q) : Source(p, q, r)[Len(p) + i] = r[Len(q) + i]
      /\ Len(q) <= Len(r) /\ \A i \in 1..Len(q) : q[i] = r[i]
  BY SourceAt
<1>3. /\ Len(Source(p, q, s)) = Len(p) + (Len(s) - Len(q))
      /\ \A i \in 1..Len(s) - Len(q) : Source(p, q, s)[Len(p) + i] = s[Len(q) + i]
      /\ Len(q) <= Len(s) /\ \A i \in 1..Len(q) : q[i] = s[i]
  BY SourceAt
<1>4. Len(r) = Len(s) BY <1>1, <1>2, <1>3
<1>5. ASSUME NEW i \in 1..Len(r) PROVE r[i] = s[i]
  <2>1. CASE i \in 1..Len(q) BY <1>2, <1>3, <2>1
  <2>2. CASE i \notin 1..Len(q)
    <3>1. i - Len(q) \in 1..Len(r) - Len(q) /\ Len(q) + (i - Len(q)) = i BY <1>1, <2>2
    <3> QED BY <1>2, <1>3, <1>4, <3>1
  <2> QED BY <2>1, <2>2
<1> QED BY <1>1, <1>4, <1>5, SeqEqual

LEMMA SourceUnder ==
  ASSUME NEW p \in Paths, NEW q \in Paths, NEW r \in Under(q), Source(p, q, r) \in Paths
  PROVE  Source(p, q, r) \in Under(p)
<1>1. /\ p \in Seq(Names) /\ Len(p) \in Nat /\ Len(q) \in Nat /\ Len(r) \in Nat
  BY PathIs DEF Under
<1>2. /\ Source(p, q, r) \in Seq(Names)
      /\ Len(Source(p, q, r)) = Len(p) + (Len(r) - Len(q)) /\ Len(q) <= Len(r)
      /\ \A i \in 1..Len(p) : Source(p, q, r)[i] = p[i]
  BY SourceAt
<1>3. IsPrefix(p, Source(p, q, r)) BY <1>1, <1>2, PrefixAt
<1> QED BY <1>3 DEF Under

LEMMA SourceSelf ==
  ASSUME NEW p \in Paths, NEW q \in Paths
  PROVE  Source(p, q, q) = p
<1>1. p \in Seq(Names) /\ Len(q) \in Nat BY PathIs
<1>2. SubSeq(q, Len(q) + 1, Len(q)) = <<>> BY <1>1, SubSeqEmpty
<1> QED BY <1>1, <1>2, ConcatEmptySeq DEF Source

\* The folder of what comes to r comes to the folder of r.
LEMMA SourceFolder ==
  ASSUME NEW p \in Paths, NEW q \in Paths, NEW r \in Under(q), r # q
  PROVE  /\ Front(r) \in Under(q)
         /\ Front(Source(p, q, r)) = Source(p, q, Front(r)) /\ Front(Source(p, q, r)) # <<>>
<1>1. Front(r) \in Under(q) BY FolderUnder
<1>2. /\ r \in Seq(Names) /\ r # <<>> /\ Len(r) \in Nat /\ Len(p) \in Nat /\ Len(p) > 0 /\ Len(q) \in Nat
  BY PathIs DEF Under
<1>3. /\ Len(Front(r)) = Len(r) - 1 /\ \A i \in 1..Len(r) - 1 : Front(r)[i] = r[i]
  BY <1>2, FrontAt
<1> DEFINE s == Source(p, q, r)
           t == Source(p, q, Front(r))
<1>4. /\ s \in Seq(Names) /\ Len(s) = Len(p) + (Len(r) - Len(q))
      /\ \A i \in 1..Len(p) : s[i] = p[i]
      /\ \A i \in 1..Len(r) - Len(q) : s[Len(p) + i] = r[Len(q) + i]
  BY SourceAt
<1>5. /\ t \in Seq(Names) /\ Len(t) = Len(p) + (Len(r) - 1 - Len(q))
      /\ \A i \in 1..Len(p) : t[i] = p[i]
      /\ \A i \in 1..Len(r) - 1 - Len(q) : t[Len(p) + i] = Front(r)[Len(q) + i]
      /\ Len(q) <= Len(r) - 1
  <2> DEFINE w == Front(r)
  <2>1. w \in Under(q) /\ Len(w) = Len(r) - 1 BY <1>1, <1>3
  <2> HIDE DEF w
  <2>2. /\ Source(p, q, w) \in Seq(Names) /\ Len(Source(p, q, w)) = Len(p) + (Len(w) - Len(q))
        /\ \A i \in 1..Len(p) : Source(p, q, w)[i] = p[i]
        /\ \A i \in 1..Len(w) - Len(q) : Source(p, q, w)[Len(p) + i] = w[Len(q) + i]
        /\ Len(q) <= Len(w)
    BY <2>1, SourceAt
  <2> QED BY <2>1, <2>2 DEF w
<1> HIDE DEF s, t
<1>6. s # <<>> BY <1>2, <1>4, <1>5, EmptySeq
<1>7. /\ Front(s) \in Seq(Names) /\ Len(Front(s)) = Len(s) - 1
      /\ \A i \in 1..Len(s) - 1 : Front(s)[i] = s[i]
  BY <1>4, <1>6, FrontAt
<1>8. Len(Front(s)) = Len(t) /\ Len(t) > 0 BY <1>2, <1>4, <1>5, <1>7
<1>9. ASSUME NEW i \in 1..Len(t) PROVE Front(s)[i] = t[i]
  <2>0. Front(s)[i] = s[i] BY <1>2, <1>4, <1>5, <1>7
  <2>1. CASE i \in 1..Len(p) BY <1>4, <1>5, <2>0, <2>1
  <2>2. CASE i \notin 1..Len(p)
    <3> DEFINE k == i - Len(p)
    <3>1. /\ k \in 1..Len(r) - 1 - Len(q) /\ k \in 1..Len(r) - Len(q) /\ Len(p) + k = i
          /\ Len(q) + k \in 1..Len(r) - 1
      BY <1>2, <1>5, <2>2
    <3> HIDE DEF k
    <3>2. s[i] = r[Len(q) + k] BY <1>4, <3>1
    <3>3. t[i] = Front(r)[Len(q) + k] BY <1>5, <3>1
    <3> QED BY <1>3, <2>0, <3>1, <3>2, <3>3
  <2> QED BY <2>1, <2>2
<1>10. Front(s) = t BY <1>5, <1>7, <1>8, <1>9, SeqEqual
<1>11. Front(s) # <<>> BY <1>7, <1>8, EmptySeq
<1> QED BY <1>1, <1>10, <1>11 DEF s, t

-----------------------------------------------------------------------------
(* The disk stays a tree.                                                  *)

LEMMA FreshNew ==
  ASSUME NEW S, NEW x \in Fresh(S)
  PROVE  x \in S /\ \A p \in Paths : at[p] # x
  BY DEF Fresh, Remembered

LEMMA TreeIs ==
  ASSUME at \in Trees
  PROVE  /\ at \in [Paths -> Items \cup {None}]
         /\ \A p, q \in Paths : at[p] # None /\ at[q] = at[p] => q = p
         /\ \A p \in Paths : at[p] # None /\ Front(p) # <<>> => at[Front(p)] \in Dirs
  BY DEF Trees

LEMMA IsTree ==
  ASSUME NEW t \in [Paths -> Items \cup {None}],
         \A p, q \in Paths : t[p] # None /\ t[q] = t[p] => q = p,
         \A p \in Paths : t[p] # None /\ Front(p) # <<>> => t[Front(p)] \in Dirs
  PROVE  t \in Trees
  BY DEF Trees

LEMMA NoneIsNoItem == None \notin Dirs /\ None \notin Files /\ Dirs \subseteq Items /\ Files \subseteq Items
  BY InodesAssumption DEF Items

LEMMA FolderThere ==
  ASSUME NEW p, p # <<>>, IsDir(p)
  PROVE  p \in Paths /\ at[p] \in Dirs /\ View(p) = at[p]
  BY NoneIsNoItem DEF IsDir, View

LEMMA ClearedTree ==
  ASSUME at \in Trees, NEW p \in Paths
  PROVE  Cleared(at, p) \in Trees
<1> DEFINE t == Cleared(at, p)
           Gone(r) == r \in Under(p) /\ View(r) # None
<1>1. /\ t \in [Paths -> Items \cup {None}]
      /\ \A r \in Paths : t[r] = IF Gone(r) THEN None ELSE at[r]
  BY TreeIs DEF Cleared
<1> HIDE DEF t
<1>2. \A r, q \in Paths : t[r] # None /\ t[q] = t[r] => q = r BY <1>1, TreeIs
<1>3. ASSUME NEW r \in Paths, t[r] # None, Front(r) # <<>> PROVE t[Front(r)] \in Dirs
  <2>1. Front(r) \in Paths /\ at[r] # None /\ ~Gone(r) BY <1>1, <1>3, FolderIs
  <2>2. at[Front(r)] \in Dirs BY <1>3, <2>1, TreeIs
  <2>3. ~Gone(Front(r))
    <3> SUFFICES ASSUME Gone(Front(r)) PROVE FALSE OBVIOUS
    <3>1. r \in Under(p) BY UnderFolder
    <3>2. ~mounted /\ IsPrefix(Disk, r) BY <2>1, <3>1 DEF View
    <3>3. ~IsPrefix(Disk, Front(r)) BY <3>2 DEF View
    <3>4. r = Disk BY <3>2, <3>3, FolderUnder, PathsAssumption DEF Under
    <3> QED BY <1>3, <3>4, PathsAssumption
  <2> QED BY <1>1, <2>1, <2>2, <2>3
<1> QED BY <1>1, <1>2, <1>3, IsTree DEF t

LEMMA MovedTree ==
  ASSUME at \in Trees, NEW p \in Paths, NEW q \in Paths, CanMove(p, q)
  PROVE  Moved(p, q) \in Trees
<1> DEFINE t == Moved(p, q)
           src(r) == Source(p, q, r)
           From(r) == IF src(r) \in Paths THEN at[src(r)] ELSE None
<1>1. /\ t \in [Paths -> Items \cup {None}]
      /\ \A r \in Under(q) : t[r] = From(r)
      /\ \A r \in Paths \ Under(q) : t[r] = IF r \in Under(p) THEN None ELSE at[r]
  <2>1. t = [r \in Paths |-> IF r \in Under(q) THEN From(r)
                             ELSE IF r \in Under(p) THEN None ELSE at[r]]
    BY DEF Moved, Source
  <2>2. at \in [Paths -> Items \cup {None}] BY TreeIs
  <2> QED BY <2>1, <2>2 DEF Under
<1> HIDE DEF t
<1>2. \A r \in Under(q) : t[r] # None => src(r) \in Paths /\ src(r) \in Under(p) /\ t[r] = at[src(r)]
  BY <1>1, SourceUnder
<1>3. \A r \in Paths \ Under(q) : t[r] # None => r \notin Under(p) /\ t[r] = at[r] BY <1>1
<1>4. ASSUME NEW r \in Paths, NEW s \in Paths, t[r] # None, t[s] = t[r] PROVE s = r
  <2>1. CASE r \in Under(q) /\ s \in Under(q)
    <3>1. src(s) = src(r) BY <1>2, <1>4, <2>1, TreeIs
    <3> QED BY <2>1, <3>1, SourceInjective
  <2>2. CASE r \in Under(q) /\ s \notin Under(q)
    <3>1. src(r) = s BY <1>2, <1>3, <1>4, <2>2, TreeIs
    <3> QED BY <1>2, <1>3, <1>4, <2>2, <3>1
  <2>3. CASE r \notin Under(q) /\ s \in Under(q)
    <3>1. src(s) = r BY <1>2, <1>3, <1>4, <2>3, TreeIs
    <3> QED BY <1>2, <1>3, <1>4, <2>3, <3>1
  <2>4. CASE r \notin Under(q) /\ s \notin Under(q) BY <1>3, <1>4, <2>4, TreeIs
  <2> QED BY <2>1, <2>2, <2>3, <2>4
<1>5. ASSUME NEW r \in Paths, t[r] # None, Front(r) # <<>> PROVE t[Front(r)] \in Dirs
  <2>0. Front(r) \in Paths BY <1>5, FolderIs
  <2>1. CASE r = q
    <3>1. at[Front(q)] \in Dirs BY <1>5, <2>1, FolderThere DEF CanMove
    <3>2. Front(q) \notin Under(p) BY UnderFolder DEF CanMove, Under
    <3>3. Front(q) \notin Under(q)
      <4>1. Len(q) \in Nat /\ Len(Front(q)) = Len(q) - 1 BY PathIs, FolderIs
      <4>2. ~(Len(q) <= Len(Front(q))) BY <4>1
      <4> QED BY <4>2 DEF Under, IsPrefix
    <3> QED BY <1>1, <2>0, <2>1, <3>1, <3>2, <3>3
  <2>2. CASE r \in Under(q) /\ r # q
    <3>1. /\ Front(r) \in Under(q) /\ Front(src(r)) = src(Front(r)) /\ Front(src(r)) # <<>>
      BY <2>2, SourceFolder
    <3>2. src(r) \in Paths /\ at[src(r)] # None BY <1>2, <1>5, <2>2
    <3>3. at[Front(src(r))] \in Dirs /\ Front(src(r)) \in Paths BY <3>1, <3>2, TreeIs, FolderIs
    <3> QED BY <1>1, <3>1, <3>3
  <2>3. CASE r \notin Under(q)
    <3>1. r \notin Under(p) /\ at[r] # None BY <1>3, <1>5, <2>3
    <3>2. Front(r) \notin Under(q) /\ Front(r) \notin Under(p) BY <2>3, <3>1, UnderFolder
    <3>3. at[Front(r)] \in Dirs BY <1>5, <3>1, TreeIs
    <3> QED BY <1>1, <2>0, <3>2, <3>3
  <2>4. q \in Under(q) BY UnderSelf
  <2> QED BY <2>1, <2>2, <2>3, <2>4
<1> QED BY <1>1, <1>4, <1>5, IsTree DEF t

LEMMA PutTree ==
  ASSUME at \in Trees, NEW p \in Paths, NEW item \in Fresh(Items), at[p] = None, IsDir(Front(p))
  PROVE  [at EXCEPT ![p] = item] \in Trees
<1> DEFINE t == [at EXCEPT ![p] = item]
<1>0. item \in Items /\ \A q \in Paths : at[q] # item BY FreshNew
<1>1. /\ t \in [Paths -> Items \cup {None}] /\ t[p] = item
      /\ \A q \in Paths \ {p} : t[q] = at[q]
  BY <1>0, TreeIs
<1> HIDE DEF t
<1>2. \A r, q \in Paths : t[r] # None /\ t[q] = t[r] => q = r BY <1>0, <1>1, TreeIs
<1>3. ASSUME NEW r \in Paths, t[r] # None, Front(r) # <<>> PROVE t[Front(r)] \in Dirs
  <2>1. Front(r) \in Paths BY <1>3, FolderIs
  <2>2. at[Front(r)] \in Dirs
    <3>1. CASE r = p BY <1>3, <3>1, FolderThere
    <3>2. CASE r # p BY <1>1, <1>3, <3>2, TreeIs
    <3> QED BY <3>1, <3>2
  <2> QED BY <1>1, <2>1, <2>2, NoneIsNoItem
<1> QED BY <1>1, <1>2, <1>3, IsTree DEF t

LEMMA MkdirTree ==
  ASSUME at \in Trees, NEW missing \in SUBSET Paths, NEW f \in [missing -> Fresh(Dirs)],
         \A q \in missing : at[q] = None /\ (IsDir(Front(q)) \/ Front(q) \in missing),
         IsInjective(f)
  PROVE  [q \in Paths |-> IF q \in missing THEN f[q] ELSE at[q]] \in Trees
<1> DEFINE t == [q \in Paths |-> IF q \in missing THEN f[q] ELSE at[q]]
<1>0. \A q \in missing : f[q] \in Dirs /\ \A r \in Paths : at[r] # f[q] BY FreshNew
<1>1. /\ t \in [Paths -> Items \cup {None}]
      /\ \A q \in missing : t[q] = f[q]
      /\ \A q \in Paths \ missing : t[q] = at[q]
  <2>1. at \in [Paths -> Items \cup {None}] BY TreeIs
  <2> QED BY <1>0, <2>1, NoneIsNoItem
<1>2. \A q, r \in missing : f[q] = f[r] => q = r BY DEF IsInjective
<1> HIDE DEF t
<1>3. ASSUME NEW r \in Paths, NEW q \in Paths, t[r] # None, t[q] = t[r] PROVE q = r
  <2>1. CASE r \in missing /\ q \in missing BY <1>1, <1>2, <1>3, <2>1
  <2>2. CASE r \notin missing /\ q \notin missing BY <1>1, <1>3, <2>2, TreeIs
  <2>3. CASE (r \in missing) # (q \in missing) BY <1>0, <1>1, <1>3, <2>3
  <2> QED BY <2>1, <2>2, <2>3
<1>4. ASSUME NEW r \in Paths, t[r] # None, Front(r) # <<>> PROVE t[Front(r)] \in Dirs
  <2>0. Front(r) \in Paths BY <1>4, FolderIs
  <2>1. CASE Front(r) \in missing BY <1>0, <1>1, <2>1
  <2>2. CASE Front(r) \notin missing
    <3>1. at[Front(r)] \in Dirs
      <4>1. CASE r \in missing BY <1>4, <2>2, <4>1, FolderThere
      <4>2. CASE r \notin missing BY <1>1, <1>4, <4>2, TreeIs
      <4> QED BY <4>1, <4>2
    <3> QED BY <1>1, <2>0, <2>2, <3>1
  <2> QED BY <2>1, <2>2
<1> QED BY <1>1, <1>3, <1>4, IsTree DEF t

-----------------------------------------------------------------------------
(* Types.                                                                  *)

Rows == UNION {[S -> Row] : S \in SUBSET Ids}
Identities == Items \cup {None}
Addresses == Slugs \cup {NoSlug}
Kinds == {"file", "dir"}
Creation ==
  [pc : {"item"}, mode : Modes, p : Paths, slug : Addresses, made : {FALSE}]
    \cup [pc : {"hash", "undo"}, mode : Modes, p : Paths, slug : Addresses, made : BOOLEAN, kind : Kinds]
    \cup [pc : {"insert", "undo"}, mode : Modes, p : Paths, slug : Addresses, made : BOOLEAN,
          kind : Kinds, item : Identities]
Operation == [pc : {"drop", "remove", "end"}, kind : {"delete", "move"}, p : Paths, was : SUBSET Ids]
Round == [pc : {"look", "revoke"}, rows : Rows, todo : SUBSET Ids, broken : SUBSET Ids,
          same : SUBSET Ids, away : BOOLEAN]
Visit == [pc : {"open", "check", "wait", "serve"}, root : Identities,
          row : [path : Paths, mode : Modes, kind : Kinds, item : Identities]]
Revocation == [pc : {"end"}, id : Ids, purge : BOOLEAN]

Types ==
  /\ at \in Trees /\ mounted \in BOOLEAN
  /\ link \in Rows
  /\ cr \in [Creators -> Creation \cup {Idle}]
  /\ op \in Operation \cup {Idle}
  /\ sw \in Round \cup {Idle}
  /\ vis \in Visit \cup {Idle}
  /\ rev \in Revocation \cup {Idle}
  /\ whole \subseteq Ids
  /\ left \in [{"create", "operate", "outside"} -> Nat]

\* A slug belongs to one row.
Unique ==
  \A i, j \in DOMAIN link : link[i].slug = link[j].slug /\ link[i].slug # NoSlug => i = j

\* What a round has left to do, and what it found, is of its list.
Rounds ==
  /\ sw.pc # "idle" => sw.todo \cup sw.broken \cup sw.same \subseteq DOMAIN sw.rows
  /\ sw.pc = "look" => sw.todo \cap sw.broken = {}
  /\ sw.pc = "revoke" => sw.todo # {}

\* A request on an item finds its links by their path, and then none is live.
Falling ==
  /\ op.pc = "drop" => \A i \in op.was \cap DOMAIN link : link[i].path \in Under(op.p)
  /\ op.pc \in {"remove", "end"} => Live \cap op.was = {}

\* A link marked for a day was not found whole since; what the list of a round
\* says of a row is true of it while the row stays; and the round takes for
\* broken what is on a disk that is away.
Marked == \A i \in DOMAIN link : link[i].broken = "old" => i \notin whole
Remembers ==
  sw.pc # "idle" =>
    /\ \A i \in sw.same \cap DOMAIN link : link[i].slug = sw.rows[i].slug
    /\ sw.pc = "look" => \A i \in sw.todo \cap DOMAIN link :
         sw.rows[i].broken = "no" => link[i].broken = "no"
    /\ sw.pc = "look" => \A i \in (sw.todo \cup sw.broken) \cap sw.same :
         sw.rows[i].broken = "old" => i \notin whole
Away ==
  sw.pc = "look" /\ sw.away =>
    /\ ~mounted
    /\ \A i \in DOMAIN sw.rows \ sw.todo : sw.rows[i].path \in Under(Disk) => i \in sw.broken

IInv ==
  /\ Types /\ Unique /\ Rounds /\ Falling /\ Marked /\ Remembers /\ Away
  /\ FolderVisitsTrue /\ SweepSparesLinks

LEMMA RowsAt ==
  ASSUME NEW f \in Rows
  PROVE  DOMAIN f \subseteq Ids /\ f \in [DOMAIN f -> Row] /\ \A i \in DOMAIN f : f[i] \in Row
  BY DEF Rows

LEMMA InRows == ASSUME NEW S \in SUBSET Ids, NEW f \in [S -> Row] PROVE f \in Rows
  BY DEF Rows

LEMMA IdsFinite == \A S \in SUBSET Ids : IsFiniteSet(S) /\ Cardinality(S) \in Nat
<1>1. IsFiniteSet(Ids) BY LinksAssumption, FS_Interval DEF Ids
<1> QED BY <1>1, FS_Subset, FS_CardinalityType

LEMMA LeastId == ASSUME NEW S \in SUBSET Ids, S # {} PROVE Min(S) \in S
<1>1. Ids \subseteq Nat BY LinksAssumption DEF Ids
<1> QED BY <1>1, LeastNatural

\* The id after the highest one is an id, or there is none left.
LEMMA NextIsId ==
  ASSUME link \in Rows, NextId <= MaxLink
  PROVE  NextId \in Ids
<1>1. CASE DOMAIN link = {} BY <1>1, LinksAssumption DEF NextId, Ids
<1>2. CASE DOMAIN link # {}
  <2> DEFINE S == DOMAIN link
             Down == {MaxLink - i : i \in S}
  <2>0. S \subseteq Ids /\ S # {} /\ MaxLink \in Nat BY <1>2, RowsAt, LinksAssumption
  <2>1. Down \subseteq Nat /\ Down # {} BY <2>0 DEF Ids
  <2>2. Min(Down) \in Down /\ \A d \in Down : Min(Down) <= d BY <2>1, LeastNatural
  <2>3. PICK m \in S : Min(Down) = MaxLink - m BY <2>2
  <2>4. ASSUME NEW i \in S PROVE m >= i
    <3>1. MaxLink - m <= MaxLink - i BY <2>2, <2>3
    <3>2. i \in Nat /\ m \in Nat /\ MaxLink \in Nat BY <2>0 DEF Ids
    <3> QED BY <3>1, <3>2
  <2>5. Max(S) \in S BY <2>3, <2>4 DEF Max
  <2> QED BY <1>2, <2>0, <2>5 DEF NextId, Ids
<1> QED BY <1>1, <1>2

LEMMA ViewIs ==
  ASSUME at \in Trees, NEW p \in Paths
  PROVE  View(p) \in Identities /\ at[p] \in Identities /\ (View(p) # None => View(p) = at[p])
  BY TreeIs DEF View, Identities

LEMMA KindIs == \A item : KindOf(item) \in Kinds
  BY DEF KindOf, Kinds

LEMMA SpendTyped ==
  ASSUME left \in [{"create", "operate", "outside"} -> Nat],
         NEW k \in {"create", "operate", "outside"}, Spend(k)
  PROVE  left' \in [{"create", "operate", "outside"} -> Nat]
  BY DEF Spend

-----------------------------------------------------------------------------
(* What a step does to the rows.                                           *)

\* Rows go, or are revoked; and are marked.
Kept ==
  \A i \in DOMAIN link' :
    /\ i \in DOMAIN link
    /\ link'[i].path = link[i].path /\ link'[i].slug = link[i].slug
    /\ link'[i].live => link[i].live
SameMarks == \A i \in DOMAIN link' : i \in DOMAIN link /\ link'[i].broken = link[i].broken

LEMMA DroppedRows ==
  ASSUME link \in Rows, NEW S, link' = Dropped(S)
  PROVE  /\ link' \in Rows /\ Kept /\ SameMarks
         /\ \A i \in DOMAIN link' \cap S : ~link'[i].live
         /\ \A i \in DOMAIN link \ DOMAIN link' : link[i].slug = NoSlug
<1> DEFINE D == DOMAIN link \ {j \in S : link[j].slug = NoSlug}
           row(i) == IF i \in S THEN [link[i] EXCEPT !.live = FALSE] ELSE link[i]
<1>1. link' = [i \in D |-> row(i)] BY DEF Dropped
<1>2. D \subseteq DOMAIN link /\ DOMAIN link \subseteq Ids /\ \A i \in DOMAIN link : link[i] \in Row
  BY RowsAt
<1>4. ASSUME NEW i \in D
      PROVE  /\ row(i) \in Row /\ row(i).path = link[i].path /\ row(i).slug = link[i].slug
             /\ row(i).broken = link[i].broken /\ (row(i).live => link[i].live)
             /\ i \in S => ~row(i).live
  BY <1>2 DEF Row
<1> HIDE DEF row
<1>5. link' \in [D -> Row] BY <1>1, <1>4
<1>6. D \in SUBSET Ids BY <1>2
<1>7. link' \in Rows BY <1>5, <1>6, InRows
<1>8. DOMAIN link' = D /\ \A i \in D : link'[i] = row(i) BY <1>1
<1>9. Kept /\ SameMarks BY <1>2, <1>4, <1>8 DEF Kept, SameMarks
<1> QED BY <1>4, <1>7, <1>8, <1>9

LEMMA WithoutRows ==
  ASSUME link \in Rows, NEW S, link' = Without(S)
  PROVE  /\ link' \in Rows /\ Kept /\ SameMarks /\ DOMAIN link \ DOMAIN link' \subseteq S
<1>1. DOMAIN link \subseteq Ids /\ \A i \in DOMAIN link : link[i] \in Row BY RowsAt
<1>2. DOMAIN link \ S \in SUBSET Ids /\ link' \in [DOMAIN link \ S -> Row] BY <1>1 DEF Without
<1> QED BY <1>2, InRows DEF Without, Kept, SameMarks

LEMMA FallenRow ==
  ASSUME link \in Rows, NEW i, link' = [j \in DOMAIN link |->
           IF j = i THEN [link[j] EXCEPT !.live = FALSE] ELSE link[j]]
  PROVE  /\ link' \in Rows /\ Kept /\ SameMarks /\ DOMAIN link' = DOMAIN link
<1> DEFINE row(j) == IF j = i THEN [link[j] EXCEPT !.live = FALSE] ELSE link[j]
<1>1. DOMAIN link \subseteq Ids /\ \A j \in DOMAIN link : link[j] \in Row BY RowsAt
<1>2. ASSUME NEW j \in DOMAIN link
      PROVE  /\ row(j) \in Row /\ row(j).path = link[j].path /\ row(j).slug = link[j].slug
             /\ row(j).broken = link[j].broken /\ (row(j).live => link[j].live)
  BY <1>1 DEF Row
<1>3. link' = [j \in DOMAIN link |-> row(j)] OBVIOUS
<1> HIDE DEF row
<1>4. link' \in [DOMAIN link -> Row] BY <1>2, <1>3
<1> QED BY <1>1, <1>2, <1>3, <1>4, InRows DEF Kept, SameMarks

LEMMA MarkedRow ==
  ASSUME link \in Rows, NEW i \in DOMAIN link, NEW b \in {"no", "new", "old"},
         link' = [link EXCEPT ![i].broken = b]
  PROVE  /\ link' \in Rows /\ Kept /\ DOMAIN link' = DOMAIN link /\ link'[i].broken = b
         /\ \A j \in DOMAIN link \ {i} : link'[j] = link[j]
<1>1. DOMAIN link \subseteq Ids /\ \A j \in DOMAIN link : link[j] \in Row BY RowsAt
<1> DEFINE row == [link[i] EXCEPT !.broken = b]
<1>2. /\ row \in Row /\ row.path = link[i].path /\ row.slug = link[i].slug
      /\ row.broken = b /\ row.live = link[i].live
  BY <1>1 DEF Row
<1>3. link' = [j \in DOMAIN link |-> IF j = i THEN row ELSE link[j]] BY RowsAt
<1> HIDE DEF row
<1>4. link' \in [DOMAIN link -> Row] BY <1>1, <1>2, <1>3
<1> QED BY <1>1, <1>2, <1>3, <1>4, InRows DEF Kept

-----------------------------------------------------------------------------
(* Types are kept.                                                         *)

LEMMA CreationIs ==
  ASSUME Types, NEW c \in Creators, cr[c].pc # "idle"
  PROVE  /\ cr[c] \in Creation /\ cr[c].p \in Paths /\ cr[c].mode \in Modes
         /\ cr[c].slug \in Addresses /\ cr[c].made \in BOOLEAN
         /\ cr[c].pc \in {"item", "hash", "insert", "undo"}
         /\ cr[c].pc = "hash" => cr[c].kind \in Kinds
         /\ cr[c].pc = "insert" => cr[c].kind \in Kinds /\ cr[c].item \in Identities
<1>1. cr[c] \in Creation BY DEF Types, Idle
<1> QED BY <1>1 DEF Creation

LEMMA CreatesTyped ==
  ASSUME Types, NEW c \in Creators, NEW r \in Creation \cup {Idle}, cr' = [cr EXCEPT ![c] = r]
  PROVE  cr' \in [Creators -> Creation \cup {Idle}]
  BY DEF Types

LEMMA GiveUpTyped ==
  ASSUME Types, NEW c \in Creators, cr[c].pc \in {"item", "hash", "insert"}, GiveUp(c)
  PROVE  cr' \in [Creators -> Creation \cup {Idle}]
<1>1. cr[c] \in Creation BY CreationIs
<1>2. CASE cr[c].made
  <2>1. [cr[c] EXCEPT !.pc = "undo"] \in Creation
    <3>1. cr[c] \notin [pc : {"item"}, mode : Modes, p : Paths, slug : Addresses, made : {FALSE}]
      BY <1>2
    <3> QED BY <1>1, <3>1 DEF Creation
  <2>2. cr' = [cr EXCEPT ![c] = [cr[c] EXCEPT !.pc = "undo"]] BY <1>2 DEF GiveUp, Types
  <2> QED BY <2>1, <2>2, CreatesTyped
<1>3. CASE ~cr[c].made
  <2>1. cr' = [cr EXCEPT ![c] = Idle] BY <1>3 DEF GiveUp, Types
  <2> QED BY <2>1, CreatesTyped
<1> QED BY <1>2, <1>3

LEMMA HashTyped ==
  ASSUME Types, NEW c \in Creators, cr[c].pc = "item", NEW k \in Kinds, NEW b \in BOOLEAN,
         Hash(c, k, b)
  PROVE  cr' \in [Creators -> Creation \cup {Idle}]
<1> DEFINE r == [pc |-> "hash", mode |-> cr[c].mode, p |-> cr[c].p, slug |-> cr[c].slug,
                 made |-> b, kind |-> k]
<1>1. r \in Creation BY CreationIs DEF Creation
<1>2. cr' = [cr EXCEPT ![c] = r] BY DEF Hash
<1> QED BY <1>1, <1>2, CreatesTyped

\* The row a creation inserts, under an id that may have been another's.
LEMMA Inserts ==
  ASSUME Types, NEW c \in Creators, CreateInsert(c)
  PROVE  /\ NextId \in Ids /\ link' \in Rows
         /\ DOMAIN link' = DOMAIN link \cup {NextId}
         /\ \A j \in DOMAIN link' \ {NextId} : j \in DOMAIN link /\ link'[j] = link[j]
         /\ link'[NextId].slug = cr[c].slug /\ link'[NextId].broken = "no"
         /\ cr[c].slug \notin Held
<1> DEFINE i == NextId
           row == [path |-> cr[c].p, mode |-> cr[c].mode, kind |-> cr[c].kind,
                   item |-> cr[c].item, slug |-> cr[c].slug, live |-> TRUE, broken |-> "no"]
           D == DOMAIN link \cup {i}
<1>1. i \in Ids BY NextIsId DEF CreateInsert, Types
<1>2. row \in Row BY CreationIs DEF CreateInsert, Row, Addresses, Identities, Kinds
<1>3. DOMAIN link \subseteq Ids /\ \A j \in DOMAIN link : link[j] \in Row BY RowsAt DEF Types
<1>4. link' = [j \in D |-> IF j = i THEN row ELSE link[j]] BY DEF CreateInsert
<1>5. row.slug = cr[c].slug /\ row.broken = "no" OBVIOUS
<1> HIDE DEF i, row
<1>6. D \in SUBSET Ids /\ link' \in [D -> Row] BY <1>1, <1>2, <1>3, <1>4
<1>7. link' \in Rows BY <1>6, InRows
<1> QED BY <1>1, <1>4, <1>5, <1>7 DEF CreateInsert, i

LEMMA CreateTyped ==
  ASSUME Types, NEW c \in Creators,
         \/ CreateStart(c) \/ CreateFind(c) \/ CreateMkdir(c) \/ CreateRefuse(c)
         \/ CreateIdentify(c) \/ CreateInsert(c) \/ CreateConflict(c) \/ CreateUndo(c)
  PROVE  Types'
<1>1. CASE CreateStart(c)
  <2>1. PICK m \in Modes, p \in Paths, s \in (Slugs \ Held) \cup {NoSlug} :
          cr' = [cr EXCEPT ![c] = [pc |-> "item", mode |-> m, p |-> p, slug |-> s, made |-> FALSE]]
    BY <1>1 DEF CreateStart
  <2>2. [pc |-> "item", mode |-> m, p |-> p, slug |-> s, made |-> FALSE] \in Creation
    BY DEF Creation, Addresses
  <2>3. cr' \in [Creators -> Creation \cup {Idle}] BY <2>1, <2>2, CreatesTyped
  <2>4. left' \in [{"create", "operate", "outside"} -> Nat] BY <1>1, SpendTyped DEF CreateStart, Types
  <2> QED BY <1>1, <2>3, <2>4 DEF CreateStart, Types
<1>2. CASE CreateFind(c)
  <2>1. cr' \in [Creators -> Creation \cup {Idle}] BY <1>2, HashTyped, KindIs DEF CreateFind
  <2> QED BY <1>2, <2>1 DEF CreateFind, Types
<1>3. CASE CreateMkdir(c)
  <2>1. cr' \in [Creators -> Creation \cup {Idle}] BY <1>3, HashTyped DEF CreateMkdir, Kinds
  <2> DEFINE missing == {q \in Paths : IsPrefix(q, cr[c].p) /\ View(q) = None}
  <2>2. missing \in SUBSET Paths
        /\ \A q \in missing : at[q] = None /\ (IsDir(Front(q)) \/ Front(q) \in missing)
    BY <1>3 DEF CreateMkdir
  <2>3. PICK f \in [missing -> Fresh(Dirs)] :
          /\ IsInjective(f)
          /\ at' = [q \in Paths |-> IF q \in missing THEN f[q] ELSE at[q]]
    BY <1>3 DEF CreateMkdir
  <2> HIDE DEF missing
  <2>4. at' \in Trees BY <2>2, <2>3, MkdirTree DEF Types
  <2> QED BY <1>3, <2>1, <2>4 DEF CreateMkdir, Types
<1>4. CASE CreateRefuse(c)
  <2>1. cr' \in [Creators -> Creation \cup {Idle}] BY <1>4, GiveUpTyped DEF CreateRefuse
  <2> QED BY <1>4, <2>1 DEF CreateRefuse, Types
<1>5. CASE CreateIdentify(c)
  <2> DEFINE r == [pc |-> "insert", mode |-> cr[c].mode, p |-> cr[c].p, slug |-> cr[c].slug,
                   made |-> cr[c].made, kind |-> cr[c].kind, item |-> View(cr[c].p)]
  <2>1. cr[c].pc = "hash" BY <1>5 DEF CreateIdentify
  <2>2. View(cr[c].p) \in Identities BY <2>1, CreationIs, ViewIs DEF Types
  <2>3. r \in Creation BY <2>1, <2>2, CreationIs DEF Creation
  <2>4. cr' = [cr EXCEPT ![c] = r] BY <1>5 DEF CreateIdentify, Types
  <2> HIDE DEF r
  <2>5. cr' \in [Creators -> Creation \cup {Idle}] BY <2>3, <2>4, CreatesTyped
  <2> QED BY <1>5, <2>5 DEF CreateIdentify, Types
<1>6. CASE CreateInsert(c)
  <2>1. NextId \in Ids /\ link' \in Rows BY <1>6, Inserts
  <2>2. cr' \in [Creators -> Creation \cup {Idle}] BY <1>6, CreatesTyped DEF CreateInsert
  <2>3. op' \in Operation \cup {Idle} BY <1>6 DEF CreateInsert, Types, Operation, Idle
  <2>4. sw' \in Round \cup {Idle} BY <1>6 DEF CreateInsert, Types, Round, Idle
  <2> QED BY <1>6, <2>1, <2>2, <2>3, <2>4 DEF CreateInsert, Types
<1>7. CASE CreateConflict(c)
  <2>1. cr' \in [Creators -> Creation \cup {Idle}] BY <1>7, GiveUpTyped DEF CreateConflict
  <2> QED BY <1>7, <2>1 DEF CreateConflict, Types
<1>8. CASE CreateUndo(c)
  <2>1. cr' \in [Creators -> Creation \cup {Idle}] BY <1>8, CreatesTyped DEF CreateUndo
  <2>2. at' \in Trees BY <1>8, CreationIs, ClearedTree DEF CreateUndo, Types
  <2> QED BY <1>8, <2>1, <2>2 DEF CreateUndo, Types
<1> QED BY <1>1, <1>2, <1>3, <1>4, <1>5, <1>6, <1>7, <1>8

LEMMA OpIs ==
  ASSUME Types, op.pc # "idle"
  PROVE  op \in Operation /\ op.p \in Paths /\ op.was \subseteq Ids
         /\ op.pc \in {"drop", "remove", "end"}
  BY DEF Types, Idle, Operation

LEMMA LinksAreIds == ASSUME Types PROVE DOMAIN link \in SUBSET Ids /\ Live \in SUBSET Ids
  BY RowsAt DEF Types, Live

LEMMA OperateTyped ==
  ASSUME Types, DeleteStart \/ MoveStart \/ OpDrop \/ OpRemove \/ OpEnd \/ RevokeRead \/ RevokeEnd
  PROVE  Types'
<1>1. CASE DeleteStart
  <2>1. PICK p \in Paths : op' = [pc |-> "drop", kind |-> "delete", p |-> p, was |-> Live \cap LinksUnder(p)]
    BY <1>1 DEF DeleteStart
  <2>2. op' \in Operation BY <2>1, LinksAreIds DEF Operation
  <2>3. left' \in [{"create", "operate", "outside"} -> Nat] BY <1>1, SpendTyped DEF DeleteStart, Types
  <2> QED BY <1>1, <2>2, <2>3 DEF DeleteStart, Types
<1>2. CASE MoveStart
  <2>1. PICK p \in Paths, q \in Paths :
          /\ CanMove(p, q)
          /\ at' = IF p \in Under(q) THEN Cleared(at, q) ELSE Moved(p, q)
          /\ op' = [pc |-> IF p \in Under(q) THEN "end" ELSE "drop", kind |-> "move", p |-> p,
                    was |-> IF p \in Under(q) THEN {} ELSE Live \cap LinksUnder(p)]
    BY <1>2 DEF MoveStart
  <2>2. op' \in Operation BY <2>1, LinksAreIds DEF Operation
  <2>3. at' \in Trees BY <2>1, ClearedTree, MovedTree DEF Types
  <2>4. left' \in [{"create", "operate", "outside"} -> Nat] BY <1>2, SpendTyped DEF MoveStart, Types
  <2> QED BY <1>2, <2>2, <2>3, <2>4 DEF MoveStart, Types
<1>3. CASE OpDrop
  <2>1. link' \in Rows BY <1>3, DroppedRows DEF OpDrop, DropShares, Types
  <2>2. op' \in Operation BY <1>3, OpIs DEF OpDrop, Operation
  <2> QED BY <1>3, <2>1, <2>2 DEF OpDrop, Types
<1>4. CASE OpRemove
  <2>1. op' \in Operation BY <1>4, OpIs DEF OpRemove, Operation
  <2>2. at' \in Trees BY <1>4, OpIs, ClearedTree DEF OpRemove, Types
  <2> QED BY <1>4, <2>1, <2>2 DEF OpRemove, Types
<1>5. CASE OpEnd BY <1>5 DEF OpEnd, Types
<1>6. CASE RevokeRead
  <2>1. rev' \in Revocation BY <1>6, LinksAreIds DEF RevokeRead, Revocation
  <2>2. left' \in [{"create", "operate", "outside"} -> Nat] BY <1>6, SpendTyped DEF RevokeRead, Types
  <2> QED BY <1>6, <2>1, <2>2 DEF RevokeRead, Types
<1>7. CASE RevokeEnd
  <2>1. link' \in Rows BY <1>7, WithoutRows, FallenRow DEF RevokeEnd, Types
  <2> QED BY <1>7, <2>1 DEF RevokeEnd, Types
<1> QED BY <1>1, <1>2, <1>3, <1>4, <1>5, <1>6, <1>7

\* A link expires, or is revoked by its id.
LEMMA ExpiredRow ==
  ASSUME link \in Rows, NEW i \in DOMAIN link, link' = [link EXCEPT ![i].live = FALSE]
  PROVE  /\ link' \in Rows /\ Kept /\ SameMarks /\ DOMAIN link' = DOMAIN link
<1>1. link' = [j \in DOMAIN link |-> IF j = i THEN [link[j] EXCEPT !.live = FALSE] ELSE link[j]]
  BY RowsAt
<1> QED BY <1>1, FallenRow

LEMMA OutsideTyped ==
  ASSUME Types, Put \/ OutsideRemove \/ OutsideMove \/ Unmount \/ Mount \/ Lapse \/ Crash
                \/ \E i \in Ids : Ripen(i)
  PROVE  Types'
<1> USE DEF processes
<1>0. Spend("outside") => left' \in [{"create", "operate", "outside"} -> Nat] BY SpendTyped DEF Types
<1>1. CASE Put
  <2>1. PICK p \in Paths, item \in Fresh(Items) :
          at[p] = None /\ IsDir(Front(p)) /\ at' = [at EXCEPT ![p] = item]
    BY <1>1 DEF Put
  <2>2. at' \in Trees BY <2>1, PutTree DEF Types
  <2> QED BY <1>0, <1>1, <2>2 DEF Put, Types
<1>2. CASE OutsideRemove
  <2>1. at' \in Trees BY <1>2, ClearedTree DEF OutsideRemove, Types
  <2> QED BY <1>0, <1>2, <2>1 DEF OutsideRemove, Types
<1>3. CASE OutsideMove
  <2>1. at' \in Trees BY <1>3, MovedTree DEF OutsideMove, Types
  <2> QED BY <1>0, <1>3, <2>1 DEF OutsideMove, Types
<1>4. CASE Unmount BY <1>0, <1>4 DEF Unmount, Types
<1>5. CASE Mount
  <2>1. sw' \in Round \cup {Idle} BY <1>5 DEF Mount, Types, Round, Idle
  <2> QED BY <1>5, <2>1 DEF Mount, Types
<1>6. CASE Lapse
  <2>1. link' \in Rows BY <1>6, ExpiredRow DEF Lapse, Live, Types
  <2> QED BY <1>0, <1>6, <2>1 DEF Lapse, Types
<1>7. CASE Crash BY <1>0, <1>7 DEF Crash, Types
<1>8. ASSUME NEW i \in Ids, Ripen(i) PROVE Types'
  <2>1. link' \in Rows BY <1>8, MarkedRow DEF Ripen, Types
  <2> QED BY <1>8, <2>1 DEF Ripen, Types
<1> QED BY <1>1, <1>2, <1>3, <1>4, <1>5, <1>6, <1>7, <1>8

\* One row is looked at, and marked as it is found.
LEMMA LookAt ==
  ASSUME Types, Rounds, SweepLook, NEW i, i = Min(sw.todo)
  PROVE  /\ sw \in Round /\ i \in sw.todo /\ i \in DOMAIN sw.rows /\ sw.todo \subseteq Ids
         /\ link' \in Rows /\ Kept /\ DOMAIN link' = DOMAIN link
         /\ \A j \in DOMAIN link \ {i} : link'[j] = link[j]
         /\ Broken(sw.rows[i]) =>
              whole' = whole /\ (i \in DOMAIN link => link'[i].broken \in {link[i].broken, "new"})
         /\ ~Broken(sw.rows[i]) =>
              /\ whole' = whole \cup {i}
              /\ i \in DOMAIN link /\ sw.rows[i].broken # "no" => link'[i].broken = "no"
              /\ sw.rows[i].broken = "no" => link' = link
         /\ sw' = [sw EXCEPT !.todo = @ \ {i},
                             !.broken = IF Broken(sw.rows[i]) THEN @ \cup {i} ELSE @]
<1>1. sw \in Round /\ sw.todo \in SUBSET Ids /\ sw.todo # {}
  BY DEF SweepLook, Types, Idle, Round
<1>2. i \in sw.todo BY <1>1, LeastId
<1>3. i \in DOMAIN sw.rows BY <1>2 DEF Rounds, SweepLook
<1>4. Look(i) /\ sw' = [sw EXCEPT !.todo = @ \ {i},
                                 !.broken = IF Broken(sw.rows[i]) THEN @ \cup {i} ELSE @]
  BY DEF SweepLook
<1>5. link \in Rows BY DEF Types
<1>6. ASSUME link' = link
      PROVE  /\ link' \in Rows /\ Kept /\ DOMAIN link' = DOMAIN link
             /\ \A j \in DOMAIN link \ {i} : link'[j] = link[j]
  BY <1>5, <1>6 DEF Kept
<1>7. ASSUME NEW b \in {"no", "new", "old"}, link' = Mark(i, b)
      PROVE  /\ link' \in Rows /\ Kept /\ DOMAIN link' = DOMAIN link
             /\ \A j \in DOMAIN link \ {i} : link'[j] = link[j]
             /\ i \in DOMAIN link => link'[i].broken = b
  <2>1. CASE i \in DOMAIN link BY <1>5, <1>7, <2>1, MarkedRow DEF Mark
  <2>2. CASE i \notin DOMAIN link BY <1>6, <1>7, <2>2 DEF Mark
  <2> QED BY <2>1, <2>2
<1>8. CASE Broken(sw.rows[i])
  <2>1. whole' = whole /\ link' = IF sw.rows[i].broken = "no" THEN Mark(i, "new") ELSE link
    BY <1>4, <1>8 DEF Look
  <2> QED BY <1>1, <1>2, <1>3, <1>4, <1>6, <1>7, <1>8, <2>1
<1>9. CASE ~Broken(sw.rows[i])
  <2>1. whole' = whole \cup {i} /\ link' = IF sw.rows[i].broken # "no" THEN Mark(i, "no") ELSE link
    BY <1>4, <1>9 DEF Look
  <2> QED BY <1>1, <1>2, <1>3, <1>4, <1>6, <1>7, <1>9, <2>1
<1> QED BY <1>8, <1>9

\* One row of the list is revoked, or another that has its id.
LEMMA RevokeAt ==
  ASSUME Types, Rounds, SweepRevoke, NEW i, i = Min(sw.todo)
  PROVE  /\ sw \in Round /\ i \in sw.todo /\ i \in DOMAIN sw.rows
         /\ link' \in Rows /\ Kept /\ SameMarks
         /\ DOMAIN link \ DOMAIN link' \subseteq {i}
         /\ i \in DOMAIN link \ DOMAIN link' => sw.rows[i].slug = NoSlug
<1>1. sw \in Round /\ sw.todo \in SUBSET Ids /\ sw.todo # {}
  BY DEF SweepRevoke, Types, Rounds, Idle, Round
<1>2. i \in sw.todo BY <1>1, LeastId
<1>3. i \in DOMAIN sw.rows BY <1>2 DEF Rounds, SweepRevoke
<1>4. link \in Rows BY DEF Types
<1>5. CASE i \notin DOMAIN link
  <2>1. link' = link BY <1>5 DEF SweepRevoke
  <2> QED BY <1>1, <1>2, <1>3, <1>4, <2>1 DEF Kept, SameMarks
<1>6. CASE i \in DOMAIN link /\ sw.rows[i].slug = NoSlug
  <2>1. link' = Without({i}) BY <1>6 DEF SweepRevoke
  <2> QED BY <1>1, <1>2, <1>3, <1>4, <1>6, <2>1, WithoutRows
<1>7. CASE i \in DOMAIN link /\ sw.rows[i].slug # NoSlug
  <2>1. link' = [link EXCEPT ![i].live = FALSE] BY <1>7 DEF SweepRevoke
  <2> QED BY <1>1, <1>2, <1>3, <1>4, <1>7, <2>1, ExpiredRow
<1> QED BY <1>5, <1>6, <1>7

LEMMA SweepTyped ==
  ASSUME Types, Rounds, SweepList \/ SweepLook \/ SweepJudge \/ SweepRevoke
  PROVE  Types'
<1>1. CASE SweepList
  <2>1. [i \in Live |-> link[i]] \in Rows
    <3>1. [i \in Live |-> link[i]] \in [Live -> Row] BY RowsAt DEF Types, Live
    <3> QED BY <3>1, LinksAreIds, InRows
  <2>2. sw' \in Round BY <1>1, <2>1, LinksAreIds DEF SweepList, Round, Types
  <2> QED BY <1>1, <2>2 DEF SweepList, Types
<1>2. CASE SweepLook
  <2> DEFINE i == Min(sw.todo)
  <2>1. /\ sw \in Round /\ i \in sw.todo /\ sw.todo \subseteq Ids /\ link' \in Rows
        /\ whole' \in {whole, whole \cup {i}}
        /\ sw' = [sw EXCEPT !.todo = @ \ {i},
                            !.broken = IF Broken(sw.rows[i]) THEN @ \cup {i} ELSE @]
    BY <1>2, LookAt
  <2> HIDE DEF i
  <2>2. sw' \in Round /\ whole' \subseteq Ids BY <2>1 DEF Round, Types
  <2> QED BY <1>2, <2>1, <2>2 DEF SweepLook, Types
<1>3. CASE SweepJudge
  <2>1. sw \in Round BY <1>3 DEF SweepJudge, Types, Idle
  <2>2. Expired \subseteq sw.broken BY DEF Expired
  <2>3. sw' \in Round \cup {Idle} BY <1>3, <2>1, <2>2 DEF SweepJudge, Round
  <2> QED BY <1>3, <2>3 DEF SweepJudge, Types
<1>4. CASE SweepRevoke
  <2>1. sw \in Round /\ link' \in Rows BY <1>4, RevokeAt
  <2>2. sw' \in Round \cup {Idle} BY <1>4, <2>1 DEF SweepRevoke, Round
  <2> QED BY <1>4, <2>1, <2>2 DEF SweepRevoke, Types
<1> QED BY <1>1, <1>2, <1>3, <1>4

Visits ==
  \/ VisitResolve \/ VisitOpen \/ VisitInfo \/ VisitList \/ VisitContent \/ VisitZip
  \/ VisitServe \/ VisitEnd

LEMMA VisitTyped == ASSUME Types, Visits PROVE Types'
<1>1. CASE VisitResolve
  <2>1. \A i \in Live : link[i] \in Row BY RowsAt DEF Types, Live
  <2>2. vis' \in Visit BY <1>1, <2>1 DEF VisitResolve, Visit, Row, Identities, Kinds
  <2> QED BY <1>1, <2>2 DEF VisitResolve, Types
<1>2. CASE VisitOpen
  <2> DEFINE d == ShareDir(vis.row)
  <2>1. vis \in Visit BY <1>2 DEF VisitOpen, Types, Idle
  <2>2. (IF d = <<>> THEN None ELSE View(d)) \in Identities
    BY <1>2, FolderThere, ViewIs DEF VisitOpen, Identities, Types
  <2>3. vis' = [vis EXCEPT !.pc = "check", !.root = IF d = <<>> THEN None ELSE View(d)]
    BY <1>2 DEF VisitOpen
  <2> HIDE DEF d
  <2>4. vis' \in Visit BY <2>1, <2>2, <2>3 DEF Visit
  <2> QED BY <1>2, <2>4 DEF VisitOpen, Types
<1>3. CASE VisitInfo \/ VisitList \/ VisitContent \/ VisitZip \/ VisitServe
  <2>1. PICK pc \in {"wait", "serve"} : Goes(pc)
    BY <1>3 DEF VisitInfo, VisitList, VisitContent, VisitZip, VisitServe
  <2>2. vis \in Visit
    BY <1>3 DEF VisitInfo, VisitList, VisitContent, VisitZip, VisitServe, Admitted, Types, Idle
  <2>3. vis' \in Visit BY <2>1, <2>2 DEF Goes, Visit
  <2> QED BY <2>1, <2>3 DEF Goes, Types
<1>4. CASE VisitEnd BY <1>4 DEF VisitEnd, Types
<1> QED BY <1>1, <1>2, <1>3, <1>4 DEF Visits

-----------------------------------------------------------------------------
(* The other conjuncts. Most steps leave the round alone, and rows only    *)
(* fall.                                                                   *)

Creates(c) ==
  \/ CreateStart(c) \/ CreateFind(c) \/ CreateMkdir(c) \/ CreateRefuse(c)
  \/ CreateIdentify(c) \/ CreateConflict(c) \/ CreateUndo(c)
Operates == DeleteStart \/ MoveStart \/ OpDrop \/ OpRemove \/ OpEnd
Ends == RevokeRead \/ RevokeEnd
Changes == Put \/ OutsideRemove \/ OutsideMove \/ Unmount \/ Lapse
Sweeps == SweepList \/ SweepJudge \/ SweepRevoke

LEMMA NextSplits ==
  ASSUME [Next]_vars
  PROVE  \/ \E c \in Creators : Creates(c) \/ CreateInsert(c)
         \/ Operates \/ Ends \/ Changes \/ Mount \/ Crash \/ \E i \in Ids : Ripen(i)
         \/ Sweeps \/ SweepLook \/ Visits \/ UNCHANGED vars
  BY DEF Next, Creates, Operates, Ends, Changes, Sweeps, Visits

LEMMA StepTypes == ASSUME Types, Rounds, [Next]_vars PROVE Types'
<1>1. CASE UNCHANGED vars BY <1>1 DEF vars, Types
<1>2. CASE \E c \in Creators : Creates(c) \/ CreateInsert(c) BY <1>2, CreateTyped DEF Creates
<1>3. CASE Operates \/ Ends BY <1>3, OperateTyped DEF Operates, Ends
<1>4. CASE Changes \/ Mount \/ Crash \/ \E i \in Ids : Ripen(i) BY <1>4, OutsideTyped DEF Changes
<1>5. CASE Sweeps \/ SweepLook BY <1>5, SweepTyped DEF Sweeps
<1>6. CASE Visits BY <1>6, VisitTyped
<1> QED BY <1>1, <1>2, <1>3, <1>4, <1>5, <1>6, NextSplits

\* Three steps apart, no step adds or marks a row.
Falls == Kept /\ SameMarks /\ whole' = whole
LEMMA RowsFall ==
  ASSUME Types, Rounds, [Next]_vars
  PROVE  \/ \E c \in Creators : CreateInsert(c)
         \/ \E i \in Ids : Ripen(i)
         \/ SweepLook
         \/ Falls
<1> USE DEF Falls, processes
<1>0. link \in Rows /\ (link' = link => Kept /\ SameMarks) BY DEF Kept, SameMarks, Types
<1>1. ASSUME NEW c \in Creators, Creates(c) PROVE Falls
  BY <1>0, <1>1 DEF Creates, CreateStart, CreateFind, CreateMkdir, CreateRefuse, CreateIdentify,
       CreateConflict, CreateUndo
<1>2. CASE Operates
  <2>1. CASE OpDrop BY <1>0, <2>1, DroppedRows DEF OpDrop, DropShares
  <2>2. CASE ~OpDrop BY <1>0, <1>2, <2>2 DEF Operates, DeleteStart, MoveStart, OpRemove, OpEnd
  <2> QED BY <2>1, <2>2
<1>3. CASE RevokeRead BY <1>0, <1>3 DEF RevokeRead
<1>4. CASE RevokeEnd BY <1>0, <1>4, WithoutRows, FallenRow DEF RevokeEnd
<1>5. CASE Changes
  <2>1. CASE Lapse BY <1>0, <2>1, ExpiredRow DEF Lapse, Live
  <2>2. CASE ~Lapse BY <1>0, <1>5, <2>2 DEF Changes, Put, OutsideRemove, OutsideMove, Unmount
  <2> QED BY <2>1, <2>2
<1>6. CASE Mount \/ Crash BY <1>0, <1>6 DEF Mount, Crash
<1>7. CASE SweepList \/ SweepJudge BY <1>0, <1>7 DEF SweepList, SweepJudge
<1>8. CASE SweepRevoke
  <2>1. Kept /\ SameMarks BY <1>8, RevokeAt
  <2> QED BY <1>8, <2>1 DEF SweepRevoke
<1>9. CASE Visits
  BY <1>0, <1>9 DEF Visits, VisitResolve, VisitOpen, VisitInfo, VisitList, VisitContent, VisitZip,
       VisitServe, VisitEnd, Goes
<1>10. CASE UNCHANGED vars BY <1>0, <1>10 DEF vars
<1> QED BY <1>1, <1>2, <1>3, <1>4, <1>5, <1>6, <1>7, <1>8, <1>9, <1>10, NextSplits DEF Ends, Sweeps

LEMMA UniqueStep ==
  ASSUME Types, Rounds, Unique, [Next]_vars
  PROVE  Unique'
<1>1. ASSUME NEW c \in Creators, CreateInsert(c) PROVE Unique'
  <2>1. \A j \in DOMAIN link : link[j].slug # NoSlug => link[j].slug \in Held BY DEF Held
  <2> QED BY <1>1, <2>1, Inserts DEF Unique
<1>2. ASSUME Kept PROVE Unique' BY <1>2 DEF Unique, Kept
<1>3. ASSUME NEW i \in Ids, Ripen(i) PROVE Kept BY <1>3, MarkedRow DEF Ripen, Types
<1>4. CASE SweepLook BY <1>2, <1>4, LookAt
<1> QED BY <1>1, <1>2, <1>3, <1>4, RowsFall DEF Falls

\* What becomes of the round: it goes on as it was, or ends, or learns that the
\* disk came, or that an id has another row; or it takes a step.
LEMMA RoundMoves ==
  ASSUME [Next]_vars
  PROVE  \/ sw' = sw /\ (mounted' = mounted \/ ~mounted')
         \/ sw' = Idle
         \/ Mount
         \/ \E c \in Creators : CreateInsert(c)
         \/ Sweeps \/ SweepLook
<1> USE DEF processes
<1>1. ASSUME NEW c \in Creators, Creates(c) PROVE sw' = sw /\ mounted' = mounted
  BY <1>1 DEF Creates, CreateStart, CreateFind, CreateMkdir, CreateRefuse, CreateIdentify,
       CreateConflict, CreateUndo
<1>2. CASE Operates
  BY <1>2 DEF Operates, DeleteStart, MoveStart, OpDrop, OpRemove, OpEnd
<1>3. CASE Ends BY <1>3 DEF Ends, RevokeRead, RevokeEnd
<1>4. CASE Changes BY <1>4 DEF Changes, Put, OutsideRemove, OutsideMove, Unmount, Lapse
<1>5. CASE Crash BY <1>5 DEF Crash
<1>6. CASE \E i \in Ids : Ripen(i) BY <1>6 DEF Ripen
<1>7. CASE Visits
  BY <1>7 DEF Visits, VisitResolve, VisitOpen, VisitInfo, VisitList, VisitContent, VisitZip,
       VisitServe, VisitEnd, Goes
<1>8. CASE UNCHANGED vars BY <1>8 DEF vars
<1> QED BY <1>1, <1>2, <1>3, <1>4, <1>5, <1>6, <1>7, <1>8, NextSplits

\* A row under a new id, for a round that runs and one that does not.
LEMMA InsertsRound ==
  ASSUME Types, NEW c \in Creators, CreateInsert(c)
  PROVE  \/ sw.pc = "idle" /\ sw' = sw
         \/ /\ sw \in Round /\ sw' \in Round
            /\ sw'.same = sw.same \ {NextId}
            /\ sw'.pc = sw.pc /\ sw'.rows = sw.rows /\ sw'.todo = sw.todo
            /\ sw'.broken = sw.broken /\ sw'.away = sw.away
  BY DEF CreateInsert, Types, Round, Idle

LEMMA MountsRound ==
  ASSUME Types, Mount
  PROVE  \/ sw.pc = "idle" /\ sw' = sw
         \/ /\ sw \in Round /\ sw' \in Round /\ ~sw'.away
            /\ sw'.pc = sw.pc /\ sw'.rows = sw.rows /\ sw'.todo = sw.todo
            /\ sw'.broken = sw.broken /\ sw'.same = sw.same
<1>1. CASE sw.pc = "idle" BY <1>1 DEF Mount
<1>2. CASE sw.pc # "idle"
  <2>1. sw \in Round /\ sw' = [sw EXCEPT !.away = FALSE] BY <1>2 DEF Mount, Types, Idle
  <2> QED BY <2>1 DEF Round
<1> QED BY <1>1, <1>2

LEMMA ListsRound ==
  ASSUME SweepList
  PROVE  /\ sw'.pc = "look" /\ sw'.rows = [i \in Live |-> link[i]] /\ sw'.todo = Live
         /\ sw'.broken = {} /\ sw'.same = Live /\ sw'.away = ~mounted
         /\ UNCHANGED <<mounted, link, whole>>
  BY DEF SweepList

LEMMA LooksRound ==
  ASSUME Types, Rounds, SweepLook, NEW i, i = Min(sw.todo)
  PROVE  /\ sw.pc = "look" /\ sw'.pc = "look" /\ sw'.rows = sw.rows /\ sw'.todo = sw.todo \ {i}
         /\ sw'.broken = IF Broken(sw.rows[i]) THEN sw.broken \cup {i} ELSE sw.broken
         /\ sw'.same = sw.same /\ sw'.away = sw.away /\ mounted' = mounted
<1>1. /\ sw \in Round
      /\ sw' = [sw EXCEPT !.todo = @ \ {i},
                          !.broken = IF Broken(sw.rows[i]) THEN @ \cup {i} ELSE @]
  BY LookAt
<1> QED BY <1>1 DEF SweepLook, Round

LEMMA JudgesRound ==
  ASSUME Types, SweepJudge
  PROVE  /\ sw.pc = "look" /\ sw.todo = {} /\ sw \in Round
         /\ UNCHANGED <<mounted, link, whole>>
         /\ \/ sw' = Idle
            \/ /\ ~Mass /\ Expired # {}
               /\ sw'.pc = "revoke" /\ sw'.rows = sw.rows /\ sw'.todo = Expired
               /\ sw'.broken = sw.broken /\ sw'.same = sw.same /\ sw'.away = sw.away
<1>1. sw \in Round BY DEF SweepJudge, Types, Idle
<1> QED BY <1>1 DEF SweepJudge, Round

LEMMA RevokesRound ==
  ASSUME Types, SweepRevoke
  PROVE  /\ sw.pc = "revoke" /\ UNCHANGED <<mounted, whole>>
         /\ \/ sw' = Idle
            \/ /\ sw'.pc = "revoke" /\ sw'.rows = sw.rows /\ sw'.todo \subseteq sw.todo
               /\ sw.todo # {Min(sw.todo)} /\ sw'.todo = sw.todo \ {Min(sw.todo)}
               /\ sw'.broken = sw.broken /\ sw'.same = sw.same /\ sw'.away = sw.away
<1>1. sw \in Round BY DEF SweepRevoke, Types, Idle
<1> QED BY <1>1 DEF SweepRevoke, Round

LEMMA RoundsStep ==
  ASSUME Types, Rounds, [Next]_vars
  PROVE  Rounds'
<1>1. CASE sw' = sw BY <1>1 DEF Rounds
<1>2. CASE sw' = Idle BY <1>2 DEF Rounds, Idle
<1>3. CASE Mount BY <1>3, MountsRound DEF Rounds
<1>4. CASE \E c \in Creators : CreateInsert(c)
  <2>1. PICK c \in Creators : CreateInsert(c) BY <1>4
  <2> QED BY <2>1, InsertsRound DEF Rounds
<1>5. CASE SweepList BY <1>5, ListsRound DEF Rounds
<1>6. CASE SweepLook
  <2> DEFINE i == Min(sw.todo)
  <2>1. i \in DOMAIN sw.rows BY <1>6, LookAt
  <2>2. /\ sw.pc = "look" /\ sw'.pc = "look" /\ sw'.rows = sw.rows /\ sw'.todo = sw.todo \ {i}
        /\ sw'.broken = IF Broken(sw.rows[i]) THEN sw.broken \cup {i} ELSE sw.broken
        /\ sw'.same = sw.same
    BY <1>6, LooksRound
  <2> HIDE DEF i
  <2> QED BY <2>1, <2>2 DEF Rounds
<1>7. CASE SweepJudge BY <1>7, JudgesRound DEF Rounds, Idle, Expired
<1>8. CASE SweepRevoke
  <2>1. Min(sw.todo) \in sw.todo BY <1>8, RevokeAt
  <2> QED BY <1>8, <2>1, RevokesRound DEF Rounds, Idle
<1> QED BY <1>1, <1>2, <1>3, <1>4, <1>5, <1>6, <1>7, <1>8, RoundMoves DEF Sweeps

LEMMA OperationMoves ==
  ASSUME [Next]_vars
  PROVE  \/ op' = op \/ op' = Idle
         \/ \E c \in Creators : CreateInsert(c)
         \/ DeleteStart \/ MoveStart \/ OpDrop \/ OpRemove
<1> USE DEF processes
<1>1. ASSUME NEW c \in Creators, Creates(c) PROVE op' = op
  BY <1>1 DEF Creates, CreateStart, CreateFind, CreateMkdir, CreateRefuse, CreateIdentify,
       CreateConflict, CreateUndo
<1>2. CASE OpEnd BY <1>2 DEF OpEnd
<1>3. CASE Ends BY <1>3 DEF Ends, RevokeRead, RevokeEnd
<1>4. CASE Changes BY <1>4 DEF Changes, Put, OutsideRemove, OutsideMove, Unmount, Lapse
<1>5. CASE Mount \/ Crash BY <1>5 DEF Mount, Crash
<1>6. CASE \E i \in Ids : Ripen(i) BY <1>6 DEF Ripen
<1>7. CASE Sweeps \/ SweepLook BY <1>7 DEF Sweeps, SweepList, SweepLook, SweepJudge, SweepRevoke
<1>8. CASE Visits
  BY <1>8 DEF Visits, VisitResolve, VisitOpen, VisitInfo, VisitList, VisitContent, VisitZip,
       VisitServe, VisitEnd, Goes
<1>9. CASE UNCHANGED vars BY <1>9 DEF vars
<1> QED BY <1>1, <1>2, <1>3, <1>4, <1>5, <1>6, <1>7, <1>8, <1>9, NextSplits DEF Operates

LEMMA FallingStep ==
  ASSUME Types, Rounds, Falling, [Next]_vars
  PROVE  Falling'
<1>1. ASSUME NEW c \in Creators, CreateInsert(c) PROVE Falling'
  <2> DEFINE i == NextId
  <2>1. DOMAIN link' = DOMAIN link \cup {i}
        /\ \A j \in DOMAIN link' \ {i} : j \in DOMAIN link /\ link'[j] = link[j]
    BY <1>1, Inserts
  <2>2. \/ op.pc = "idle" /\ op' = op
        \/ op'.pc = op.pc /\ op'.p = op.p /\ op'.was = op.was \ {i}
    BY <1>1 DEF CreateInsert, Types, Operation, Idle
  <2> HIDE DEF i
  <2> QED BY <2>1, <2>2 DEF Falling, Live, Under
<1>2. ASSUME Kept, op' = op \/ op' = Idle PROVE Falling'
  BY <1>2 DEF Falling, Kept, Live, Under, Idle
<1>3. CASE DeleteStart
  <2>1. PICK p \in Paths : op' = [pc |-> "drop", kind |-> "delete", p |-> p, was |-> Live \cap LinksUnder(p)]
    BY <1>3 DEF DeleteStart
  <2>2. link' = link BY <1>3 DEF DeleteStart
  <2> QED BY <2>1, <2>2 DEF Falling, LinksUnder, Under
<1>4. CASE MoveStart
  <2>1. PICK p \in Paths, q \in Paths :
          op' = [pc |-> IF p \in Under(q) THEN "end" ELSE "drop", kind |-> "move", p |-> p,
                 was |-> IF p \in Under(q) THEN {} ELSE Live \cap LinksUnder(p)]
    BY <1>4 DEF MoveStart
  <2>2. link' = link BY <1>4 DEF MoveStart
  <2> QED BY <2>1, <2>2 DEF Falling, LinksUnder, Under
<1>5. CASE OpDrop
  <2>1. /\ Kept /\ \A i \in DOMAIN link' \cap LinksUnder(op.p) : ~link'[i].live
    BY <1>5, DroppedRows DEF OpDrop, DropShares, Types
  <2>2. op' = [op EXCEPT !.pc = IF op.kind = "delete" THEN "remove" ELSE "end"] /\ op \in Operation
    BY <1>5, OpIs DEF OpDrop
  <2>3. op'.was = op.was /\ op'.pc \in {"remove", "end"} BY <2>2 DEF Operation
  <2>4. ASSUME NEW i \in DOMAIN link', i \in op.was PROVE ~link'[i].live
    <3>1. i \in DOMAIN link BY <2>1 DEF Kept
    <3>2. i \in LinksUnder(op.p) BY <1>5, <2>4, <3>1 DEF Falling, LinksUnder, OpDrop
    <3> QED BY <2>1, <3>2
  <2> QED BY <2>3, <2>4 DEF Falling, Live
<1>6. CASE OpRemove
  <2>1. op'.was = op.was /\ op'.pc = "end" /\ link' = link /\ op.pc = "remove"
    BY <1>6, OpIs DEF OpRemove, Operation
  <2> QED BY <2>1 DEF Falling, Live
<1>7. ASSUME NEW i \in Ids, Ripen(i) PROVE Kept BY <1>7, MarkedRow DEF Ripen, Types
<1>8. CASE SweepLook BY <1>2, <1>8, LookAt DEF SweepLook
<1>9. ASSUME NEW i \in Ids, Ripen(i) PROVE Falling'
  <2>1. op' = op BY <1>9 DEF Ripen, processes
  <2> QED BY <1>2, <1>7, <1>9, <2>1
<1> QED BY <1>1, <1>2, <1>3, <1>4, <1>5, <1>6, <1>8, <1>9, RowsFall, OperationMoves DEF Falls

LEMMA MarkedStep ==
  ASSUME Types, Rounds, Marked, Remembers, [Next]_vars
  PROVE  Marked'
<1>1. ASSUME NEW c \in Creators, CreateInsert(c) PROVE Marked'
  <2>1. whole' = whole \cup {NextId} BY <1>1 DEF CreateInsert
  <2> QED BY <1>1, <2>1, Inserts DEF Marked
<1>2. ASSUME NEW i \in Ids, Ripen(i) PROVE Marked'
  <2>1. whole' = whole \ {i} BY <1>2 DEF Ripen
  <2>2. DOMAIN link' = DOMAIN link /\ \A j \in DOMAIN link \ {i} : link'[j] = link[j]
    BY <1>2, MarkedRow DEF Ripen, Types
  <2> QED BY <2>1, <2>2 DEF Marked
<1>3. CASE SweepLook
  <2> DEFINE i == Min(sw.todo)
  <2>1. /\ i \in sw.todo /\ DOMAIN link' = DOMAIN link
        /\ \A j \in DOMAIN link \ {i} : link'[j] = link[j]
        /\ Broken(sw.rows[i]) =>
             whole' = whole /\ (i \in DOMAIN link => link'[i].broken \in {link[i].broken, "new"})
        /\ ~Broken(sw.rows[i]) =>
             /\ whole' = whole \cup {i}
             /\ i \in DOMAIN link /\ sw.rows[i].broken # "no" => link'[i].broken = "no"
             /\ sw.rows[i].broken = "no" => link' = link
    BY <1>3, LookAt
  <2>2. i \in DOMAIN link /\ sw.rows[i].broken = "no" => link[i].broken = "no"
    BY <1>3, <2>1 DEF Remembers, SweepLook
  <2> HIDE DEF i
  <2> QED BY <2>1, <2>2 DEF Marked
<1>4. CASE Falls BY <1>4 DEF Falls, Marked, SameMarks
<1> QED BY <1>1, <1>2, <1>3, <1>4, RowsFall

LEMMA RemembersStep ==
  ASSUME Types, Rounds, Marked, Remembers, [Next]_vars
  PROVE  Remembers'
<1>1. ASSUME NEW c \in Creators, CreateInsert(c) PROVE Remembers'
  <2>1. whole' = whole \cup {NextId} BY <1>1 DEF CreateInsert
  <2> QED BY <1>1, <2>1, Inserts, InsertsRound DEF Remembers
<1>2. ASSUME NEW i \in Ids, Ripen(i) PROVE Remembers'
  <2>1. whole' = whole \ {i} /\ sw' = sw /\ link[i].broken = "new"
    BY <1>2 DEF Ripen, processes
  <2>2. DOMAIN link' = DOMAIN link /\ (\A j \in DOMAIN link \ {i} : link'[j] = link[j]) /\ Kept
    BY <1>2, MarkedRow DEF Ripen, Types
  <2> QED BY <2>1, <2>2 DEF Remembers, Kept
<1>3. CASE SweepLook
  <2> DEFINE i == Min(sw.todo)
  <2>1. /\ i \in sw.todo /\ DOMAIN link' = DOMAIN link /\ Kept
        /\ \A j \in DOMAIN link \ {i} : link'[j] = link[j]
        /\ Broken(sw.rows[i]) => whole' = whole
        /\ ~Broken(sw.rows[i]) => whole' = whole \cup {i}
    BY <1>3, LookAt
  <2>2. /\ sw.pc = "look" /\ sw'.pc = "look" /\ sw'.rows = sw.rows /\ sw'.todo = sw.todo \ {i}
        /\ sw'.broken = IF Broken(sw.rows[i]) THEN sw.broken \cup {i} ELSE sw.broken
        /\ sw'.same = sw.same
    BY <1>3, LooksRound
  <2> HIDE DEF i
  <2>3. sw.todo \cap sw.broken = {} BY <2>2 DEF Rounds
  <2> QED BY <2>1, <2>2, <2>3 DEF Remembers, Kept
<1>4. CASE Falls
  <2>1. CASE sw' = sw BY <1>4, <2>1 DEF Falls, Remembers, Kept, SameMarks
  <2>2. CASE sw' = Idle BY <2>2 DEF Remembers, Idle
  <2>3. CASE Mount BY <1>4, <2>3, MountsRound DEF Falls, Remembers, Kept, SameMarks
  <2>4. CASE SweepList BY <2>4, ListsRound DEF Remembers, Marked, Live
  <2>5. CASE SweepJudge BY <2>5, JudgesRound DEF Remembers, Idle
  <2>6. CASE SweepRevoke BY <1>4, <2>6, RevokesRound DEF Remembers, Idle, Falls, Kept
  <2> QED BY <1>1, <1>3, <2>1, <2>2, <2>3, <2>4, <2>5, <2>6, RoundMoves DEF Sweeps
<1> QED BY <1>1, <1>2, <1>3, <1>4, RowsFall

LEMMA AwayStep ==
  ASSUME Types, Rounds, Away, [Next]_vars
  PROVE  Away'
<1>0. ASSUME NEW p PROVE (p \in Under(Disk))' <=> p \in Under(Disk) BY DEF Under
<1>1. CASE sw' = sw /\ (mounted' = mounted \/ ~mounted') BY <1>0, <1>1 DEF Away
<1>2. CASE sw' = Idle BY <1>2 DEF Away, Idle
<1>3. CASE Mount BY <1>3, MountsRound DEF Away
<1>4. CASE \E c \in Creators : CreateInsert(c)
  <2>1. PICK c \in Creators : CreateInsert(c) BY <1>4
  <2>2. mounted' = mounted BY <2>1 DEF CreateInsert
  <2> QED BY <1>0, <2>1, <2>2, InsertsRound DEF Away
<1>5. CASE SweepList BY <1>5, ListsRound DEF Away
<1>6. CASE SweepLook
  <2> DEFINE i == Min(sw.todo)
  <2>1. /\ sw.pc = "look" /\ sw'.pc = "look" /\ sw'.rows = sw.rows /\ sw'.todo = sw.todo \ {i}
        /\ sw'.broken = IF Broken(sw.rows[i]) THEN sw.broken \cup {i} ELSE sw.broken
        /\ sw'.away = sw.away /\ mounted' = mounted
    BY <1>6, LooksRound
  <2> HIDE DEF i
  <2>2. ~mounted /\ sw.rows[i].path \in Under(Disk) => Broken(sw.rows[i])
    BY DEF Broken, View, Under
  <2> QED BY <1>0, <2>1, <2>2 DEF Away
<1>7. CASE SweepJudge BY <1>7, JudgesRound DEF Away, Idle
<1>8. CASE SweepRevoke BY <1>8, RevokesRound DEF Away, Idle
<1> QED BY <1>1, <1>2, <1>3, <1>4, <1>5, <1>6, <1>7, <1>8, RoundMoves DEF Sweeps

\* What becomes of a visitor's request.
LEMMA VisitMoves ==
  ASSUME [Next]_vars
  PROVE  vis' = vis \/ vis' = Idle \/ Visits
<1> USE DEF processes
<1>1. ASSUME NEW c \in Creators, Creates(c) \/ CreateInsert(c) PROVE vis' = vis
  BY <1>1 DEF Creates, CreateStart, CreateFind, CreateMkdir, CreateRefuse, CreateIdentify,
       CreateInsert, CreateConflict, CreateUndo
<1>2. CASE Operates \/ Ends
  BY <1>2 DEF Operates, DeleteStart, MoveStart, OpDrop, OpRemove, OpEnd, Ends, RevokeRead, RevokeEnd
<1>3. CASE Changes BY <1>3 DEF Changes, Put, OutsideRemove, OutsideMove, Unmount, Lapse
<1>4. CASE Mount \/ Crash BY <1>4 DEF Mount, Crash
<1>5. CASE \E i \in Ids : Ripen(i) BY <1>5 DEF Ripen
<1>6. CASE Sweeps \/ SweepLook BY <1>6 DEF Sweeps, SweepList, SweepLook, SweepJudge, SweepRevoke
<1>7. CASE UNCHANGED vars BY <1>7 DEF vars
<1> QED BY <1>1, <1>2, <1>3, <1>4, <1>5, <1>6, <1>7, NextSplits

LEMMA VisitsStep ==
  ASSUME Types, FolderVisitsTrue, [Next]_vars
  PROVE  FolderVisitsTrue'
<1>1. CASE vis' = vis BY <1>1 DEF FolderVisitsTrue
<1>2. CASE vis' = Idle BY <1>2 DEF FolderVisitsTrue, Idle
<1>3. CASE VisitResolve BY <1>3 DEF VisitResolve, FolderVisitsTrue
<1>4. CASE VisitOpen
  <2>1. vis \in Visit BY <1>4 DEF VisitOpen, Types, Idle
  <2>2. vis'.pc = "check" BY <1>4, <2>1 DEF VisitOpen, Visit
  <2> QED BY <2>2 DEF FolderVisitsTrue
<1>5. ASSUME vis.pc # "idle", NEW pc \in {"wait", "serve"}, Goes(pc)
      PROVE  vis'.row = vis.row /\ vis'.root = vis.root
  <2>1. vis \in Visit BY <1>5 DEF Types, Idle
  <2> QED BY <1>5, <2>1 DEF Goes, Visit
<1>6. CASE VisitInfo \/ VisitList \/ VisitContent \/ VisitZip
  <2>1. Admitted BY <1>6 DEF VisitInfo, VisitList, VisitContent, VisitZip
  <2>2. PICK pc \in {"wait", "serve"} : Goes(pc)
    BY <1>6 DEF VisitInfo, VisitList, VisitContent, VisitZip
  <2>3. vis'.row = vis.row /\ vis'.root = vis.root BY <1>5, <2>1, <2>2 DEF Admitted
  <2>4. vis.row.kind = "dir" /\ vis.row.item # None => vis.root = vis.row.item
    BY <2>1 DEF Admitted, Target
  <2> QED BY <2>3, <2>4 DEF FolderVisitsTrue
<1>7. CASE VisitServe
  <2>1. vis.pc = "wait" /\ Goes("serve") BY <1>7 DEF VisitServe
  <2>2. vis'.row = vis.row /\ vis'.root = vis.root BY <1>5, <2>1
  <2> QED BY <2>1, <2>2 DEF FolderVisitsTrue
<1>8. CASE VisitEnd BY <1>2, <1>8 DEF VisitEnd
<1> QED BY <1>1, <1>2, <1>3, <1>4, <1>6, <1>7, <1>8, VisitMoves DEF Visits

-----------------------------------------------------------------------------
(* What a round revokes, in two parts.                                     *)

Lost == {i \in DOMAIN sw.rows : sw.rows[i].path \in Under(Disk)}
Few(S) == Cardinality(S) < MassMin \/ 2 * Cardinality(S) <= Cardinality(DOMAIN sw.rows)
SparesWhole == sw.pc = "revoke" => sw.todo \cap sw.same \cap whole = {}
SparesAway == sw.pc = "revoke" /\ sw.away => Few(Lost)

LEMMA Spares ==
  /\ SweepSparesLinks <=> SparesWhole /\ SparesAway
  /\ SweepSparesLinks' <=> SparesWhole' /\ SparesAway'
  BY DEF SweepSparesLinks, SparesWhole, SparesAway, Few, Lost

\* Of few links, a part is few.
LEMMA FewIsFewer ==
  ASSUME sw \in Round, NEW S \in SUBSET Ids, NEW T \in SUBSET S, Few(S)
  PROVE  Few(T)
<1>1. IsFiniteSet(S) /\ Cardinality(S) \in Nat /\ Cardinality(T) \in Nat
  <2>1. T \in SUBSET Ids OBVIOUS
  <2> QED BY <2>1, IdsFinite
<1>2. Cardinality(T) <= Cardinality(S) BY <1>1, FS_Subset
<1>3. Cardinality(DOMAIN sw.rows) \in Nat
  <2>1. DOMAIN sw.rows \in SUBSET Ids BY RowsAt DEF Round
  <2> QED BY <2>1, IdsFinite
<1>4. MassMin \in Nat BY LinksAssumption
<1> QED BY <1>1, <1>2, <1>3, <1>4 DEF Few

LEMMA WholeStep ==
  ASSUME Types, Rounds, Remembers, SparesWhole, [Next]_vars
  PROVE  SparesWhole'
<1>1. ASSUME NEW c \in Creators, CreateInsert(c) PROVE SparesWhole'
  <2>1. whole' = whole \cup {NextId} BY <1>1 DEF CreateInsert
  <2> QED BY <1>1, <2>1, InsertsRound DEF SparesWhole
<1>2. CASE SweepLook
  <2>1. sw'.pc = "look" BY <1>2, LooksRound
  <2> QED BY <2>1 DEF SparesWhole
<1>3. ASSUME whole' \subseteq whole PROVE SparesWhole'
  <2>1. CASE sw' = sw BY <1>3, <2>1 DEF SparesWhole
  <2>2. CASE sw' = Idle BY <2>2 DEF SparesWhole, Idle
  <2>3. CASE Mount BY <1>3, <2>3, MountsRound DEF SparesWhole
  <2>4. CASE SweepList BY <2>4, ListsRound DEF SparesWhole
  <2>5. CASE SweepJudge BY <2>2, <2>5, JudgesRound DEF SparesWhole, Remembers, Expired
  <2>6. CASE SweepRevoke BY <2>2, <2>6, RevokesRound DEF SparesWhole
  <2> QED BY <1>1, <1>2, <2>1, <2>2, <2>3, <2>4, <2>5, <2>6, RoundMoves DEF Sweeps
<1>4. ASSUME NEW i \in Ids, Ripen(i) PROVE whole' \subseteq whole BY <1>4 DEF Ripen
<1> QED BY <1>1, <1>2, <1>3, <1>4, RowsFall DEF Falls

LEMMA SparesAwayStep ==
  ASSUME Types, Rounds, Away, SparesAway, [Next]_vars
  PROVE  SparesAway'
<1>1. CASE sw' = sw BY <1>1 DEF SparesAway, Few, Lost, Under
<1>2. CASE sw' = Idle BY <1>2 DEF SparesAway, Idle
<1>3. CASE Mount BY <1>3, MountsRound DEF SparesAway
<1>4. CASE \E c \in Creators : CreateInsert(c)
  <2>1. PICK c \in Creators : CreateInsert(c) BY <1>4
  <2>2. CASE sw.pc = "idle" /\ sw' = sw BY <1>1, <2>2
  <2>3. CASE sw'.pc = sw.pc /\ sw'.rows = sw.rows /\ sw'.away = sw.away
    BY <2>3 DEF SparesAway, Few, Lost, Under
  <2> QED BY <2>1, <2>2, <2>3, InsertsRound
<1>5. CASE SweepList BY <1>5, ListsRound DEF SparesAway
<1>6. CASE SweepLook
  <2>1. sw'.pc = "look" BY <1>6, LooksRound
  <2> QED BY <2>1 DEF SparesAway
<1>7. CASE SweepJudge
  <2>0. sw.pc = "look" /\ sw.todo = {} /\ sw \in Round BY <1>7, JudgesRound
  <2> SUFFICES ASSUME ~Mass, sw'.rows = sw.rows, sw'.away = sw.away, sw'.away
               PROVE  Few(Lost)'
    BY <1>2, <1>7, JudgesRound DEF SparesAway
  <2>1. Lost \subseteq sw.broken BY <2>0 DEF Away, Lost
  <2>2. sw.broken \in SUBSET Ids BY <2>0 DEF Round
  <2>3. Few(sw.broken)
    <3>1. Cardinality(sw.broken) \in Nat BY <2>2, IdsFinite
    <3>2. Cardinality(DOMAIN sw.rows) \in Nat
      <4>1. DOMAIN sw.rows \in SUBSET Ids BY <2>0, RowsAt DEF Round
      <4> QED BY <4>1, IdsFinite
    <3>3. MassMin \in Nat BY LinksAssumption
    <3> QED BY <3>1, <3>2, <3>3 DEF Few, Mass
  <2>4. Few(Lost) BY <2>0, <2>1, <2>2, <2>3, FewIsFewer
  <2> QED BY <2>4 DEF Few, Lost, Under
<1>8. CASE SweepRevoke
  <2>1. CASE sw' = Idle BY <1>2, <2>1
  <2>2. CASE sw'.pc = "revoke" /\ sw'.rows = sw.rows /\ sw'.away = sw.away
    <3>1. sw.pc = "revoke" BY <1>8, RevokesRound
    <3> QED BY <2>2, <3>1 DEF SparesAway, Few, Lost, Under
  <2> QED BY <1>8, <2>1, <2>2, RevokesRound
<1> QED BY <1>1, <1>2, <1>3, <1>4, <1>5, <1>6, <1>7, <1>8, RoundMoves DEF Sweeps

-----------------------------------------------------------------------------
(* The invariant, and what it shows.                                       *)

LEMMA InitIInv == ASSUME Init PROVE IInv
<1>1. DOMAIN link = {} /\ link \in Rows
  <2>1. link = <<>> BY DEF Init
  <2>2. DOMAIN link = {} BY <2>1
  <2>3. link \in [{} -> Row] BY <2>1, <2>2
  <2> QED BY <2>2, <2>3, InRows
<1>2. cr \in [Creators -> Creation \cup {Idle}] BY DEF Init
<1>3. Types BY <1>1, <1>2, BudgetAssumption DEF Init, Types
<1>4. op.pc = "idle" /\ sw.pc = "idle" /\ vis.pc = "idle" BY DEF Init, Idle
<1> QED BY <1>1, <1>3, <1>4
        DEF IInv, Unique, Rounds, Falling, Marked, Remembers, Away, FolderVisitsTrue, SweepSparesLinks

LEMMA StepIInv == ASSUME IInv, [Next]_vars PROVE IInv'
<1> USE DEF IInv
<1>1. Types' BY StepTypes
<1>2. Unique' BY UniqueStep
<1>3. Rounds' BY RoundsStep
<1>4. Falling' BY FallingStep
<1>5. Marked' /\ Remembers' BY MarkedStep, RemembersStep
<1>6. Away' BY AwayStep
<1>7. FolderVisitsTrue' BY VisitsStep
<1>8. SweepSparesLinks' BY Spares, WholeStep, SparesAwayStep
<1> QED BY <1>1, <1>2, <1>3, <1>4, <1>5, <1>6, <1>7, <1>8

LEMMA Invariant == Spec => []IInv
<1>1. Init => IInv BY InitIInv
<1>2. IInv /\ [Next]_vars => IInv' BY StepIInv
<1> QED BY <1>1, <1>2, PTL DEF Spec

LEMMA TypesHold == ASSUME Types, Unique, Rounds PROVE TypeOK
<1>1. at \in Trees /\ mounted \in BOOLEAN /\ whole \subseteq Ids
      /\ left \in [{"create", "operate", "outside"} -> Nat]
  BY DEF Types
<1>2. DOMAIN link \subseteq Ids /\ \A i \in DOMAIN link : link[i] \in Row BY RowsAt DEF Types
<1>3. \A c \in Creators : cr[c].pc \in {"idle", "item", "hash", "insert", "undo"} BY CreationIs
<1>4. op.pc \in {"idle", "drop", "remove", "end"} BY OpIs
<1>5. sw.pc \in {"idle", "look", "revoke"} BY DEF Types, Round, Idle
<1>6. /\ vis.pc \in {"idle", "open", "check", "wait", "serve"}
      /\ vis.pc # "idle" => vis.row.path \in Paths /\ vis.root \in Items \cup {None}
  BY DEF Types, Visit, Identities, Idle
<1>7. rev.pc \in {"idle", "end"} BY DEF Types, Revocation, Idle
<1>8. /\ sw.pc # "idle" => sw.todo \cup sw.broken \subseteq DOMAIN sw.rows
      /\ sw.pc = "revoke" => sw.todo # {}
  BY DEF Rounds
<1> QED BY <1>1, <1>2, <1>3, <1>4, <1>5, <1>6, <1>7, <1>8 DEF TypeOK, Unique

\* handleDelete, handleRename, handleMove: whatever runs beside it, a request
\* that has ended the links of its item leaves none live of those it found
\* there; and the disk stays a tree, and a slug the address of one link.
THEOREM LinksFall == Spec => []LinksFallWithItem
<1>1. IInv => LinksFallWithItem BY TypesHold DEF IInv, Falling, LinksFallWithItem
<1> QED BY <1>1, Invariant, PTL

\* shareRoot: the identity a link knows is compared with the folder that is
\* open, so a visit to a shared folder shows that folder wherever it goes.
THEOREM VisitsShowTheirFolder == Spec => []FolderVisitsTrue
<1>1. IInv => FolderVisitsTrue BY DEF IInv
<1> QED BY <1>1, Invariant, PTL

\* sweepBrokenShares: a disk that is away for a whole round with most links
\* takes none with it, and a link found in its place keeps its day of grace.
THEOREM SweepsSpareLinks == Spec => []SweepSparesLinks
<1>1. IInv => SweepSparesLinks BY DEF IInv
<1> QED BY <1>1, Invariant, PTL

-----------------------------------------------------------------------------
\* The steps that take rows away.
LEMMA RowsGo ==
  ASSUME Types, Rounds, [Next]_vars
  PROVE  OpDrop \/ RevokeEnd \/ SweepRevoke \/ DOMAIN link \ DOMAIN link' = {}
<1> USE DEF processes
<1>1. ASSUME NEW c \in Creators, Creates(c) PROVE link' = link
  BY <1>1 DEF Creates, CreateStart, CreateFind, CreateMkdir, CreateRefuse, CreateIdentify,
       CreateConflict, CreateUndo
<1>2. ASSUME NEW c \in Creators, CreateInsert(c) PROVE DOMAIN link \ DOMAIN link' = {}
  BY <1>2, Inserts
<1>3. CASE Operates /\ ~OpDrop BY <1>3 DEF Operates, DeleteStart, MoveStart, OpRemove, OpEnd
<1>4. CASE RevokeRead BY <1>4 DEF RevokeRead
<1>5. CASE Changes
  <2>1. CASE Lapse BY <2>1, ExpiredRow DEF Lapse, Live, Types
  <2>2. CASE ~Lapse BY <1>5, <2>2 DEF Changes, Put, OutsideRemove, OutsideMove, Unmount
  <2> QED BY <2>1, <2>2
<1>6. CASE Mount \/ Crash BY <1>6 DEF Mount, Crash
<1>7. ASSUME NEW i \in Ids, Ripen(i) PROVE DOMAIN link' = DOMAIN link
  BY <1>7, MarkedRow DEF Ripen, Types
<1>8. CASE SweepList \/ SweepJudge BY <1>8 DEF SweepList, SweepJudge
<1>9. CASE SweepLook BY <1>9, LookAt
<1>10. CASE Visits
  BY <1>10 DEF Visits, VisitResolve, VisitOpen, VisitInfo, VisitList, VisitContent, VisitZip,
       VisitServe, VisitEnd, Goes
<1>11. CASE UNCHANGED vars BY <1>11 DEF vars
<1> QED BY <1>1, <1>2, <1>3, <1>4, <1>5, <1>6, <1>7, <1>8, <1>9, <1>10, <1>11, NextSplits
        DEF Operates, Ends, Sweeps

SlugStays ==
  \A i \in DOMAIN link \ DOMAIN link' :
    \/ link[i].slug = NoSlug
    \/ rev.pc = "end" /\ rev.purge /\ rev.id = i
    \/ sw.pc = "revoke" /\ i \notin sw.same

\* DropShare and DeleteSharesUnder keep the row of a link with a slug, by what
\* the table says of the slug or, for the maintenance, by what its list says;
\* so only the owner's purge frees an address.
THEOREM SlugsAreKept == Spec => SlugsStayReserved
<1>1. ASSUME IInv, [Next]_vars PROVE SlugStays
  <2>1. link \in Rows /\ Types /\ Rounds BY <1>1 DEF IInv, Types
  <2>2. CASE OpDrop BY <2>1, <2>2, DroppedRows DEF OpDrop, DropShares, SlugStays
  <2>3. CASE RevokeEnd
    <3>1. CASE rev.purge BY <2>1, <2>3, <3>1, WithoutRows DEF RevokeEnd, SlugStays
    <3>2. CASE ~rev.purge BY <2>1, <2>3, <3>2, FallenRow DEF RevokeEnd, SlugStays
    <3> QED BY <3>1, <3>2
  <2>4. CASE SweepRevoke
    <3> DEFINE k == Min(sw.todo)
    <3>1. /\ DOMAIN link \ DOMAIN link' \subseteq {k}
          /\ k \in DOMAIN link \ DOMAIN link' => sw.rows[k].slug = NoSlug
      BY <2>1, <2>4, RevokeAt
    <3>2. sw.pc = "revoke" BY <2>4 DEF SweepRevoke
    <3> HIDE DEF k
    <3>3. \A i \in sw.same \cap DOMAIN link : link[i].slug = sw.rows[i].slug
      BY <1>1, <3>2 DEF IInv, Remembers
    <3> QED BY <3>1, <3>2, <3>3 DEF SlugStays
  <2> QED BY <1>1, <2>1, <2>2, <2>3, <2>4, RowsGo DEF SlugStays
<1>2. IInv /\ [Next]_vars => [SlugStays]_vars BY <1>1
<1> QED BY <1>2, Invariant, PTL DEF Spec, SlugsStayReserved, SlugStays
=============================================================================
