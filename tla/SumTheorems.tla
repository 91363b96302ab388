---------------------------- MODULE SumTheorems -----------------------------
(***************************************************************************)
(* Facts about MapThenSumSet of the community modules, for sums of a       *)
(* function with natural values over a finite set. UploadSessions and      *)
(* DropLink add up declared sizes with it. And a fact about Min.           *)
(*                                                                         *)
(* Every induction is over the subsets of a finite set: a claim that fails *)
(* for some subset fails for one that has no smaller counterexample.       *)
(***************************************************************************)
EXTENDS Integers, FiniteSets, FiniteSetsExt, FiniteSetTheorems, WellFoundedInduction, TLAPS

\* The element that a sum over s takes first, and the function that the
\* definition of MapThenFoldSet describes.
Chosen(s) == CHOOSE x \in s : TRUE
IsFold(g, h, S) ==
  g = [s \in SUBSET S |-> IF s = {} THEN 0 ELSE h[Chosen(s)] + g[s \ {Chosen(s)}]]
\* The sum of h over S.
SumOver(h, S) == MapThenSumSet(LAMBDA s : h[s], S)

\* A sum is what some such function says of the whole set.
LEMMA SumIsFold ==
  ASSUME NEW h, NEW S
  PROVE  SumOver(h, S) = (CHOOSE g : IsFold(g, h, S))[S]
  BY Zenon DEF SumOver, MapThenSumSet, MapThenFoldSet, IsFold, Chosen

\* Among subsets of a finite set, some set of any collection is a smallest one.
LEMMA Smallest ==
  ASSUME NEW S, IsFiniteSet(S), NEW T \in SUBSET (SUBSET S), T # {}
  PROVE  \E x \in T : \A y \in T : ~(y \subseteq x /\ y # x)
<1>1. IsWellFoundedOn(StrictSubsetOrdering(S), SUBSET S)
  BY FS_StrictSubsetOrderingWellFounded, FS_FiniteSubsetsOfFinite, Zenon
<1>2. PICK x \in T : \A y \in T : <<y, x>> \notin StrictSubsetOrdering(S)
  BY <1>1, WFMin, Zenon
<1> QED BY <1>2 DEF StrictSubsetOrdering

\* Some numbers have a least one.
LEMMA LeastNatural ==
  ASSUME NEW N, N \subseteq Nat, NEW S \in SUBSET N, S # {}
  PROVE  Min(S) \in S /\ \A y \in S : Min(S) <= y
<1>1. IsWellFoundedOn({ss \in Nat \X Nat : ss[1] < ss[2]}, Nat)
  BY NatLessThanWellFounded DEF OpToRel
<1>2. PICK x \in S : \A y \in S : ~(<<y, x>> \in {ss \in Nat \X Nat : ss[1] < ss[2]})
  BY <1>1, WFMin
<1>3. ASSUME NEW y \in S PROVE x <= y
  <2>1. x \in Nat /\ y \in Nat OBVIOUS
  <2>2. ~(y < x) BY <1>2, <2>1
  <2> QED BY ONLY <2>1, <2>2
<1> QED BY <1>3 DEF Min

\* The element taken first is in the set.
LEMMA ChosenIn == ASSUME NEW s, s # {} PROVE Chosen(s) \in s
  BY DEF Chosen

\* The equation of a fold at one subset.
FoldAt(g, h, s) == g[s] = IF s = {} THEN 0 ELSE h[Chosen(s)] + g[s \ {Chosen(s)}]

\* A fold is a function that meets its equation at every subset.
LEMMA FoldSteps ==
  ASSUME NEW g, NEW h, NEW S
  PROVE  IsFold(g, h, S) <=> g = [s \in SUBSET S |-> g[s]] /\ \A s \in SUBSET S : FoldAt(g, h, s)
  BY DEF IsFold, FoldAt

\* Two folds agree wherever both are defined.
LEMMA FoldUnique ==
  ASSUME NEW h, NEW S, NEW T, NEW g, NEW k, IsFiniteSet(S),
         IsFold(g, h, S), IsFold(k, h, T)
  PROVE  \A u \in (SUBSET S) \cap (SUBSET T) : g[u] = k[u]
<1> DEFINE bad == {u \in (SUBSET S) \cap (SUBSET T) : g[u] # k[u]}
<1> SUFFICES ASSUME bad # {} PROVE FALSE OBVIOUS
<1>1. bad \in SUBSET (SUBSET S) OBVIOUS
<1>2. PICK u \in bad : \A y \in bad : ~(y \subseteq u /\ y # u)
  <2> HIDE DEF bad
  <2> QED BY <1>1, Smallest
<1>3. u # {} /\ Chosen(u) \in u
  <2>1. u # {} BY FoldSteps DEF FoldAt
  <2> QED BY <2>1, ChosenIn
<1>4. u \ {Chosen(u)} \in (SUBSET S) \cap (SUBSET T) /\ u \ {Chosen(u)} \notin bad BY <1>2, <1>3
<1>5. g[u \ {Chosen(u)}] = k[u \ {Chosen(u)}] BY <1>4
<1> QED BY <1>3, <1>5, FoldSteps DEF FoldAt

\* The recursion describes a function: the folds of the smaller subsets, glued.
LEMMA FoldExists ==
  ASSUME NEW S, IsFiniteSet(S), NEW h
  PROVE  \E g : IsFold(g, h, S)
<1> DEFINE bad == {u \in SUBSET S : ~\E g : IsFold(g, h, u)}
<1> SUFFICES ASSUME bad # {} PROVE FALSE OBVIOUS
<1>1. bad \in SUBSET (SUBSET S) OBVIOUS
<1>2. PICK u \in bad : \A y \in bad : ~(y \subseteq u /\ y # u)
  <2> HIDE DEF bad
  <2> QED BY <1>1, Smallest
<1>3. \A y \in SUBSET u : y # u => \E g : IsFold(g, h, y)
  BY <1>2
<1> DEFINE F(y) == CHOOSE g : IsFold(g, h, y)
<1>4. \A y \in SUBSET u : y # u => IsFold(F(y), h, y)
  BY <1>3
<1> DEFINE k == [s \in SUBSET u |-> IF s = {} THEN 0 ELSE h[Chosen(s)] + F(s \ {Chosen(s)})[s \ {Chosen(s)}]]
<1>5. ASSUME NEW s \in SUBSET u, s # {}
      PROVE  k[s \ {Chosen(s)}] = F(s \ {Chosen(s)})[s \ {Chosen(s)}]
  <2> DEFINE r == s \ {Chosen(s)}
  <2>1. Chosen(s) \in s /\ r \in SUBSET u /\ r # u BY <1>5, ChosenIn
  <2>2. IsFold(F(r), h, r) BY <1>4, <2>1
  <2>3. CASE r = {}
    <3>1. k[r] = 0 BY <2>1, <2>3
    <3>2. F(r)[r] = 0 BY <2>2, <2>3, FoldSteps DEF FoldAt
    <3> QED BY <3>1, <3>2
  <2>4. CASE r # {}
    <3> DEFINE t == r \ {Chosen(r)}
    <3>1. Chosen(r) \in r /\ t \in SUBSET u /\ t # u /\ t \in SUBSET r BY <2>1, <2>4, ChosenIn
    <3>2. k[r] = h[Chosen(r)] + F(t)[t] BY <2>1, <2>4
    <3>3. F(r)[r] = h[Chosen(r)] + F(r)[t] BY <2>2, <2>4, FoldSteps DEF FoldAt
    <3>4. IsFold(F(t), h, t) BY <1>4, <3>1
    <3>5. IsFiniteSet(t) BY FS_Subset, <3>1
    <3> HIDE DEF F, t, k
    <3>6. F(t)[t] = F(r)[t] BY <2>2, <3>1, <3>4, <3>5, FoldUnique
    <3> QED BY <3>2, <3>3, <3>6
  <2> QED BY <2>3, <2>4
<1>6. IsFold(k, h, u)
  <2>0. u \in SUBSET S BY <1>2
  <2>a. \A s \in SUBSET u : k[s] = IF s = {} THEN 0
                                  ELSE h[Chosen(s)] + F(s \ {Chosen(s)})[s \ {Chosen(s)}]
    <3> HIDE DEF F
    <3> QED OBVIOUS
  <2>b. k = [s \in SUBSET u |-> k[s]] OBVIOUS
  <2> HIDE DEF F, k
  <2>1. \A s \in SUBSET u : k[s] = IF s = {} THEN 0 ELSE h[Chosen(s)] + k[s \ {Chosen(s)}]
    BY <1>5, <2>a
  <2> QED BY <2>b, <2>1, FoldSteps DEF FoldAt
<1> QED BY <1>2, <1>6


\* A sum is the value of a fold.
LEMMA SumFold ==
  ASSUME NEW S, IsFiniteSet(S), NEW h
  PROVE  \E g : IsFold(g, h, S) /\ SumOver(h, S) = g[S]
  BY FoldExists, SumIsFold

\* The sum over part of S is what the fold over S says of it.
LEMMA SumPart ==
  ASSUME NEW S, IsFiniteSet(S), NEW h, NEW g, IsFold(g, h, S), NEW T \in SUBSET S
  PROVE  SumOver(h, T) = g[T]
<1>1. IsFiniteSet(T) BY FS_Subset
<1>2. PICK k : IsFold(k, h, T) /\ SumOver(h, T) = k[T] BY <1>1, SumFold
<1> QED BY <1>1, <1>2, FoldUnique

\* Nothing adds up to 0.
LEMMA SumEmpty == ASSUME NEW h PROVE SumOver(h, {}) = 0
<1>1. PICK g : IsFold(g, h, {}) /\ SumOver(h, {}) = g[{}] BY SumFold, FS_EmptySet
<1> QED BY <1>1, FoldSteps DEF FoldAt

\* A sum takes its chosen element first.
LEMMA SumChosen ==
  ASSUME NEW S, IsFiniteSet(S), S # {}, NEW h
  PROVE  Chosen(S) \in S /\ SumOver(h, S) = h[Chosen(S)] + SumOver(h, S \ {Chosen(S)})
<1>1. PICK g : IsFold(g, h, S) /\ SumOver(h, S) = g[S] BY SumFold
<1>2. Chosen(S) \in S BY ChosenIn
<1>3. SumOver(h, S \ {Chosen(S)}) = g[S \ {Chosen(S)}] BY <1>1, SumPart
<1> QED BY <1>1, <1>2, <1>3, FoldSteps DEF FoldAt

\* Naturals add up to a natural.
LEMMA SumNat ==
  ASSUME NEW S, IsFiniteSet(S), NEW h, \A x \in S : h[x] \in Nat
  PROVE  SumOver(h, S) \in Nat
<1> DEFINE bad == {u \in SUBSET S : SumOver(h, u) \notin Nat}
<1> SUFFICES ASSUME bad # {} PROVE FALSE OBVIOUS
<1>1. bad \in SUBSET (SUBSET S) OBVIOUS
<1>2. PICK u \in bad : \A y \in bad : ~(y \subseteq u /\ y # u)
  <2> HIDE DEF bad
  <2> QED BY <1>1, Smallest
<1>a. IsFiniteSet(u) /\ u \subseteq S BY <1>2, FS_Subset
<1>3. u # {}
  <2>1. SumOver(h, {}) = 0 BY SumEmpty
  <2>2. SumOver(h, u) \notin Nat BY <1>2
  <2> QED BY <2>1, <2>2
<1>4. Chosen(u) \in u /\ SumOver(h, u) = h[Chosen(u)] + SumOver(h, u \ {Chosen(u)})
  BY <1>a, <1>3, SumChosen
<1>5. SumOver(h, u \ {Chosen(u)}) \in Nat BY <1>2, <1>4
<1> QED BY <1>2, <1>a, <1>4, <1>5

\* Any element can be taken out first: the order in which a sum is formed does
\* not matter.
THEOREM SumRemove ==
  ASSUME NEW S, IsFiniteSet(S), NEW h, \A x \in S : h[x] \in Nat, NEW e \in S
  PROVE  SumOver(h, S) = h[e] + SumOver(h, S \ {e})
<1> DEFINE bad == {u \in SUBSET S : \E x \in u : SumOver(h, u) # h[x] + SumOver(h, u \ {x})}
<1> SUFFICES ASSUME bad # {} PROVE FALSE OBVIOUS
<1>1. bad \in SUBSET (SUBSET S) OBVIOUS
<1>2. PICK u \in bad : \A y \in bad : ~(y \subseteq u /\ y # u)
  <2> HIDE DEF bad
  <2> QED BY <1>1, Smallest
<1>3. PICK x \in u : SumOver(h, u) # h[x] + SumOver(h, u \ {x}) BY <1>2
<1>a. IsFiniteSet(u) /\ u # {} /\ u \subseteq S BY <1>2, <1>3, FS_Subset
<1> DEFINE y == Chosen(u)
           r == u \ {y}
           t == (u \ {y}) \ {x}
<1>4. y \in u /\ SumOver(h, u) = h[y] + SumOver(h, r) BY <1>a, SumChosen
<1> HIDE DEF y
<1>5. x # y BY <1>3, <1>4
<1>6. SumOver(h, r) = h[x] + SumOver(h, t)
  <2>1. r \in SUBSET S /\ r \notin bad /\ x \in r BY <1>2, <1>a, <1>4, <1>5
  <2> QED BY <2>1
<1>7. SumOver(h, u \ {x}) = h[y] + SumOver(h, t)
  <2>1. u \ {x} \in SUBSET S /\ u \ {x} \notin bad /\ y \in u \ {x} BY <1>2, <1>a, <1>3, <1>4, <1>5
  <2>2. (u \ {x}) \ {y} = t OBVIOUS
  <2> QED BY <2>1, <2>2
<1>8. h[x] \in Nat /\ h[y] \in Nat /\ SumOver(h, t) \in Nat
  <2>1. IsFiniteSet(t) /\ t \subseteq S BY <1>a, FS_Subset
  <2> QED BY <1>a, <1>3, <1>4, <2>1, SumNat
<1> QED BY <1>3, <1>4, <1>6, <1>7, <1>8


\* Functions that agree on S have the same sum over S.
LEMMA SumAgree ==
  ASSUME NEW S, IsFiniteSet(S), NEW h, NEW k, \A x \in S : h[x] = k[x]
  PROVE  SumOver(h, S) = SumOver(k, S)
<1>1. PICK g : IsFold(g, h, S) /\ SumOver(h, S) = g[S] BY SumFold
<1>2. \A s \in SUBSET S : FoldAt(g, h, s) => FoldAt(g, k, s) BY ChosenIn DEF FoldAt
<1>3. IsFold(g, k, S) BY <1>1, <1>2, FoldSteps
<1> QED BY <1>1, <1>3, SumPart

\* Taking an element out never makes the sum larger.
LEMMA SumShrinks ==
  ASSUME NEW S, IsFiniteSet(S), NEW h, \A x \in S : h[x] \in Nat, NEW e
  PROVE  SumOver(h, S \ {e}) <= SumOver(h, S)
<1>1. IsFiniteSet(S \ {e}) BY FS_RemoveElement
<1>2. SumOver(h, S \ {e}) \in Nat BY <1>1, SumNat
<1>3. CASE e \in S
  <2>1. SumOver(h, S) = h[e] + SumOver(h, S \ {e}) BY <1>3, SumRemove
  <2> QED BY <1>2, <1>3, <2>1
<1>4. CASE e \notin S
  <2>1. S \ {e} = S BY <1>4
  <2> QED BY <1>2, <2>1
<1> QED BY <1>3, <1>4

\* A part never adds up to more than the whole.
LEMMA SumSubset ==
  ASSUME NEW S, IsFiniteSet(S), NEW h, \A x \in S : h[x] \in Nat, NEW T \in SUBSET S
  PROVE  SumOver(h, T) <= SumOver(h, S)
<1> DEFINE bad == {u \in SUBSET S : ~(SumOver(h, T) <= SumOver(h, T \cup u))}
<1>1. IsFiniteSet(T) /\ SumOver(h, T) \in Nat BY FS_Subset, SumNat
<1>2. SUFFICES ASSUME bad # {} PROVE FALSE
  <2>1. T \cup S = S OBVIOUS
  <2> QED BY <2>1
<1>3. bad \in SUBSET (SUBSET S) OBVIOUS
<1>4. PICK u \in bad : \A y \in bad : ~(y \subseteq u /\ y # u)
  <2> HIDE DEF bad
  <2> QED BY <1>2, <1>3, Smallest
<1>5. u # {}
  <2>1. T \cup {} = T OBVIOUS
  <2> QED BY <1>1, <2>1
<1>6. PICK e \in u : TRUE BY <1>5
<1>7. SumOver(h, T) <= SumOver(h, T \cup (u \ {e}))
  <2>1. /\ u \ {e} \in SUBSET S /\ u \ {e} \subseteq u /\ u \ {e} # u
    BY <1>6
  <2>2. u \ {e} \notin bad
    <3> HIDE DEF bad
    <3> QED BY <1>4, <2>1
  <2> QED BY <2>1, <2>2
<1>8. CASE e \in T
  <2>1. T \cup (u \ {e}) = T \cup u BY <1>6, <1>8
  <2> QED BY <1>7, <2>1
<1>9. CASE e \notin T
  <2>1. /\ (T \cup u) \ {e} = T \cup (u \ {e}) /\ T \cup u \in SUBSET S
        /\ T \cup (u \ {e}) \in SUBSET S /\ e \in T \cup u
    BY <1>6, <1>9
  <2>2. IsFiniteSet(T \cup u) /\ IsFiniteSet(T \cup (u \ {e})) BY <2>1, FS_Subset
  <2>3. SumOver(h, T \cup u) = h[e] + SumOver(h, T \cup (u \ {e})) BY <2>1, <2>2, SumRemove
  <2>4. SumOver(h, T \cup (u \ {e})) \in Nat BY <2>1, <2>2, SumNat
  <2>5. h[e] \in Nat BY <2>1
  <2>6. SumOver(h, T) <= SumOver(h, T \cup u) BY <1>1, <1>7, <2>3, <2>4, <2>5
  <2> QED BY <2>6
<1> QED BY <1>8, <1>9

\* A new element adds its own value.
LEMMA SumAdd ==
  ASSUME NEW S, IsFiniteSet(S), NEW h, NEW e, e \notin S, \A x \in S \cup {e} : h[x] \in Nat
  PROVE  SumOver(h, S \cup {e}) = h[e] + SumOver(h, S)
<1>1. IsFiniteSet(S \cup {e}) BY FS_AddElement
<1>2. (S \cup {e}) \ {e} = S OBVIOUS
<1> QED BY <1>1, <1>2, SumRemove

=============================================================================
