----------------------------- MODULE TrashProofs ------------------------------
(***************************************************************************)
(* Theorems about Trash, for every number of jobs, requests, deletions,    *)
(* paths and files, and every layout of devices.                           *)
(***************************************************************************)
EXTENDS Trash, SumTheorems

-----------------------------------------------------------------------------
(* The inductive invariant.                                                *)

Types ==
  /\ at \in [Place -> SUBSET File]
  /\ there \subseteq Place /\ box \subseteq Id
  /\ row \in [Id -> {"none", "pending", "done"}]
  /\ origin \in [Id -> Path]
  /\ old \subseteq Id
  /\ wk \in [Worker -> WorkerState]
  /\ queue \subseteq Id
  /\ taken \in [Id -> SUBSET File]
  /\ disturbed \subseteq Id /\ born \subseteq File

\* A folder holds a name once, and what is not a folder is one file.
Names(S) == \A f, g \in S : f[1] = g[1] => f = g
Single(S) == \E f \in S : S = {f}
Whole(x) == (at[x] # {} => x \in there) /\ Names(at[x])
Tree ==
  /\ \A x \in Place : Whole(x)
  /\ \A x \in there : IsFolder(x) \/ Single(at[x])
  /\ there \cap Id \subseteq box

\* A worker moves the item of a deletion into the trash, removes it there, or
\* takes it from there to a path.
Sleeps(w) == wk[w].pc \in {"idle", "next"} /\ wk[w].id = NoId /\ wk[w].src = NoId
Deleter(w) ==
  /\ w \notin User /\ wk[w].src = origin[wk[w].id] /\ wk[w].dst = wk[w].id
  /\ wk[w].pc \in {"check", "move", "copy", "remove", "finish", "undo", "drop"}
  /\ wk[w].pc = "check" => w = Hourly
Purger(w) ==
  /\ w \notin Job /\ wk[w].src = wk[w].id /\ wk[w].dst = wk[w].id
  /\ wk[w].pc \in {"purge", "remove", "drop"}
Restorer(w) ==
  /\ w \in User /\ wk[w].src = wk[w].id
  /\ wk[w].dst \in Path /\ (wk[w].dst \in Folder <=> origin[wk[w].id] \in Folder)
  /\ wk[w].pc \in {"move", "copy", "remove", "unbox", "drop"}
KindOf(w) == Sleeps(w) \/ Deleter(w) \/ Purger(w) \/ Restorer(w)
Kinds == \A w \in Worker : KindOf(w)

\* Maintenance lists what this process did not start.
Awake(w) == wk[w].pc \notin {"idle", "next"}
Listed == \A w \in Job : Awake(w) => wk[w].id \notin old

\* Nobody else is at work on a deletion that nobody interfered with, or claims
\* its path.
Sole(w) ==
  LET d == wk[w].id IN
  /\ Deleter(w) /\ row[d] = "pending" /\ d \notin queue
  /\ \A v \in Worker \ {w} : Awake(v) => wk[v].id # d
AloneAt(d) ==
  /\ d \in Claims(origin[d]) => Claims(origin[d]) \subseteq {d}
  /\ d \in queue => row[d] = "pending"
  /\ \A w \in Worker : Awake(w) /\ wk[w].id = d => Sole(w)
Alone == \A d \in Id \ disturbed : AloneAt(d)

\* What is at the path of such a deletion and in the trash,
ContentOf(d) ==
  row[d] # "none" =>
    /\ Names(taken[d]) /\ (origin[d] \in Folder \/ taken[d] = {} \/ Single(taken[d]))
    /\ at[d] \subseteq taken[d] /\ taken[d] \subseteq at[origin[d]] \cup at[d]
    /\ row[d] = "done" => taken[d] \subseteq at[d]
    /\ row[d] = "pending" /\ d \in there => at[origin[d]] \subseteq taken[d]
Contents == \A d \in Id \ disturbed : ContentOf(d)

\* and how far its worker is.
Proceeds(w) ==
  LET d == wk[w].id
      left == at[origin[d]]
  IN
  /\ wk[w].pc = "move" /\ w \in Job => taken[d] = {}
  /\ wk[w].pc = "copy" =>
       /\ wk[w].todo \subseteq taken[d] /\ taken[d] \subseteq wk[w].todo \cup at[d]
       /\ left \subseteq taken[d]
       /\ w \in Job => taken[d] \subseteq left
  /\ wk[w].pc \in {"remove", "finish"} => taken[d] \subseteq at[d]
  /\ wk[w].pc = "undo" => taken[d] \subseteq left
Progress == \A w \in Worker : Awake(w) /\ wk[w].id \notin disturbed => Proceeds(w)

IInv == Types /\ Tree /\ Kinds /\ Listed /\ Alone /\ Contents /\ Progress

-----------------------------------------------------------------------------
(* What becomes of a worker.                                               *)

Only(w) == wk' \in [Worker -> WorkerState] /\ \A v \in Worker \ {w} : wk'[v] = wk[v]
Same(w) == wk'[w].id = wk[w].id /\ wk'[w].src = wk[w].src /\ wk'[w].dst = wk[w].dst
Goes(w, l) == Only(w) /\ Same(w) /\ wk'[w].pc = l
Stops(w) == Only(w) /\ wk'[w].pc \in {"idle", "next"} /\ wk'[w].id = NoId /\ wk'[w].src = NoId

LEMMA NoIdIn == NoId \in Id
  BY SomethingToDelete DEF NoId

LEMMA Becomes ==
  ASSUME Types, NEW w \in Worker, NEW r \in WorkerState, Become(w, r)
  PROVE  Only(w) /\ wk'[w] = r
  BY DEF Types, Become, Only

LEMMA GoesWith ==
  ASSUME Types, NEW w \in Worker, NEW l \in Steps, NEW t \in SUBSET File,
         Become(w, [wk[w] EXCEPT !.pc = l, !.todo = t])
  PROVE  Goes(w, l) /\ wk'[w].todo = t
<1> DEFINE r == [wk[w] EXCEPT !.pc = l, !.todo = t]
<1>1. wk[w] \in WorkerState BY DEF Types
<1>2. /\ r \in WorkerState /\ r.pc = l /\ r.todo = t
      /\ r.id = wk[w].id /\ r.src = wk[w].src /\ r.dst = wk[w].dst
  BY <1>1 DEF WorkerState
<1>3. Become(w, r) OBVIOUS
<1> HIDE DEF r
<1>4. Only(w) /\ wk'[w] = r BY <1>2, <1>3, Becomes
<1> QED BY <1>2, <1>4 DEF Goes, Same

LEMMA GotoGoes ==
  ASSUME Types, NEW w \in Worker, NEW l \in Steps, Goto(w, l)
  PROVE  Goes(w, l) /\ wk'[w].todo = {}
<1>1. Become(w, [wk[w] EXCEPT !.pc = l, !.todo = {}]) BY DEF Goto
<1> QED BY <1>1, GoesWith

LEMMA TodoShrinks ==
  ASSUME Types, NEW w \in Worker, NEW f, Become(w, [wk[w] EXCEPT !.todo = @ \ {f}])
  PROVE  Goes(w, wk[w].pc) /\ wk'[w].todo = wk[w].todo \ {f}
<1> DEFINE r == [wk[w] EXCEPT !.todo = @ \ {f}]
<1>1. wk[w] \in WorkerState BY DEF Types
<1>2. /\ r \in WorkerState /\ r.pc = wk[w].pc /\ r.todo = wk[w].todo \ {f}
      /\ r.id = wk[w].id /\ r.src = wk[w].src /\ r.dst = wk[w].dst
  BY <1>1 DEF WorkerState
<1>3. Become(w, r) OBVIOUS
<1> HIDE DEF r
<1>4. Only(w) /\ wk'[w] = r BY <1>2, <1>3, Becomes
<1> QED BY <1>2, <1>4 DEF Goes, Same

LEMMA RestingTyped == Resting \in WorkerState
  BY NoIdIn DEF Resting, WorkerState, Steps, Place

LEMMA EndStops ==
  ASSUME Types, NEW w \in Worker, End(w)
  PROVE  Stops(w)
<1> DEFINE r == [Resting EXCEPT !.pc = "next"]
<1>1. r \in WorkerState /\ r.pc = "next" /\ r.id = NoId /\ r.src = NoId
  BY NoIdIn DEF Resting, WorkerState, Steps, Place
<1>2. Resting.pc = "idle" /\ Resting.id = NoId /\ Resting.src = NoId BY DEF Resting
<1>3. Become(w, r) \/ Become(w, Resting) BY DEF End, Rest
<1> HIDE DEF r
<1> QED BY <1>1, <1>2, <1>3, RestingTyped, Becomes DEF Stops

LEMMA Starts ==
  ASSUME Types, NEW w \in Worker, NEW l \in Steps, NEW d \in Id, NEW x \in Place, NEW y \in Place,
         Become(w, [Resting EXCEPT !.pc = l, !.id = d, !.src = x, !.dst = y])
  PROVE  Only(w) /\ wk'[w].pc = l /\ wk'[w].id = d /\ wk'[w].src = x /\ wk'[w].dst = y
<1> DEFINE r == [Resting EXCEPT !.pc = l, !.id = d, !.src = x, !.dst = y]
<1>1. r \in WorkerState /\ r.pc = l /\ r.id = d /\ r.src = x /\ r.dst = y
  BY NoIdIn DEF Resting, WorkerState, Steps, Place
<1>2. Become(w, r) OBVIOUS
<1> HIDE DEF r
<1> QED BY <1>1, <1>2, Becomes

-----------------------------------------------------------------------------
(* How a worker goes on, by what it does.                                  *)

LEMMA Sorts ==
  ASSUME Types, NEW w \in Worker
  PROVE  /\ wk[w].id \in Id /\ wk[w].id \notin Path
         /\ origin[wk[w].id] \in Path /\ origin[wk[w].id] \notin Id
  BY SortsAreDisjoint DEF Types, WorkerState

LEMMA MovedGoes ==
  ASSUME Types, NEW w \in Worker, Moved(w)
  PROVE  /\ Deleter(w) => Goes(w, "finish")
         /\ Purger(w) => Goes(w, "drop")
         /\ Restorer(w) => Goes(w, "unbox")
<1>1. {"finish", "drop", "unbox"} \subseteq Steps BY DEF Steps
<1> QED BY <1>1, Sorts, GotoGoes DEF Moved, Restoring, Purging, Deleter, Purger, Restorer

LEMMA FailedGoes ==
  ASSUME Types, NEW w \in Worker, Failed(w)
  PROVE  IF w \in Job THEN Goes(w, "undo") ELSE Stops(w)
  BY GotoGoes, EndStops DEF Failed, Steps

LEMMA NotRemovedGoes ==
  ASSUME Types, NEW w \in Worker, NotRemoved(w)
  PROVE  IF w \in Job THEN Goes(w, "finish") ELSE Stops(w)
  BY GotoGoes, EndStops DEF NotRemoved, Steps

LEMMA NotFoundGoes ==
  ASSUME Types, NEW w \in Worker, NotFound(w)
  PROVE  IF wk[w].dst \in Path THEN Goes(w, "drop") ELSE
         IF w \in Job THEN Goes(w, "undo") ELSE Stops(w)
  BY GotoGoes, FailedGoes DEF NotFound, Restoring, Steps

LEMMA NotFoundToRemoveGoes ==
  ASSUME Types, NEW w \in Worker, NotFoundToRemove(w)
  PROVE  IF wk[w].dst \in Path \/ wk[w].src = wk[w].dst THEN Goes(w, "drop") ELSE
         IF w \in Job THEN Goes(w, "finish") ELSE Stops(w)
  BY GotoGoes, NotRemovedGoes DEF NotFoundToRemove, Restoring, Purging, Steps

-----------------------------------------------------------------------------
(* The step of a worker that is under way: it goes on or stops, writes no  *)
(* row but its own, and touches no item but its source and its             *)
(* destination.                                                            *)

Turn(w) == Stops(w) \/ (Only(w) /\ Same(w) /\ Awake(w)' /\ KindOf(w)')
Columns(w) ==
  /\ origin' = origin /\ old' = old /\ queue' = queue
  /\ \A e \in Id \ {wk[w].id} : row'[e] = row[e]
  /\ row'[wk[w].id] = row[wk[w].id] \/ (row'[wk[w].id] # "pending" /\ Stops(w))
Touches(w) ==
  /\ \A x \in Place \ {wk[w].src, wk[w].dst} : at'[x] = at[x] /\ (x \in there' <=> x \in there)
  /\ \A d \in Id \ {wk[w].dst} : taken'[d] = taken[d]
  /\ wk[w].dst \in Path => at'[wk[w].dst] = at[wk[w].dst] \/ Claims(wk[w].dst) \subseteq disturbed'
Here(w) ==
  \A d \in Id \ disturbed' : d = wk[w].id =>
    ContentOf(d)' /\ (wk'[w].pc \notin {"idle", "next"} => Proceeds(w)')

LEMMA TurnKinds ==
  ASSUME Types, Kinds, Listed, NEW w \in Worker, Awake(w), Turn(w), Columns(w)
  PROVE  Kinds' /\ Listed'
<1>1. Only(w) BY DEF Turn, Stops
<1>2. \A v \in Worker \ {w} : wk'[v] = wk[v] BY <1>1 DEF Only
<1>3. KindOf(w)' BY DEF Turn, Stops, KindOf, Sleeps
<1>4. ASSUME NEW v \in Worker \ {w} PROVE KindOf(v)'
  BY <1>2, <1>4 DEF Kinds, KindOf, Sleeps, Deleter, Purger, Restorer, Columns
<1>5. ASSUME NEW v \in Job, Awake(v)' PROVE wk'[v].id \notin old'
  <2>1. v \in Worker BY DEF Worker
  <2>2. CASE v # w BY <1>2, <1>5, <2>1, <2>2 DEF Listed, Awake, Columns
  <2>3. CASE v = w
    <3>1. Same(w) BY <1>5, <2>3 DEF Turn, Stops, Awake
    <3> QED BY <2>3, <3>1 DEF Listed, Columns, Same
  <2> QED BY <2>2, <2>3
<1> QED BY <1>3, <1>4, <1>5 DEF Kinds, Listed

\* Claims come from a new row, or from the maintenance; no other step makes one.
LEMMA TurnClaims ==
  ASSUME Types, NEW w \in Worker, Turn(w), Columns(w), NEW p \in Path
  PROVE  Claims(p)' \subseteq Claims(p)
<1> SUFFICES ASSUME NEW d \in Id, d \in Claims(p)' PROVE d \in Claims(p)
  BY DEF Claims
<1>1. Only(w) BY DEF Turn, Stops
<1>2. origin[d] = p BY DEF Claims, Columns
<1>3. CASE row'[d] = "pending"
  <2>1. row[d] = "pending" BY <1>3 DEF Columns
  <2> QED BY <1>2, <2>1 DEF Claims
<1>4. CASE d \in queue' BY <1>2, <1>4 DEF Claims, Columns
<1>5. CASE \E v \in Worker : wk'[v].id = d /\ wk'[v].src = p
  <2>1. PICK v \in Worker : wk'[v].id = d /\ wk'[v].src = p BY <1>5
  <2>2. NoId \notin Path BY NoIdIn, SortsAreDisjoint
  <2>3. wk[v].id = d /\ wk[v].src = p
    BY <1>1, <2>1, <2>2 DEF Only, Turn, Stops, Same
  <2> QED BY <1>2, <2>3 DEF Claims
<1> QED BY <1>3, <1>4, <1>5 DEF Claims

LEMMA TurnAlone ==
  ASSUME Types, Kinds, Alone, NEW w \in Worker, Awake(w), Turn(w), Columns(w), disturbed \subseteq disturbed'
  PROVE  Alone'
<1> SUFFICES ASSUME NEW d \in Id, d \notin disturbed' PROVE AloneAt(d)'
  BY DEF Alone
<1>0. AloneAt(d) BY DEF Alone
<1>1. Only(w) BY DEF Turn, Stops
<1>2. ASSUME NEW p \in Path, p = origin'[d], d \in Claims(p)' PROVE Claims(p)' \subseteq {d}
  <2>1. p = origin[d] BY <1>2 DEF Columns
  <2>2. Claims(p)' \subseteq Claims(p) BY TurnClaims
  <2> QED BY <1>0, <1>2, <2>1, <2>2 DEF AloneAt
<1>3. ASSUME d \in queue' PROVE row'[d] = "pending"
  <2>1. d \in queue /\ row[d] = "pending" BY <1>0, <1>3 DEF AloneAt, Columns
  <2>2. wk[w].id # d BY <1>0, <2>1 DEF AloneAt, Sole
  <2> QED BY <2>1, <2>2 DEF Columns
<1>4. ASSUME NEW v \in Worker, Awake(v)', wk'[v].id = d PROVE Sole(v)'
  <2>1. Awake(v) /\ wk[v].id = d /\ wk'[v].src = wk[v].src /\ wk'[v].dst = wk[v].dst
    BY <1>1, <1>4 DEF Only, Turn, Stops, Same, Awake
  <2>2. Sole(v) BY <1>0, <2>1 DEF AloneAt
  <2>3. row'[d] = "pending" /\ d \notin queue'
    <3>1. CASE v = w BY <1>4, <2>1, <2>2, <3>1 DEF Columns, Stops, Awake, Sole
    <3>2. CASE v # w
      <4>1. wk[w].id # d BY <2>1, <2>2, <3>2 DEF Sole
      <4> QED BY <2>1, <2>2, <4>1 DEF Columns, Sole
    <3> QED BY <3>1, <3>2
  <2>4. ASSUME NEW u \in Worker \ {v}, Awake(u)' PROVE wk'[u].id # d
    <3>1. Awake(u) /\ wk'[u].id = wk[u].id
      BY <1>1, <2>4 DEF Only, Turn, Stops, Same, Awake
    <3> QED BY <2>1, <2>2, <3>1 DEF Sole
  <2>5. Deleter(v)'
    <3>1. v \notin User /\ wk'[v].src = origin'[wk'[v].id] /\ wk'[v].dst = wk'[v].id
      BY <1>4, <2>1, <2>2 DEF Sole, Deleter, Columns
    <3>2. CASE v # w BY <1>1, <2>2, <3>1, <3>2 DEF Sole, Deleter, Only
    <3>3. CASE v = w
      <4>1. KindOf(v)' BY <1>4, <3>3 DEF Turn, Stops, Awake
      <4>2. ~Sleeps(v)' BY <1>4 DEF Sleeps, Awake
      <4>3. wk'[v].src \in Path /\ wk'[v].id \notin Path
        BY <1>4, <2>1, <2>2, Sorts DEF Sole, Deleter
      <4> QED BY <4>1, <4>2, <4>3 DEF KindOf, Purger, Restorer
    <3> QED BY <3>2, <3>3
  <2> QED BY <1>4, <2>3, <2>4, <2>5 DEF Sole
<1>5. (d \in Claims(origin[d]) => Claims(origin[d]) \subseteq {d})'
  <2>1. origin'[d] \in Path BY DEF Types, Columns
  <2> QED BY <1>2, <2>1 DEF Claims
<1> QED BY <1>3, <1>4, <1>5 DEF AloneAt

\* What a deletion that is not the worker's own has at its path and in the
\* trash stays.
LEMMA OthersKept ==
  ASSUME Types, Kinds, Alone, NEW w \in Worker, Awake(w), Columns(w), Touches(w),
         NEW d \in Id \ disturbed', d \notin disturbed, d # wk[w].id
  PROVE  /\ row'[d] = row[d] /\ taken'[d] = taken[d] /\ at'[d] = at[d] /\ (d \in there' <=> d \in there)
         /\ d \in Claims(origin[d]) => at'[origin[d]] = at[origin[d]]
<1>0. AloneAt(d) BY DEF Alone
<1>1. Deleter(w) \/ Purger(w) \/ Restorer(w) BY DEF Kinds, KindOf, Sleeps, Awake
<1>2. d \in Place /\ origin[d] \in Path /\ origin[d] \in Place BY DEF Types, Place
<1>3. d \notin {wk[w].src, wk[w].dst}
  BY <1>1, <1>2, Sorts, SortsAreDisjoint DEF Deleter, Purger, Restorer, Types
<1>4. ASSUME d \in Claims(origin[d]) PROVE at'[origin[d]] = at[origin[d]]
  <2>1. CASE origin[d] = wk[w].dst BY <1>2, <1>4, <2>1 DEF Touches
  <2>2. CASE origin[d] = wk[w].src
    <3>1. Deleter(w) BY <1>1, <1>2, <2>2, Sorts DEF Purger, Restorer
    <3>2. wk[w].id \in Claims(origin[d]) BY <2>2, <3>1, Sorts DEF Claims, Deleter
    <3> QED BY <1>0, <1>4, <3>2 DEF AloneAt
  <2> QED BY <1>2, <2>1, <2>2 DEF Touches
<1> QED BY <1>2, <1>3, <1>4 DEF Columns, Touches

\* A row that is not pending asks nothing of the path.
LEMMA ContentKept ==
  ASSUME NEW d \in Id, ContentOf(d), origin' = origin, d \in Id,
         row'[d] = row[d], taken'[d] = taken[d], at'[d] = at[d], d \in there' <=> d \in there,
         row[d] \in {"none", "pending", "done"},
         d \in Claims(origin[d]) => at'[origin[d]] = at[origin[d]]
  PROVE  ContentOf(d)'
<1>1. CASE row[d] = "pending"
  <2>1. d \in Claims(origin[d]) BY <1>1 DEF Claims
  <2> QED BY <2>1 DEF ContentOf
<1>2. CASE row[d] = "done" BY <1>2 DEF ContentOf
<1>3. CASE row[d] = "none" BY <1>3 DEF ContentOf
<1> QED BY <1>1, <1>2, <1>3

LEMMA ProceedsKept ==
  ASSUME NEW v \in Worker, Proceeds(v), wk'[v] = wk[v], origin' = origin,
         NEW d \in Id, d = wk[v].id, taken'[d] = taken[d], at'[d] = at[d], at'[origin[d]] = at[origin[d]]
  PROVE  Proceeds(v)'
  BY DEF Proceeds

LEMMA TurnData ==
  ASSUME Types, Kinds, Alone, Contents, Progress, NEW w \in Worker, Awake(w), Turn(w), Columns(w),
         Touches(w), Here(w), disturbed \subseteq disturbed', disturbed' \subseteq Id
  PROVE  Contents' /\ Progress'
<1>1. ASSUME NEW d \in Id \ disturbed' PROVE ContentOf(d)'
  <2>1. CASE d = wk[w].id BY <2>1 DEF Here
  <2>2. CASE d # wk[w].id
    <3>1. d \notin disturbed /\ ContentOf(d) /\ row[d] \in {"none", "pending", "done"}
      BY DEF Contents, Types
    <3> QED BY <2>2, <3>1, OthersKept, ContentKept DEF Columns
  <2> QED BY <2>1, <2>2
<1>2. ASSUME NEW v \in Worker, wk'[v].pc \notin {"idle", "next"}, wk'[v].id \notin disturbed'
      PROVE  Proceeds(v)'
  <2>1. CASE v = w
    <3>1. Same(w) BY <1>2, <2>1 DEF Turn, Stops
    <3> QED BY <1>2, <2>1, <3>1, Sorts DEF Here, Same
  <2>2. CASE v # w
    <3>1. wk'[v] = wk[v] BY <2>2 DEF Turn, Stops, Only
    <3>2. Awake(v) /\ wk[v].id \notin disturbed BY <1>2, <3>1 DEF Awake
    <3>3. Proceeds(v) BY <3>2 DEF Progress
    <3> DEFINE d == wk[v].id
    <3>4. d \in Id /\ d \notin disturbed' /\ Sole(v)
      BY <1>2, <3>1, <3>2, Sorts DEF Alone, AloneAt
    <3>5. d # wk[w].id /\ d \in Claims(origin[d]) BY <2>2, <3>4 DEF Sole, Claims
    <3>6. taken'[d] = taken[d] /\ at'[d] = at[d] /\ at'[origin[d]] = at[origin[d]]
      <4> HIDE DEF d
      <4> QED BY <3>2, <3>4, <3>5, OthersKept
    <3> QED BY <3>1, <3>3, <3>4, <3>6, ProceedsKept DEF Columns
  <2> QED BY <2>1, <2>2
<1> QED BY <1>1, <1>2 DEF Contents, Progress, Awake

\* A step of a worker keeps the invariant if it keeps the disk a tree, and what
\* is said of the worker's own deletion.
LEMMA TurnKeeps ==
  ASSUME IInv, NEW w \in Worker, Awake(w), Turn(w), Columns(w), Touches(w), Here(w),
         disturbed \subseteq disturbed', Types', Tree'
  PROVE  IInv'
<1>1. disturbed' \subseteq Id BY DEF Types
<1> QED BY <1>1, TurnKinds, TurnAlone, TurnData DEF IInv

-----------------------------------------------------------------------------
(* The steps that only move a worker on.                                   *)

Quiet == UNCHANGED <<disk, table, queue, ghost>>

LEMMA GoesTurn ==
  ASSUME NEW w \in Worker, NEW l, Goes(w, l), origin' = origin,
         \/ Deleter(w) /\ l \in {"move", "copy", "remove", "finish", "undo", "drop"}
         \/ Purger(w) /\ l \in {"remove", "drop"}
         \/ Restorer(w) /\ l \in {"copy", "remove", "unbox", "drop"}
  PROVE  Turn(w)
<1>1. Only(w) /\ Same(w) /\ wk'[w].pc = l BY DEF Goes
<1>2. Deleter(w)' \/ Purger(w)' \/ Restorer(w)' BY <1>1 DEF Same, Deleter, Purger, Restorer
<1> QED BY <1>1, <1>2 DEF Turn, Awake, KindOf

LEMMA AwakeKind ==
  ASSUME Kinds, NEW w \in Worker, Awake(w)
  PROVE  Deleter(w) \/ Purger(w) \/ Restorer(w)
  BY DEF Kinds, KindOf, Sleeps, Awake

\* What the invariant says of a worker whose deletion nobody interfered with.
LEMMA OwnFacts ==
  ASSUME IInv, NEW w \in Worker, Awake(w), NEW d \in Id \ disturbed, d = wk[w].id
  PROVE  /\ Deleter(w) /\ row[d] = "pending" /\ wk[w].src = origin[d] /\ wk[w].dst = d
         /\ d \in Claims(origin[d]) /\ ContentOf(d) /\ Proceeds(w)
         /\ origin[d] \in Place /\ d \in Place /\ origin[d] # d /\ d \notin Path /\ origin[d] \notin Id
<1>1. Sole(w) BY DEF IInv, Alone, AloneAt
<1>2. ContentOf(d) /\ Proceeds(w) BY DEF IInv, Contents, Progress
<1>3. d \in Claims(origin[d]) BY <1>1 DEF Sole, Claims
<1>4. origin[d] \in Path /\ d \notin Path /\ origin[d] \notin Id BY SortsAreDisjoint DEF IInv, Types
<1> QED BY <1>1, <1>2, <1>3, <1>4 DEF Sole, Deleter, Place

LEMMA QuietKeeps ==
  ASSUME IInv, NEW w \in Worker, Awake(w), Turn(w), Quiet,
         \A d \in Id \ disturbed :
           d = wk[w].id /\ wk'[w].pc \notin {"idle", "next"} => Proceeds(w)'
  PROVE  IInv'
<1> USE DEF Quiet, disk, table, ghost
<1>1. Only(w) BY DEF Turn, Stops
<1>2. Types' BY <1>1 DEF IInv, Types, Only
<1>3. Tree' BY DEF IInv, Tree, Whole, IsFolder
<1>4. Columns(w) BY DEF Columns
<1>5. Touches(w) BY DEF Touches
<1>6. ASSUME NEW d \in Id \ disturbed PROVE ContentOf(d)' BY DEF IInv, Contents, ContentOf
<1>7. Here(w) BY <1>6 DEF Here
<1> QED BY <1>2, <1>3, <1>4, <1>5, <1>7, TurnKeeps

\* The steps after which a deletion has nothing to copy or to remove.
LEMMA QuietGoes ==
  ASSUME IInv, NEW w \in Worker, Awake(w), Quiet,
         NEW l \in {"finish", "undo", "drop", "unbox"}, Stops(w) \/ Goes(w, l),
         \/ Deleter(w) /\ l \in {"finish", "undo", "drop"}
         \/ Purger(w) /\ l \in {"drop"}
         \/ Restorer(w) /\ l \in {"unbox", "drop"},
         \A d \in Id \ disturbed : d = wk[w].id =>
           /\ l = "finish" => taken[d] \subseteq at[d]
           /\ l = "undo" /\ ~Stops(w) => taken[d] \subseteq at[origin[d]]
  PROVE  IInv'
<1>1. origin' = origin /\ taken' = taken /\ at' = at BY DEF Quiet, table, disk, ghost
<1>2. Turn(w)
  <2>1. CASE Stops(w) BY <2>1 DEF Turn
  <2>2. CASE Goes(w, l) BY <1>1, <2>2, GoesTurn
  <2> QED BY <2>1, <2>2
<1>3. ASSUME NEW d \in Id \ disturbed, d = wk[w].id, wk'[w].pc \notin {"idle", "next"}
      PROVE  Proceeds(w)'
  <2>1. ~Stops(w) /\ Goes(w, l) BY <1>3 DEF Stops
  <2>2. wk'[w].pc = l /\ wk'[w].id = d BY <1>3, <2>1 DEF Goes, Same
  <2> QED BY <1>1, <1>3, <2>1, <2>2 DEF Proceeds
<1> QED BY <1>2, <1>3, QuietKeeps

\* What fails before the copy is whole.
LEMMA FailedKeeps ==
  ASSUME IInv, NEW w \in Worker, Quiet, wk[w].pc \in {"move", "copy"}, NotFound(w) \/ Failed(w)
  PROVE  IInv'
<1>1. Awake(w) /\ Types BY DEF Awake, IInv
<1>2. Deleter(w) \/ Restorer(w) BY <1>1, AwakeKind DEF IInv, Purger
<1>3. Deleter(w) => wk[w].dst \notin Path BY <1>1, Sorts DEF Deleter
<1>4. Restorer(w) => wk[w].dst \in Path /\ w \notin Job BY SortsAreDisjoint DEF Restorer
<1>5. \/ Stops(w)
      \/ Restorer(w) /\ Goes(w, "drop")
      \/ Deleter(w) /\ w \in Job /\ Goes(w, "undo")
  BY <1>1, <1>2, <1>3, <1>4, NotFoundGoes, FailedGoes
<1>6. ASSUME w \in Job, NEW d \in Id \ disturbed, d = wk[w].id PROVE taken[d] \subseteq at[origin[d]]
  BY <1>1, <1>6, OwnFacts DEF Proceeds
<1>7. CASE Deleter(w) /\ (Stops(w) \/ (w \in Job /\ Goes(w, "undo")))
  <2>1. CASE w \in Job BY <1>1, <1>6, <1>7, <2>1, QuietGoes
  <2>2. CASE w \notin Job BY <1>1, <1>7, <2>2, QuietGoes
  <2> QED BY <2>1, <2>2
<1>8. CASE Restorer(w) /\ (Stops(w) \/ Goes(w, "drop")) BY <1>1, <1>8, QuietGoes
<1> QED BY <1>2, <1>5, <1>7, <1>8

LEMMA KeepsMoveFails ==
  ASSUME IInv, NEW w \in Worker, MoveFails(w) PROVE IInv'
  BY FailedKeeps DEF MoveFails, Quiet, At

LEMMA KeepsCopyFails ==
  ASSUME IInv, NEW w \in Worker, CopyFails(w) PROVE IInv'
  BY FailedKeeps DEF CopyFails, Quiet, At

LEMMA KeepsCopyGone ==
  ASSUME IInv, NEW w \in Worker, CopyGone(w) PROVE IInv'
<1>1. Quiet /\ Awake(w) /\ wk[w].pc = "copy" /\ Types
  BY DEF CopyGone, Quiet, Awake, At, IInv
<1>2. PICK f \in wk[w].todo \ at[wk[w].src] :
        Become(w, [wk[w] EXCEPT !.todo = @ \ {f}]) \/ NotFound(w)
  BY DEF CopyGone
<1>3. CASE NotFound(w) BY <1>1, <1>3, FailedKeeps
<1>4. CASE Become(w, [wk[w] EXCEPT !.todo = @ \ {f}])
  <2>1. Goes(w, "copy") /\ wk'[w].todo = wk[w].todo \ {f} BY <1>1, <1>4, TodoShrinks
  <2>2. Turn(w)
    <3>1. Deleter(w) \/ Restorer(w) BY <1>1, AwakeKind DEF IInv, Purger
    <3> QED BY <1>1, <2>1, <3>1, GoesTurn DEF Quiet, table
  <2>3. ASSUME NEW d \in Id \ disturbed, d = wk[w].id PROVE Proceeds(w)'
    <3>1. /\ wk[w].src = origin[d] /\ Proceeds(w) /\ taken[d] \subseteq at[origin[d]] \cup at[d]
      BY <1>1, <2>3, OwnFacts DEF ContentOf
    <3>2. /\ wk'[w].pc = "copy" /\ wk'[w].id = d
          /\ origin' = origin /\ taken' = taken /\ at' = at
      BY <1>1, <2>1, <2>3 DEF Goes, Same, Quiet, disk, table, ghost
    <3> QED BY <1>1, <1>2, <2>1, <2>3, <3>1, <3>2 DEF Proceeds
  <2> QED BY <1>1, <2>2, <2>3, QuietKeeps
<1> QED BY <1>2, <1>3, <1>4

\* What comes when the copy is whole, or nothing is left to remove.
LEMMA WholeKeeps ==
  ASSUME IInv, NEW w \in Worker, Quiet, Awake(w), wk[w].pc \in {"copy", "remove"},
         NotFoundToRemove(w) \/ NotRemoved(w),
         \A d \in Id \ disturbed : d = wk[w].id => taken[d] \subseteq at[d]
  PROVE  IInv'
<1>1. Types BY DEF IInv
<1>2. Deleter(w) \/ Purger(w) \/ Restorer(w) BY AwakeKind DEF IInv
<1>3. Deleter(w) => wk[w].dst \notin Path /\ wk[w].src # wk[w].dst BY <1>1, Sorts DEF Deleter
<1>4. Purger(w) => w \notin Job BY DEF Purger
<1>5. Restorer(w) => w \notin Job BY SortsAreDisjoint DEF Restorer
<1>6. \/ Deleter(w) /\ (Stops(w) \/ Goes(w, "finish"))
      \/ (Purger(w) \/ Restorer(w)) /\ (Stops(w) \/ Goes(w, "drop"))
  BY <1>1, <1>2, <1>3, <1>4, <1>5, NotFoundToRemoveGoes, NotRemovedGoes
<1>7. CASE Deleter(w) /\ (Stops(w) \/ Goes(w, "finish")) BY <1>7, QuietGoes
<1>8. CASE (Purger(w) \/ Restorer(w)) /\ (Stops(w) \/ Goes(w, "drop")) BY <1>8, QuietGoes
<1> QED BY <1>6, <1>7, <1>8

LEMMA KeepsRemoveFails ==
  ASSUME IInv, NEW w \in Worker, RemoveFails(w) PROVE IInv'
<1>1. Quiet /\ Awake(w) /\ wk[w].pc = "remove" BY DEF RemoveFails, Quiet, Awake, At
<1>2. ASSUME NEW d \in Id \ disturbed, d = wk[w].id PROVE taken[d] \subseteq at[d]
  BY <1>1, <1>2, OwnFacts DEF Proceeds
<1>3. NotFoundToRemove(w) \/ NotRemoved(w) BY DEF RemoveFails
<1> QED BY <1>1, <1>2, <1>3, WholeKeeps

LEMMA KeepsCopyDone ==
  ASSUME IInv, NEW w \in Worker, CopyDone(w) PROVE IInv'
<1>1. Quiet /\ Awake(w) /\ wk[w].pc = "copy" /\ wk[w].todo = {} /\ Types
  BY DEF CopyDone, Quiet, Awake, At, IInv
<1>2. ASSUME NEW d \in Id \ disturbed, d = wk[w].id PROVE taken[d] \subseteq at[d]
  BY <1>1, <1>2, OwnFacts DEF Proceeds
<1>3. CASE NotFoundToRemove(w) BY <1>1, <1>2, <1>3, WholeKeeps
<1>4. CASE Become(w, [wk[w] EXCEPT !.pc = "remove", !.todo = at[wk[w].src]])
  <2>1. Goes(w, "remove")
    <3>1. at[wk[w].src] \in SUBSET File /\ "remove" \in Steps
      BY <1>1 DEF Types, WorkerState, Steps
    <3> QED BY <1>1, <1>4, <3>1, GoesWith
  <2>2. Turn(w)
    <3>1. Deleter(w) \/ Restorer(w) BY <1>1, AwakeKind DEF IInv, Purger
    <3> QED BY <1>1, <2>1, <3>1, GoesTurn DEF Quiet, table
  <2>3. ASSUME NEW d \in Id \ disturbed, d = wk[w].id PROVE Proceeds(w)'
    <3>1. /\ wk'[w].pc = "remove" /\ wk'[w].id = d /\ taken' = taken /\ at' = at
      BY <1>1, <2>1, <2>3 DEF Goes, Same, Quiet, disk, ghost
    <3> QED BY <1>2, <2>3, <3>1 DEF Proceeds
  <2> QED BY <1>1, <2>2, <2>3, QuietKeeps
<1> QED BY <1>3, <1>4 DEF CopyDone

LEMMA KeepsFinishFails ==
  ASSUME IInv, NEW w \in Worker, FinishFails(w) PROVE IInv'
<1>1. Quiet /\ Awake(w) /\ wk[w].pc = "finish" /\ Types
  BY DEF FinishFails, Quiet, Awake, At, IInv
<1>2. Stops(w) BY <1>1, EndStops DEF FinishFails
<1>3. Turn(w) BY <1>2 DEF Turn
<1>4. wk'[w].pc \in {"idle", "next"} BY <1>2 DEF Stops
<1> QED BY <1>1, <1>3, <1>4, QuietKeeps

LEMMA KeepsPurgeStart ==
  ASSUME IInv, NEW w \in Worker, PurgeStart(w) PROVE IInv'
<1>1. Quiet /\ Awake(w) /\ wk[w].pc = "purge" /\ Types
  BY DEF PurgeStart, Quiet, Awake, At, IInv
<1>2. Purger(w) BY <1>1, AwakeKind DEF IInv, Deleter, Restorer
<1>3. wk[w].id \in disturbed
  <2>1. wk[w].id \in Id BY <1>1, Sorts
  <2> QED BY <1>1, <1>2, <2>1, OwnFacts DEF Purger
<1>4. Goes(w, "remove") \/ Goes(w, "drop")
  <2>1. at[wk[w].src] \in SUBSET File /\ {"remove", "drop"} \subseteq Steps
    BY <1>1 DEF Types, WorkerState, Steps
  <2> QED BY <1>1, <2>1, GoesWith, GotoGoes DEF PurgeStart
<1>5. Turn(w) BY <1>1, <1>2, <1>4, GoesTurn DEF Quiet, table
<1> QED BY <1>1, <1>3, <1>5, QuietKeeps

LEMMA KeepsCheck ==
  ASSUME IInv, NEW w \in Worker, Check(w) PROVE IInv'
<1>1. Quiet /\ Awake(w) /\ wk[w].pc = "check" /\ Types
  BY DEF Check, Quiet, Awake, At, IInv
<1>2. Deleter(w) BY <1>1, AwakeKind DEF IInv, Purger, Restorer
<1>3. w \notin Job BY <1>1, <1>2, SortsAreDisjoint DEF Deleter
<1>4. ASSUME NEW d \in Id \ disturbed, d = wk[w].id
      PROVE  /\ wk[w].src = origin[d] /\ wk[w].dst = d /\ Tree
             /\ taken[d] \subseteq at[origin[d]] \cup at[d] /\ at[d] \subseteq taken[d]
             /\ d \in there => at[origin[d]] \subseteq taken[d]
             /\ origin[d] \in Folder \/ taken[d] = {} \/ Single(taken[d])
             /\ origin[d] \notin there => at[origin[d]] = {}
             /\ d \notin there => at[d] = {}
             /\ IsFolder(d) = (origin[d] \in Folder) /\ IsFolder(origin[d]) = (origin[d] \in Folder)
  BY <1>1, <1>4, OwnFacts DEF ContentOf, IInv, Tree, Whole, IsFolder, Types
<1>5. CASE Goto(w, "finish") /\ wk[w].src \notin there
  <2>1. Goes(w, "finish") BY <1>1, <1>5, GotoGoes DEF Steps
  <2>2. ASSUME NEW d \in Id \ disturbed, d = wk[w].id PROVE taken[d] \subseteq at[d]
    BY <1>4, <1>5, <2>2
  <2> QED BY <1>1, <1>2, <2>1, <2>2, QuietGoes
<1>6. CASE Goto(w, "undo") /\ wk[w].src \notin there /\ wk[w].dst \notin there
  <2>1. Goes(w, "undo") BY <1>1, <1>6, GotoGoes DEF Steps
  <2>2. ASSUME NEW d \in Id \ disturbed, d = wk[w].id PROVE taken[d] \subseteq at[origin[d]]
    BY <1>4, <1>6, <2>2
  <2> QED BY <1>1, <1>2, <2>1, <2>2, QuietGoes
<1>7. CASE Resume(w)
  <2> DEFINE l == IF wk[w].dst \notin there THEN "move" ELSE IF IsFolder(wk[w].src) THEN "copy" ELSE "remove"
             t == IF wk[w].dst \notin there THEN {} ELSE at[wk[w].src]
  <2>1. Become(w, [wk[w] EXCEPT !.pc = l, !.todo = t]) BY <1>7 DEF Resume
  <2>2. l \in Steps /\ t \in SUBSET File BY <1>1 DEF Steps, Types, WorkerState
  <2>3. l \in {"move", "copy", "remove"} OBVIOUS
  <2>4. Goes(w, l) /\ wk'[w].todo = t
    <3> HIDE DEF l, t
    <3> QED BY <1>1, <2>1, <2>2, GoesWith
  <2>5. Turn(w)
    <3> HIDE DEF l, t
    <3> QED BY <1>1, <1>2, <2>3, <2>4, GoesTurn DEF Quiet, table
  <2>6. ASSUME NEW d \in Id \ disturbed, d = wk[w].id PROVE Proceeds(w)'
    <3>1. /\ wk'[w].pc = l /\ wk'[w].todo = t /\ wk'[w].id = d
          /\ origin' = origin /\ taken' = taken /\ at' = at
      BY <1>1, <2>4, <2>6 DEF Goes, Same, Quiet, disk, table, ghost
    <3>2. CASE l = "move" BY <1>3, <3>1, <3>2 DEF Proceeds
    <3>3. CASE l = "copy"
      <4>1. d \in there /\ t = at[origin[d]] BY <1>4, <2>6, <3>3
      <4>2. t \subseteq taken[d] /\ taken[d] \subseteq t \cup at[d] BY <1>4, <2>6, <4>1
      <4> HIDE DEF l, t
      <4> QED BY <1>3, <3>1, <3>3, <4>1, <4>2 DEF Proceeds
    <3>4. CASE l = "remove"
      <4>1. d \in there /\ origin[d] \notin Folder BY <1>4, <2>6, <3>4
      <4>2. Single(at[d]) BY <1>4, <2>6, <4>1 DEF Tree
      <4>3. taken[d] \subseteq at[d] BY <1>4, <2>6, <4>1, <4>2 DEF Single
      <4> HIDE DEF l, t
      <4> QED BY <3>1, <3>4, <4>3 DEF Proceeds
    <3> QED BY <2>3, <3>2, <3>3, <3>4
  <2> HIDE DEF l, t
  <2> QED BY <1>1, <2>5, <2>6, QuietKeeps
<1> QED BY <1>5, <1>6, <1>7 DEF Check

-----------------------------------------------------------------------------
(* The steps that write the row.                                           *)

LEMMA RowKeeps ==
  ASSUME IInv, NEW w \in Worker, Awake(w), Stops(w), UNCHANGED <<disk, origin, old, queue, ghost>>,
         NEW r \in {"none", "pending", "done"}, row' = [row EXCEPT ![wk[w].id] = r],
         r = row[wk[w].id] \/ r # "pending",
         \A d \in Id \ disturbed : d = wk[w].id /\ r = "done" => taken[d] \subseteq at[d]
  PROVE  IInv'
<1> USE DEF disk, ghost
<1>0. Types /\ wk[w].id \in Id BY Sorts DEF IInv
<1>1. Types'
  <2>1. row' \in [Id -> {"none", "pending", "done"}] BY <1>0 DEF Types
  <2> QED BY <1>0, <2>1 DEF Types, Stops, Only
<1>2. Tree' BY DEF IInv, Tree, Whole, IsFolder
<1>3. row'[wk[w].id] = r /\ \A e \in Id \ {wk[w].id} : row'[e] = row[e] BY <1>0 DEF Types
<1>4. Columns(w) BY <1>3 DEF Columns
<1>5. Touches(w) BY DEF Touches
<1>6. Here(w)
  <2> SUFFICES ASSUME NEW d \in Id \ disturbed, d = wk[w].id PROVE ContentOf(d)'
    BY DEF Here, Stops
  <2>1. ContentOf(d) /\ row[d] = "pending" /\ Deleter(w) BY OwnFacts
  <2>2. row'[d] = r BY <1>3
  <2> QED BY <2>1, <2>2 DEF ContentOf
<1>7. Turn(w) BY DEF Turn
<1> QED BY <1>1, <1>2, <1>4, <1>5, <1>6, <1>7, TurnKeeps

LEMMA KeepsFinish ==
  ASSUME IInv, NEW w \in Worker, Finish(w) PROVE IInv'
<1>1. Awake(w) /\ wk[w].pc = "finish" /\ Types /\ wk[w].id \in Id
  BY Sorts DEF Finish, Awake, At, IInv
<1>2. Stops(w) BY <1>1, EndStops DEF Finish
<1> DEFINE r == IF row[wk[w].id] = "pending" THEN "done" ELSE row[wk[w].id]
<1>3. row' = [row EXCEPT ![wk[w].id] = r] BY <1>1 DEF Finish, Types
<1>4. r \in {"none", "pending", "done"} /\ (r = row[wk[w].id] \/ r # "pending")
  BY <1>1 DEF Types
<1>5. ASSUME NEW d \in Id \ disturbed, d = wk[w].id PROVE taken[d] \subseteq at[d]
  BY <1>1, <1>5, OwnFacts DEF Proceeds
<1> HIDE DEF r
<1> QED BY <1>1, <1>2, <1>3, <1>4, <1>5, RowKeeps DEF Finish

LEMMA KeepsDrop ==
  ASSUME IInv, NEW w \in Worker, Drop(w) PROVE IInv'
<1>1. Awake(w) /\ Types BY DEF Drop, Awake, At, IInv
<1>2. Stops(w) BY <1>1, EndStops DEF Drop
<1> QED BY <1>1, <1>2, RowKeeps DEF Drop

-----------------------------------------------------------------------------
(* The steps that write the disk.                                          *)

LEMMA KeepsUndo ==
  ASSUME IInv, NEW w \in Worker, Undo(w) PROVE IInv'
<1> USE DEF table, ghost
<1>1. Awake(w) /\ wk[w].pc = "undo" /\ Types /\ Tree BY DEF Undo, Awake, At, IInv
<1>2. Deleter(w) BY <1>1, AwakeKind DEF IInv, Purger, Restorer
<1> DEFINE e == wk[w].id
<1>3. e \in Id /\ e \in Place /\ wk[w].dst = e BY <1>1, <1>2, Sorts DEF Deleter, Place
<1>4. Goes(w, "drop") BY <1>1, GotoGoes DEF Undo, Steps
<1>5. Turn(w) BY <1>2, <1>4, GoesTurn DEF Undo
<1>6. Columns(w) BY DEF Undo, Columns
<1>7. at' = [at EXCEPT ![e] = {}] /\ there' = there \ {e} /\ box' = box \ {e} BY DEF Undo
<1> HIDE DEF e
<1>8. Types' BY <1>1, <1>4, <1>7 DEF Types, Goes, Only, Undo
<1>9. Tree' BY <1>1, <1>3, <1>7 DEF Types, Tree, Whole, IsFolder, Names, Undo
<1>10. Touches(w)
  <2>1. e \notin Path BY <1>1, Sorts DEF e
  <2> QED BY <1>1, <1>3, <1>7, <2>1 DEF Touches, Types, Undo
<1>11. Here(w)
  <2> SUFFICES ASSUME NEW d \in Id \ disturbed', d = wk[w].id
               PROVE  ContentOf(d)' /\ Proceeds(w)'
    BY DEF Here
  <2>1. /\ d \notin disturbed /\ origin' = origin /\ taken' = taken /\ row' = row
        /\ d = e /\ wk'[w].pc = "drop"
    BY <1>4 DEF Undo, Goes, e
  <2>2. /\ ContentOf(d) /\ row[d] = "pending" /\ taken[d] \subseteq at[origin[d]]
        /\ origin[d] # d /\ origin[d] \in Place
    BY <1>1, <2>1, OwnFacts DEF Proceeds
  <2>3. at'[d] = {} /\ at'[origin[d]] = at[origin[d]] /\ d \notin there'
    BY <1>1, <1>3, <1>7, <2>1, <2>2 DEF Types
  <2>4. ContentOf(d)' BY <2>1, <2>2, <2>3 DEF ContentOf
  <2>5. Proceeds(w)' BY <2>1 DEF Proceeds
  <2> QED BY <2>4, <2>5
<1>12. disturbed \subseteq disturbed' BY DEF Undo
<1> QED BY <1>1, <1>5, <1>6, <1>8, <1>9, <1>10, <1>11, <1>12, TurnKeeps

LEMMA KeepsUnbox ==
  ASSUME IInv, NEW w \in Worker, Unbox(w) PROVE IInv'
<1> USE DEF table, ghost
<1>1. Awake(w) /\ wk[w].pc = "unbox" /\ Types /\ Tree BY DEF Unbox, Awake, At, IInv
<1>2. Restorer(w) BY <1>1, AwakeKind DEF IInv, Purger, Deleter
<1>3. Stops(w) \/ Goes(w, "drop") BY <1>1, GotoGoes, EndStops DEF Unbox, Steps
<1>4. Turn(w) BY <1>2, <1>3, GoesTurn DEF Unbox, Turn
<1>5. Columns(w) BY DEF Unbox, Columns
<1>6. Types' BY <1>1, <1>3 DEF Types, Goes, Stops, Only, Unbox
<1>7. Tree' BY <1>1 DEF Tree, Whole, IsFolder, Unbox
<1>8. Touches(w) BY DEF Touches, Unbox
<1>9. Here(w)
  <2> SUFFICES ASSUME NEW d \in Id \ disturbed', d = wk[w].id PROVE FALSE
    BY DEF Here
  <2>1. d \notin disturbed BY DEF Unbox
  <2> QED BY <1>1, <1>2, <2>1, OwnFacts DEF Restorer, Deleter
<1>10. disturbed \subseteq disturbed' BY DEF Unbox
<1> QED BY <1>1, <1>4, <1>5, <1>6, <1>7, <1>8, <1>9, <1>10, TurnKeeps

\* Where the worker takes the item from, and where it takes it to.
LEMMA Places ==
  ASSUME Types, NEW w \in Worker, Deleter(w) \/ Purger(w) \/ Restorer(w)
  PROVE  /\ wk[w].src \in Place /\ wk[w].dst \in Place
         /\ IsFolder(wk[w].src) <=> IsFolder(wk[w].dst)
         /\ ~Purger(w) => wk[w].src # wk[w].dst
         /\ Deleter(w) => wk[w].src \in Path /\ wk[w].dst \in Id /\ wk[w].dst \notin Path
         /\ ~Deleter(w) => wk[w].src \in Id /\ wk[w].src \notin Path
  BY Sorts DEF Deleter, Purger, Restorer, IsFolder, Place

LEMMA KeepsRemoveOne ==
  ASSUME IInv, NEW w \in Worker, RemoveOne(w) PROVE IInv'
<1> USE DEF table, ghost
<1>1. Awake(w) /\ wk[w].pc = "remove" /\ Types /\ Tree BY DEF RemoveOne, Awake, At, IInv
<1>2. Deleter(w) \/ Purger(w) \/ Restorer(w) BY <1>1, AwakeKind DEF IInv
<1> DEFINE x == wk[w].src
<1>3. x \in Place BY <1>1, <1>2, Places
<1>4. PICK f \in wk[w].todo \cap at[x] :
        /\ at' = [at EXCEPT ![x] = @ \ {f}]
        /\ Become(w, [wk[w] EXCEPT !.todo = @ \ {f}])
  BY DEF RemoveOne
<1>5. there' = IF IsFolder(x) THEN there ELSE there \ {x} BY DEF RemoveOne
<1>6. Goes(w, "remove") BY <1>1, <1>4, TodoShrinks
<1>7. Turn(w) BY <1>2, <1>6, GoesTurn DEF RemoveOne
<1>8. Columns(w) BY DEF RemoveOne, Columns
<1> HIDE DEF x
<1>9. /\ at'[x] = at[x] \ {f} /\ \A y \in Place \ {x} : at'[y] = at[y]
      /\ at' \in [Place -> SUBSET File]
  BY <1>1, <1>3, <1>4 DEF Types
<1>10. Types' BY <1>1, <1>5, <1>6, <1>9 DEF Types, Goes, Only, RemoveOne
<1>11. Tree'
  <2>1. x \in there BY <1>1, <1>3, <1>4 DEF Tree, Whole
  <2>2. ~IsFolder(x) => at'[x] = {} BY <1>1, <1>4, <1>9, <2>1 DEF Tree, Single
  <2>3. ASSUME NEW y \in Place PROVE Whole(y)'
    <3>1. Whole(y) BY <1>1 DEF Tree
    <3>2. CASE y = x
      <4>1. Names(at'[x]) BY <1>9, <3>1, <3>2 DEF Whole, Names
      <4> QED BY <1>5, <2>1, <2>2, <3>2, <4>1 DEF Whole
    <3>3. CASE y # x BY <1>5, <1>9, <3>1, <3>3 DEF Whole
    <3> QED BY <3>2, <3>3
  <2>4. ASSUME NEW y \in there' PROVE (IsFolder(y) \/ Single(at[y]))'
    <3>1. y \in there /\ (IsFolder(y) \/ Single(at[y])) /\ (IsFolder(y)' <=> IsFolder(y))
      BY <1>1, <1>5, <2>4 DEF Tree, IsFolder, RemoveOne
    <3>2. ~IsFolder(y) => y # x BY <1>5, <2>4
    <3> QED BY <1>1, <1>9, <3>1, <3>2 DEF Types
  <2>5. there' \cap Id \subseteq box' BY <1>1, <1>5 DEF Tree, RemoveOne
  <2> QED BY <2>3, <2>4, <2>5 DEF Tree
<1>12. Touches(w)
  <2>1. wk[w].dst \in Path => wk[w].dst # x BY <1>1, <1>2, Places DEF x, Purger
  <2>2. wk[w].dst \in Place BY <1>1, <1>2, Places
  <2>3. \A y \in Place \ {x} : at'[y] = at[y] /\ (y \in there' <=> y \in there) BY <1>5, <1>9
  <2>4. taken' = taken BY DEF RemoveOne
  <2>5. x = wk[w].src BY DEF x
  <2> QED BY <2>1, <2>2, <2>3, <2>4, <2>5 DEF Touches
<1>13. Here(w)
  <2> SUFFICES ASSUME NEW d \in Id \ disturbed', d = wk[w].id
               PROVE  ContentOf(d)' /\ Proceeds(w)'
    BY DEF Here
  <2>1. /\ d \notin disturbed /\ origin' = origin /\ taken' = taken /\ row' = row
        /\ wk'[w].pc = "remove" /\ wk'[w].id = d
    BY <1>6 DEF RemoveOne, Goes, Same
  <2>2. /\ ContentOf(d) /\ row[d] = "pending" /\ taken[d] \subseteq at[d] /\ x = origin[d]
        /\ origin[d] # d /\ d \in Place
    BY <1>1, <2>1, OwnFacts DEF Proceeds, x
  <2>3. at'[d] = at[d] /\ at'[origin[d]] \subseteq at[origin[d]] /\ (d \in there' <=> d \in there)
    BY <1>5, <1>9, <2>2
  <2>4. ContentOf(d)' BY <2>1, <2>2, <2>3 DEF ContentOf
  <2>5. Proceeds(w)' BY <2>1, <2>2, <2>3 DEF Proceeds
  <2> QED BY <2>4, <2>5
<1>14. disturbed \subseteq disturbed' BY DEF RemoveOne
<1> QED BY <1>1, <1>7, <1>8, <1>10, <1>11, <1>12, <1>13, <1>14, TurnKeeps

LEMMA KeepsRemoveLast ==
  ASSUME IInv, NEW w \in Worker, RemoveLast(w) PROVE IInv'
<1> USE DEF table, ghost
<1>1. Awake(w) /\ wk[w].pc = "remove" /\ Types /\ Tree BY DEF RemoveLast, Awake, At, IInv
<1>2. Deleter(w) \/ Purger(w) \/ Restorer(w) BY <1>1, AwakeKind DEF IInv
<1> DEFINE x == wk[w].src
<1>3. x \in Place BY <1>1, <1>2, Places
<1>4. /\ IsFolder(x) \/ Purging(w) => at[x] = {}
      /\ there' = IF IsFolder(x) THEN there \ {x} ELSE there
      /\ box' = IF Purging(w) THEN box \ {x} ELSE box
      /\ at' = at
  BY DEF RemoveLast
<1>5. \/ Deleter(w) /\ Goes(w, "finish")
      \/ Purger(w) /\ Goes(w, "drop")
      \/ Restorer(w) /\ Goes(w, "unbox")
  BY <1>1, <1>2, MovedGoes DEF RemoveLast
<1>6. Turn(w) BY <1>5, GoesTurn DEF RemoveLast
<1>7. Columns(w) BY DEF RemoveLast, Columns
<1> HIDE DEF x
<1>8. Types' BY <1>1, <1>4, <1>5 DEF Types, Goes, Only, RemoveLast
<1>9. Tree'
  <2>1. ASSUME NEW y \in Place PROVE Whole(y)'
    BY <1>1, <1>4 DEF Tree, Whole
  <2>2. ASSUME NEW y \in there' PROVE (IsFolder(y) \/ Single(at[y]))'
    BY <1>1, <1>4, <2>2 DEF Tree, IsFolder, RemoveLast
  <2>3. there' \cap Id \subseteq box'
    <3>1. CASE Purging(w)
      <4>1. x \in there => IsFolder(x) BY <1>1, <1>4, <3>1 DEF Tree, Single
      <4> QED BY <1>1, <1>4, <3>1, <4>1 DEF Tree
    <3>2. CASE ~Purging(w) BY <1>1, <1>4, <3>2 DEF Tree
    <3> QED BY <3>1, <3>2
  <2> QED BY <2>1, <2>2, <2>3 DEF Tree
<1>10. Touches(w)
  <2>1. \A y \in Place \ {x} : at'[y] = at[y] /\ (y \in there' <=> y \in there) BY <1>4
  <2> QED BY <1>4, <2>1 DEF Touches, RemoveLast, x
<1>11. Here(w)
  <2> SUFFICES ASSUME NEW d \in Id \ disturbed', d = wk[w].id
               PROVE  ContentOf(d)' /\ Proceeds(w)'
    BY DEF Here
  <2>1. d \notin disturbed /\ origin' = origin /\ taken' = taken /\ row' = row
    BY DEF RemoveLast
  <2>2. /\ ContentOf(d) /\ row[d] = "pending" /\ taken[d] \subseteq at[d] /\ x = origin[d]
        /\ origin[d] # d /\ d \in Place /\ Deleter(w) /\ wk[w].src \in Path /\ d \notin Path
    BY <1>1, <2>1, OwnFacts, Places DEF Proceeds, x
  <2>3. Goes(w, "finish") BY <1>5, <2>2, Sorts, <1>1 DEF Purger, Restorer
  <2>4. d \in there' <=> d \in there BY <1>4, <2>2
  <2>5. ContentOf(d)' BY <1>4, <2>1, <2>2, <2>4 DEF ContentOf
  <2>6. Proceeds(w)' BY <1>4, <2>1, <2>2, <2>3 DEF Proceeds, Goes, Same
  <2> QED BY <2>5, <2>6
<1>12. disturbed \subseteq disturbed' BY DEF RemoveLast
<1> QED BY <1>1, <1>6, <1>7, <1>8, <1>9, <1>10, <1>11, <1>12, TurnKeeps

LEMMA DisturbTyped ==
  ASSUME Types, NEW x, Disturb(x)
  PROVE  /\ disturbed' \subseteq Id /\ disturbed \subseteq disturbed'
         /\ x \in Path => Claims(x) \subseteq disturbed'
         /\ x \notin Path => disturbed' = disturbed
  BY DEF Types, Disturb, Claims

LEMMA KeepsCopy ==
  ASSUME IInv, NEW w \in Worker, Copy(w) PROVE IInv'
<1> USE DEF table
<1>1. Awake(w) /\ wk[w].pc = "copy" /\ Types /\ Tree BY DEF Copy, Awake, At, IInv
<1>2. Deleter(w) \/ Restorer(w) BY <1>1, AwakeKind DEF IInv, Purger
<1> DEFINE y == wk[w].dst
<1>3. y \in Place BY <1>1, <1>2, Places
<1>4. PICK f \in wk[w].todo \cap at[wk[w].src] :
        /\ IsFolder(y) \/ y \notin there
        /\ at' = IF HasLeaf(y, f) THEN at ELSE [at EXCEPT ![y] = @ \cup {f}]
        /\ Become(w, [wk[w] EXCEPT !.todo = @ \ {f}])
  BY DEF Copy
<1>5. there' = there \cup {y} /\ Reachable(y) /\ Disturb(y) BY DEF Copy
<1>6. Goes(w, "copy") /\ wk'[w].todo = wk[w].todo \ {f} BY <1>1, <1>4, TodoShrinks
<1>7. Turn(w) BY <1>2, <1>6, GoesTurn DEF Copy
<1>8. Columns(w) BY DEF Copy, Columns
<1>9. y = wk[w].dst OBVIOUS
<1> HIDE DEF y
<1>10. f \in File BY <1>1, <1>4 DEF Types, WorkerState
<1>11. /\ at'[y] = IF HasLeaf(y, f) THEN at[y] ELSE at[y] \cup {f}
       /\ \A x \in Place \ {y} : at'[x] = at[x]
       /\ at' \in [Place -> SUBSET File]
  BY <1>1, <1>3, <1>4, <1>10 DEF Types
<1>12. disturbed' \subseteq Id /\ disturbed \subseteq disturbed' /\ (y \in Path => Claims(y) \subseteq disturbed')
  BY <1>1, <1>5, DisturbTyped
<1>13. Types' BY <1>1, <1>3, <1>5, <1>6, <1>11, <1>12 DEF Types, Goes, Only, Copy
<1>14. Tree'
  <2>1. ASSUME NEW x \in Place PROVE Whole(x)'
    <3>1. Whole(x) BY <1>1 DEF Tree
    <3>2. CASE x = y
      <4>1. Names(at'[x]) BY <1>11, <3>1, <3>2 DEF Whole, Names, HasLeaf
      <4> QED BY <1>5, <3>2, <4>1 DEF Whole
    <3>3. CASE x # y BY <1>5, <1>11, <3>1, <3>3 DEF Whole
    <3> QED BY <3>2, <3>3
  <2>2. ASSUME NEW x \in there' PROVE (IsFolder(x) \/ Single(at[x]))'
    <3>1. IsFolder(x)' <=> IsFolder(x) BY DEF IsFolder, Copy
    <3>2. CASE x # y BY <1>1, <1>5, <1>11, <2>2, <3>1, <3>2 DEF Tree, Types
    <3>3. CASE x = y /\ ~IsFolder(x)
      <4>1. at[y] = {} BY <1>1, <1>3, <1>4, <3>3 DEF Tree, Whole
      <4>2. at'[y] = {f} BY <1>11, <4>1 DEF HasLeaf
      <4> QED BY <3>3, <4>2 DEF Single
    <3> QED BY <3>1, <3>2, <3>3
  <2>3. there' \cap Id \subseteq box' BY <1>1, <1>5 DEF Tree, Reachable, Copy
  <2> QED BY <2>1, <2>2, <2>3 DEF Tree
<1>15. Touches(w) BY <1>5, <1>9, <1>11, <1>12 DEF Touches, Copy
<1>16. Here(w)
  <2> SUFFICES ASSUME NEW d \in Id \ disturbed', d = wk[w].id
               PROVE  ContentOf(d)' /\ Proceeds(w)'
    BY DEF Here
  <2>1. d \notin disturbed /\ origin' = origin /\ taken' = taken /\ row' = row
    BY <1>12 DEF Copy
  <2>2. /\ ContentOf(d) /\ Proceeds(w) /\ row[d] = "pending" /\ y = d /\ wk[w].src = origin[d]
        /\ origin[d] # d /\ d \in Place /\ origin[d] \in Place
    BY <1>1, <1>9, <2>1, OwnFacts
  <2>3. /\ wk[w].todo \subseteq taken[d] /\ taken[d] \subseteq wk[w].todo \cup at[d]
        /\ at[origin[d]] \subseteq taken[d] /\ (w \in Job => taken[d] \subseteq at[origin[d]])
        /\ Names(taken[d]) /\ at[d] \subseteq taken[d]
        /\ (origin[d] \in Folder \/ taken[d] = {} \/ Single(taken[d]))
    BY <1>1, <2>2 DEF Proceeds, ContentOf
  <2>4. at'[origin[d]] = at[origin[d]] BY <1>11, <2>2
  <2>5. at'[d] = at[d] \cup {f}
    <3>1. CASE HasLeaf(d, f)
      <4>1. f \in at[d] BY <1>4, <2>3, <3>1 DEF HasLeaf, Names
      <4> QED BY <1>11, <2>2, <3>1, <4>1
    <3>2. CASE ~HasLeaf(d, f) BY <1>11, <2>2, <3>2
    <3> QED BY <3>1, <3>2
  <2>6. at'[d] \subseteq taken[d] BY <1>4, <2>3, <2>5
  <2>7. ContentOf(d)'
    <3>1. taken[d] \subseteq at'[origin[d]] \cup at'[d]
      BY <2>2, <2>4, <2>5 DEF ContentOf
    <3> QED BY <2>1, <2>2, <2>3, <2>4, <2>6, <3>1 DEF ContentOf
  <2>8. Proceeds(w)'
    <3>1. wk'[w].pc = "copy" /\ wk'[w].id = d BY <1>6 DEF Goes, Same
    <3>2. wk'[w].todo \subseteq taken[d] /\ taken[d] \subseteq wk'[w].todo \cup at'[d]
      BY <1>6, <2>3, <2>5
    <3> QED BY <2>1, <2>3, <2>4, <3>1, <3>2 DEF Proceeds
  <2> QED BY <2>7, <2>8
<1> QED BY <1>1, <1>7, <1>8, <1>12, <1>13, <1>14, <1>15, <1>16, TurnKeeps

LEMMA KeepsMove ==
  ASSUME IInv, NEW w \in Worker, Move(w) PROVE IInv'
<1> USE DEF table
<1>1. Awake(w) /\ wk[w].pc = "move" /\ Types /\ Tree BY DEF Move, Awake, At, IInv
<1>2. Deleter(w) \/ Restorer(w) BY <1>1, AwakeKind DEF IInv, Purger
<1> DEFINE x == wk[w].src
           y == wk[w].dst
           Renamed ==
             /\ at' = [at EXCEPT ![x] = {}, ![y] = at[x]]
             /\ there' = (there \ {x}) \cup {y}
             /\ Moved(w)
           Started ==
             /\ there' = there \cup (IF IsFolder(x) THEN {y} ELSE {})
             /\ Become(w, [wk[w] EXCEPT !.pc = "copy", !.todo = at[x]])
             /\ at' = at
<1>3. /\ x \in Place /\ y \in Place /\ x # y /\ (IsFolder(x) <=> IsFolder(y))
      /\ Deleter(w) => x \in Path /\ y \in Id /\ y \notin Path
      /\ Restorer(w) => x \notin Path /\ y \in Path /\ y \notin Id
  BY <1>1, <1>2, Places, SortsAreDisjoint DEF Restorer, Deleter
<1>4. /\ x \in there /\ y \notin there /\ box' = box \cup ({y} \cap Id)
      /\ taken' = (IF y \in Id THEN [taken EXCEPT ![y] = at[x]] ELSE taken)
      /\ Disturb(y) /\ (Renamed \/ Started)
  BY DEF Move
<1>6. \/ Renamed /\ Deleter(w) /\ Goes(w, "finish")
      \/ Renamed /\ Restorer(w) /\ Goes(w, "unbox")
      \/ Started /\ Goes(w, "copy") /\ wk'[w].todo = at[x]
  <2>1. CASE Renamed BY <1>1, <1>2, <2>1, MovedGoes
  <2>2. CASE Started
    <3>1. at[x] \in SUBSET File BY <1>1, <1>3 DEF Types
    <3> QED BY <1>1, <2>2, <3>1, GoesWith DEF Steps
  <2> QED BY <1>4, <2>1, <2>2
<1>7. Turn(w)
  <2> HIDE DEF Renamed, Started
  <2> QED BY <1>2, <1>6, GoesTurn DEF Move
<1>8. Columns(w) BY DEF Move, Columns
<1>9. x = wk[w].src /\ y = wk[w].dst OBVIOUS
<1>10. at[y] = {} BY <1>1, <1>3, <1>4 DEF Tree, Whole
<1>11. /\ at' \in [Place -> SUBSET File] /\ \A z \in Place \ {x, y} : at'[z] = at[z]
       /\ there' \subseteq Place /\ \A z \in Place \ {x, y} : (z \in there' <=> z \in there)
       /\ at'[x] \subseteq at[x] /\ (at'[x] # {} => x \in there')
       /\ at'[y] \in {{}, at[x]} /\ (at'[y] # {} => y \in there') /\ (y \in there' /\ at'[y] = {} => at[x] = {} \/ IsFolder(y))
       /\ x \in there' => at'[x] = at[x]
  BY <1>1, <1>3, <1>4, <1>10 DEF Types
<1> HIDE DEF Renamed, Started, x, y
<1>12. disturbed' \subseteq Id /\ disturbed \subseteq disturbed' /\ (y \in Path => Claims(y) \subseteq disturbed')
  BY <1>1, <1>4, DisturbTyped
<1>13. Types'
  <2>1. taken' \in [Id -> SUBSET File] BY <1>1, <1>3, <1>4 DEF Types
  <2>2. wk' \in [Worker -> WorkerState] BY <1>7 DEF Turn, Stops, Only
  <2>3. box' \subseteq Id BY <1>1, <1>4 DEF Types
  <2> QED BY <1>1, <1>11, <1>12, <2>1, <2>2, <2>3 DEF Types, Move
<1>14. Tree'
  <2>0. Names(at[x]) /\ (IsFolder(x) \/ Single(at[x])) BY <1>1, <1>3, <1>4 DEF Tree, Whole
  <2>1. ASSUME NEW z \in Place PROVE Whole(z)'
    <3>1. Whole(z) BY <1>1 DEF Tree
    <3>2. CASE z = x BY <1>11, <2>0, <3>2 DEF Whole, Names
    <3>3. CASE z = y BY <1>11, <2>0, <3>3 DEF Whole, Names
    <3>4. CASE z \notin {x, y} BY <1>11, <3>1, <3>4 DEF Whole
    <3> QED BY <3>2, <3>3, <3>4
  <2>2. ASSUME NEW z \in there' PROVE (IsFolder(z) \/ Single(at[z]))'
    <3>1. (IsFolder(z)' <=> IsFolder(z)) /\ z \in Place BY <1>11, <2>2 DEF IsFolder, Move
    <3>2. CASE z = x BY <1>11, <2>0, <2>2, <3>1, <3>2
    <3>3. CASE z = y
      <4>1. at[x] = {} => IsFolder(x) BY <2>0 DEF Single
      <4> QED BY <1>3, <1>11, <2>0, <2>2, <3>1, <3>3, <4>1
    <3>4. CASE z \notin {x, y} BY <1>1, <1>11, <2>2, <3>1, <3>4 DEF Tree
    <3> QED BY <3>2, <3>3, <3>4
  <2>3. there' \cap Id \subseteq box'
    <3> SUFFICES ASSUME NEW z \in there', z \in Id PROVE z \in box' OBVIOUS
    <3>1. CASE z = y BY <1>4, <3>1
    <3>2. CASE z # y
      <4>1. z \in there BY <1>4, <1>11, <3>2
      <4> QED BY <1>1, <1>4, <4>1 DEF Tree
    <3> QED BY <3>1, <3>2
  <2> QED BY <2>1, <2>2, <2>3 DEF Tree
<1>15. Touches(w)
  <2>1. \A d \in Id \ {y} : taken'[d] = taken[d] BY <1>1, <1>4 DEF Types
  <2> QED BY <1>9, <1>11, <1>12, <2>1 DEF Touches
<1>16. Here(w)
  <2> SUFFICES ASSUME NEW d \in Id \ disturbed', d = wk[w].id
               PROVE  ContentOf(d)' /\ Proceeds(w)'
    BY DEF Here
  <2>1. d \notin disturbed /\ origin' = origin /\ row' = row BY <1>12 DEF Move
  <2>2. /\ row[d] = "pending" /\ y = d /\ x = origin[d] /\ Deleter(w) /\ d \notin Path
        /\ origin[d] # d /\ d \in Place /\ origin[d] \in Place /\ ContentOf(d)
    BY <1>1, <1>9, <2>1, OwnFacts
  <2>3. taken'[d] = at[x] BY <1>1, <1>4, <2>2 DEF Types
  <2>4. Names(at[x]) /\ (origin[d] \in Folder \/ Single(at[x]))
    BY <1>1, <1>3, <1>4, <2>2 DEF Tree, Whole, IsFolder
  <2>5. ~Restorer(w) BY <1>3, <2>2
  <2>6. CASE Renamed /\ Goes(w, "finish")
    <3>1. at'[x] = {} /\ at'[y] = at[x] BY <1>1, <1>3, <2>6 DEF Renamed, Types
    <3>2. ContentOf(d)' BY <2>1, <2>2, <2>3, <2>4, <3>1 DEF ContentOf
    <3>3. Proceeds(w)' BY <2>1, <2>2, <2>3, <2>6, <3>1 DEF Proceeds, Goes, Same
    <3> QED BY <3>2, <3>3
  <2>7. CASE Started /\ Goes(w, "copy") /\ wk'[w].todo = at[x]
    <3>1. at' = at BY <2>7 DEF Started
    <3>2. ContentOf(d)' BY <1>10, <2>1, <2>2, <2>3, <2>4, <3>1 DEF ContentOf
    <3>3. Proceeds(w)' BY <2>1, <2>2, <2>3, <2>7, <3>1 DEF Proceeds, Goes, Same
    <3> QED BY <3>2, <3>3
  <2> QED BY <1>6, <2>5, <2>6, <2>7
<1> QED BY <1>1, <1>7, <1>8, <1>12, <1>13, <1>14, <1>15, <1>16, TurnKeeps

-----------------------------------------------------------------------------
(* The steps that put a worker to work or end it.                          *)

\* Whoever takes up a path takes it from the queue.
LEMMA ClaimsKept ==
  ASSUME Types, origin' = origin, row' = row, NEW p \in Path,
         \A d \in queue' : d \in queue \/ row[d] = "pending",
         \A v \in Worker : wk'[v].src = p =>
           (wk'[v].id = wk[v].id /\ wk'[v].src = wk[v].src) \/ wk'[v].id \in queue
  PROVE  Claims(p)' \subseteq Claims(p)
  BY DEF Claims

LEMMA AloneKept ==
  ASSUME Types, Alone, origin' = origin, row' = row, disturbed \subseteq disturbed',
         \A d \in queue' : row[d] = "pending",
         \A v \in Worker : wk'[v].src \in Path =>
           (wk'[v].id = wk[v].id /\ wk'[v].src = wk[v].src) \/ wk'[v].id \in queue,
         \A v \in Worker : Awake(v)' /\ wk'[v].id \notin disturbed' => Sole(v)'
  PROVE  Alone'
<1> SUFFICES ASSUME NEW d \in Id, d \notin disturbed' PROVE AloneAt(d)'
  BY DEF Alone
<1>1. AloneAt(d) /\ origin[d] \in Path BY DEF Alone, Types
<1>2. ASSUME NEW p \in Path, p = origin[d] PROVE Claims(p)' \subseteq Claims(p)
  BY ClaimsKept
<1>3. (d \in Claims(origin[d]) => Claims(origin[d]) \subseteq {d})'
  <2>1. ASSUME NEW p \in Path, p = origin'[d], d \in Claims(p)' PROVE Claims(p)' \subseteq {d}
    BY <1>1, <1>2, <2>1 DEF AloneAt
  <2> QED BY <1>1, <2>1 DEF Claims
<1> QED BY <1>1, <1>3 DEF AloneAt

LEMMA ItemsKept ==
  ASSUME IInv, UNCHANGED <<disk, row, origin, taken>>, disturbed \subseteq disturbed'
  PROVE  Tree' /\ Contents'
<1>1. Tree' BY DEF disk, IInv, Tree, Whole, IsFolder
<1>2. ASSUME NEW d \in Id \ disturbed' PROVE ContentOf(d)'
  BY <1>2 DEF disk, IInv, Contents, ContentOf
<1> QED BY <1>1, <1>2 DEF Contents

LEMMA OthersProceed ==
  ASSUME Progress, NEW v \in Worker, wk'[v] = wk[v], UNCHANGED <<at, origin, taken>>,
         disturbed \subseteq disturbed', Awake(v)', wk'[v].id \notin disturbed'
  PROVE  Proceeds(v)'
  BY DEF Progress, Proceeds, Awake

LEMMA IdleSleeps ==
  ASSUME Kinds, NEW w \in Worker, wk[w].pc \in {"idle", "next"}
  PROVE  Sleeps(w) /\ ~Awake(w)
  BY DEF Kinds, KindOf, Deleter, Purger, Restorer, Awake

\* A request or the maintenance takes up an item in the trash.
LEMMA TakesUp ==
  ASSUME IInv, NEW w \in Worker, w \notin Job, ~Awake(w), Only(w), NEW d \in Id,
         wk'[w].id = d, wk'[w].src = d, KindOf(w)', Awake(w)',
         disturbed' = disturbed \cup {d}, UNCHANGED <<disk, table, queue, taken, born>>
  PROVE  IInv'
<1> USE DEF table
<1>0. Types /\ Kinds /\ Listed /\ Alone /\ Progress BY DEF IInv
<1>1. Types' BY <1>0 DEF Types, Only, disk
<1>2. Tree' /\ Contents' BY ItemsKept
<1>3. Kinds'
  <2>1. ASSUME NEW v \in Worker \ {w} PROVE KindOf(v)'
    BY <1>0 DEF Only, Kinds, KindOf, Sleeps, Deleter, Purger, Restorer
  <2> QED BY <2>1 DEF Kinds
<1>4. Listed'
  <2>1. \A v \in Job : v \in Worker \ {w} BY DEF Worker
  <2> QED BY <1>0, <2>1 DEF Only, Listed, Awake
<1>5. ASSUME NEW v \in Worker, Awake(v)', wk'[v].id \notin disturbed'
      PROVE  v # w /\ wk'[v] = wk[v] /\ Sole(v)'
  <2>1. v # w /\ wk'[v] = wk[v] /\ wk[v].id # d /\ Awake(v) BY <1>5 DEF Only, Awake
  <2>2. Sole(v)
    <3>1. wk[v].id \in Id \ disturbed BY <1>0, <1>5, <2>1, Sorts
    <3> QED BY <1>0, <2>1, <3>1 DEF Alone, AloneAt
  <2>3. \A u \in Worker \ {v} : Awake(u)' => wk'[u].id # wk'[v].id
    BY <2>1, <2>2 DEF Only, Sole, Awake
  <2>4. Deleter(v)' BY <2>1, <2>2 DEF Sole, Deleter
  <2> QED BY <2>1, <2>2, <2>3, <2>4 DEF Sole
<1>6. Alone'
  <2>1. d \notin Path BY SortsAreDisjoint
  <2>2. \A v \in Worker : wk'[v].src \in Path => wk'[v] = wk[v] BY <2>1 DEF Only
  <2>3. ASSUME NEW e \in Id, e \notin disturbed' PROVE AloneAt(e)'
    <3>1. AloneAt(e) /\ origin[e] \in Path BY <1>0, <2>3 DEF Alone, Types
    <3>2. ASSUME NEW p \in Path, p = origin[e] PROVE Claims(p)' \subseteq Claims(p)
      BY <1>0, <2>2, <3>2, ClaimsKept
    <3>3. (e \in Claims(origin[e]) => Claims(origin[e]) \subseteq {e})'
      <4>1. ASSUME NEW p \in Path, p = origin'[e], e \in Claims(p)' PROVE Claims(p)' \subseteq {e}
        BY <3>1, <3>2, <4>1 DEF AloneAt
      <4> QED BY <3>1, <4>1 DEF Claims
    <3> QED BY <1>5, <2>3, <3>1, <3>3 DEF AloneAt
  <2> QED BY <2>3 DEF Alone
<1>7. ASSUME NEW v \in Worker, Awake(v)', wk'[v].id \notin disturbed' PROVE Proceeds(v)'
  BY <1>0, <1>5, <1>7, OthersProceed DEF disk
<1>8. Progress' BY <1>7 DEF Progress
<1> QED BY <1>1, <1>2, <1>3, <1>4, <1>6, <1>8 DEF IInv

LEMMA KeepsRestore ==
  ASSUME IInv, NEW w \in Worker, Restore(w) PROVE IInv'
<1>1. Types /\ Kinds /\ w \in User /\ w \notin Job /\ wk[w].pc = "idle"
  BY SortsAreDisjoint DEF Restore, At, IInv
<1>2. PICK d \in Id :
        /\ FreePaths(d) # {} /\ disturbed' = disturbed \cup {d}
        /\ Become(w, [Resting EXCEPT !.pc = "move", !.id = d, !.src = d, !.dst = Min(FreePaths(d))])
  BY DEF Restore
<1>3. Min(FreePaths(d)) \in FreePaths(d)
  <2>1. FreePaths(d) \in SUBSET Path BY DEF FreePaths
  <2> QED BY <1>2, <2>1, PathsAreOrdered, LeastNatural
<1> DEFINE p == Min(FreePaths(d))
<1>4. p \in Path /\ (p \in Folder <=> origin[d] \in Folder) BY <1>3 DEF FreePaths
<1> HIDE DEF p
<1>5. Only(w) /\ wk'[w].pc = "move" /\ wk'[w].id = d /\ wk'[w].src = d /\ wk'[w].dst = p
  <2>1. Become(w, [Resting EXCEPT !.pc = "move", !.id = d, !.src = d, !.dst = p]) BY <1>2 DEF p
  <2> QED BY <1>1, <1>4, <2>1, Starts DEF Steps, Place
<1>6. Restorer(w)' /\ Awake(w)' BY <1>1, <1>4, <1>5 DEF Restorer, Awake, Restore, table
<1>7. ~Awake(w) BY <1>1 DEF Awake
<1> QED BY <1>1, <1>2, <1>5, <1>6, <1>7, TakesUp DEF KindOf, Restore

LEMMA KeepsPurge ==
  ASSUME IInv, NEW w \in Worker, Purge(w) PROVE IInv'
<1>1. Types /\ Kinds /\ w \notin Job /\ wk[w].pc = "idle" BY DEF Purge, At, IInv
<1>2. PICK d \in Id :
        /\ disturbed' = disturbed \cup {d}
        /\ Become(w, [Resting EXCEPT !.pc = "purge", !.id = d, !.src = d, !.dst = d])
  BY DEF Purge, Expirable
<1>3. Only(w) /\ wk'[w].pc = "purge" /\ wk'[w].id = d /\ wk'[w].src = d /\ wk'[w].dst = d
  BY <1>1, <1>2, Starts DEF Steps, Place
<1>4. Purger(w)' /\ Awake(w)' BY <1>1, <1>3 DEF Purger, Awake
<1>5. ~Awake(w) BY <1>1 DEF Awake
<1> QED BY <1>1, <1>2, <1>3, <1>4, <1>5, TakesUp DEF KindOf, Purge

\* The maintenance lists what nobody has taken up.
LEMMA KeepsRecover ==
  ASSUME IInv, Recover PROVE IInv'
<1> USE DEF table, disk, ghost
<1>0. Types /\ Kinds /\ Listed /\ Alone /\ Progress /\ Hourly \in Worker BY DEF IInv, Worker
<1>1. Stops(Hourly) /\ Sleeps(Hourly) /\ ~Awake(Hourly)
  BY <1>0, EndStops, IdleSleeps DEF Recover, At
<1>2. /\ Only(Hourly) /\ queue' = {d \in old : row[d] = "pending"}
      /\ wk'[Hourly].id = wk[Hourly].id /\ wk'[Hourly].src = wk[Hourly].src
  BY <1>1 DEF Stops, Recover, Sleeps
<1>3. Types' BY <1>0, <1>2 DEF Types, Only, Recover
<1>4. Tree' /\ Contents' BY ItemsKept DEF Recover
<1>5. Kinds'
  <2>1. KindOf(Hourly)' BY <1>1 DEF Stops, KindOf, Sleeps
  <2>2. ASSUME NEW v \in Worker \ {Hourly} PROVE KindOf(v)'
    BY <1>0, <1>2 DEF Only, Kinds, KindOf, Sleeps, Deleter, Purger, Restorer, Recover
  <2> QED BY <2>1, <2>2 DEF Kinds
<1>6. \A v \in Worker : Awake(v)' => wk'[v] = wk[v] /\ Awake(v) /\ v # Hourly
  BY <1>1, <1>2 DEF Only, Stops, Awake
<1>7. Listed' BY <1>0, <1>6 DEF Listed, Worker, Recover
<1>8. ASSUME NEW v \in Worker, Awake(v)', wk'[v].id \notin disturbed' PROVE Sole(v)'
  <2>1. wk'[v] = wk[v] /\ Awake(v) /\ v # Hourly BY <1>6, <1>8
  <2>2. Sole(v)
    <3>1. wk[v].id \in Id \ disturbed BY <1>0, <1>8, <2>1, Sorts DEF Recover
    <3> QED BY <1>0, <2>1, <3>1 DEF Alone, AloneAt
  <2>3. v \in Job BY <2>1, <2>2 DEF Sole, Deleter, Worker
  <2>4. wk'[v].id \notin queue' BY <1>0, <1>2, <2>1, <2>3 DEF Listed
  <2>5. \A u \in Worker \ {v} : Awake(u)' => wk'[u].id # wk'[v].id BY <1>6, <2>1, <2>2 DEF Sole
  <2>6. Deleter(v)' BY <2>1, <2>2 DEF Sole, Deleter, Recover
  <2> QED BY <2>1, <2>2, <2>4, <2>5, <2>6 DEF Sole, Recover
<1>9. Alone'
  <2>1. \A v \in Worker : wk'[v].id = wk[v].id /\ wk'[v].src = wk[v].src BY <1>2 DEF Only
  <2> QED BY <1>0, <1>2, <1>8, <2>1, AloneKept DEF Recover
<1>10. ASSUME NEW v \in Worker, Awake(v)', wk'[v].id \notin disturbed' PROVE Proceeds(v)'
  BY <1>0, <1>6, <1>10, OthersProceed DEF Recover
<1>11. Progress' BY <1>10 DEF Progress
<1> QED BY <1>3, <1>4, <1>5, <1>7, <1>9, <1>11 DEF IInv

LEMMA KeepsCrash ==
  ASSUME IInv, Crash PROVE IInv'
<1> USE DEF disk, ghost
<1>0. Types /\ Kinds /\ Alone BY DEF IInv
<1>1. \A v \in Worker : wk'[v].pc = "idle" /\ wk'[v].id = NoId /\ wk'[v].src = NoId
  BY DEF Crash, Resting
<1>2. Types'
  <2>1. wk' \in [Worker -> WorkerState] BY RestingTyped DEF Crash
  <2> QED BY <1>0, <2>1 DEF Types, Crash
<1>3. Tree' /\ Contents' BY ItemsKept DEF Crash
<1>4. Kinds' BY <1>1 DEF Kinds, KindOf, Sleeps
<1>5. \A v \in Worker : ~Awake(v)' BY <1>1 DEF Awake
<1>6. Listed' /\ Progress' BY <1>5 DEF Listed, Progress, Worker
<1>7. Alone'
  <2>1. NoId \notin Path BY NoIdIn, SortsAreDisjoint
  <2>2. \A v \in Worker : wk'[v].src \notin Path BY <1>1, <2>1
  <2> QED BY <1>0, <1>5, <2>2, AloneKept DEF Crash
<1> QED BY <1>2, <1>3, <1>4, <1>6, <1>7 DEF IInv

LEMMA KeepsRecoverNext ==
  ASSUME IInv, RecoverNext PROVE IInv'
<1> USE DEF table, disk, ghost
<1>0. Types /\ Kinds /\ Listed /\ Alone /\ Progress /\ Hourly \in Worker /\ Hourly \notin Job \cup User
  BY SortsAreDisjoint DEF IInv, Worker
<1>1. Sleeps(Hourly) /\ ~Awake(Hourly) BY <1>0, IdleSleeps DEF RecoverNext, At
<1>2. Tree' /\ Contents' BY ItemsKept DEF RecoverNext
<1>3. CASE queue = {} /\ Rest(Hourly) /\ UNCHANGED queue
  <2>1. Only(Hourly) /\ wk'[Hourly] = Resting BY <1>0, <1>3, RestingTyped, Becomes DEF Rest
  <2>2. wk'[Hourly].pc = "idle" /\ wk'[Hourly].id = NoId /\ wk'[Hourly].src = NoId
    BY <2>1 DEF Resting
  <2>3. Turn(Hourly) BY <2>1, <2>2 DEF Turn, Stops
  <2>4. Types' BY <1>0, <1>3, <2>1 DEF Types, Only, RecoverNext
  <2>5. Kinds'
    <3>1. ASSUME NEW v \in Worker PROVE KindOf(v)'
      BY <1>0, <2>1, <2>2 DEF Only, Kinds, KindOf, Sleeps, Deleter, Purger, Restorer, RecoverNext
    <3> QED BY <3>1 DEF Kinds
  <2>6. \A v \in Worker : Awake(v)' => wk'[v] = wk[v] /\ Awake(v)
    BY <2>1, <2>2 DEF Only, Awake
  <2>7. Listed' BY <1>0, <2>6 DEF Listed, Worker, RecoverNext
  <2>8. ASSUME NEW v \in Worker, Awake(v)', wk'[v].id \notin disturbed' PROVE Sole(v)' /\ Proceeds(v)'
    <3>1. wk'[v] = wk[v] /\ Awake(v) BY <2>6, <2>8
    <3>2. wk[v].id \in Id \ disturbed BY <1>0, <2>8, <3>1, Sorts DEF RecoverNext
    <3>3. Sole(v) BY <1>0, <3>1, <3>2 DEF Alone, AloneAt
    <3>4. \A u \in Worker \ {v} : Awake(u)' => wk'[u].id # wk'[v].id BY <2>6, <3>1, <3>3 DEF Sole
    <3>5. Deleter(v)' BY <3>1, <3>3 DEF Sole, Deleter, RecoverNext
    <3>6. Proceeds(v)' BY <1>0, <2>8, <3>1, OthersProceed DEF RecoverNext
    <3> QED BY <1>3, <3>1, <3>3, <3>4, <3>5, <3>6 DEF Sole, RecoverNext
  <2>9. Alone'
    <3>1. NoId \notin Path BY NoIdIn, SortsAreDisjoint
    <3>2. \A v \in Worker : wk'[v].src \in Path => wk'[v] = wk[v] BY <2>1, <2>2, <3>1 DEF Only
    <3> QED BY <1>0, <1>3, <2>8, <3>2, AloneKept DEF RecoverNext
  <2>10. Progress' BY <2>8 DEF Progress
  <2> QED BY <1>2, <2>4, <2>5, <2>7, <2>9, <2>10 DEF IInv
<1>4. CASE queue # {}
  <2>1. PICK d \in queue :
          /\ queue' = queue \ {d}
          /\ Become(Hourly, [Resting EXCEPT !.pc = "check", !.id = d, !.src = origin[d], !.dst = d])
    BY <1>4 DEF RecoverNext
  <2>2. d \in Id /\ origin[d] \in Path /\ d \notin Path BY <1>0, SortsAreDisjoint DEF Types
  <2>3. /\ Only(Hourly) /\ wk'[Hourly].pc = "check" /\ wk'[Hourly].id = d
        /\ wk'[Hourly].src = origin[d] /\ wk'[Hourly].dst = d
    <3>1. "check" \in Steps /\ d \in Place /\ origin[d] \in Place BY <2>2 DEF Steps, Place
    <3>2. ASSUME NEW x \in Place, x = origin[d]
          PROVE  /\ Only(Hourly) /\ wk'[Hourly].pc = "check" /\ wk'[Hourly].id = d
                 /\ wk'[Hourly].src = x /\ wk'[Hourly].dst = d
      <4>1. Become(Hourly, [Resting EXCEPT !.pc = "check", !.id = d, !.src = x, !.dst = d])
        BY <2>1, <3>2
      <4> QED BY <1>0, <2>2, <3>1, <4>1, Starts
    <3> QED BY <3>1, <3>2
  <2>4. Types' BY <1>0, <2>1, <2>3 DEF Types, Only, RecoverNext
  <2>5. Deleter(Hourly)' BY <1>0, <2>3 DEF Deleter, RecoverNext
  <2>6. Kinds'
    <3>1. ASSUME NEW v \in Worker \ {Hourly} PROVE KindOf(v)'
      BY <1>0, <2>3 DEF Only, Kinds, KindOf, Sleeps, Deleter, Purger, Restorer, RecoverNext
    <3> QED BY <2>5, <3>1 DEF Kinds, KindOf
  <2>7. \A v \in Worker \ {Hourly} : wk'[v] = wk[v] /\ (Awake(v)' <=> Awake(v))
    BY <2>3 DEF Only, Awake
  <2>8. Listed' BY <1>0, <2>7 DEF Listed, Worker, RecoverNext
  <2>9. d \notin disturbed =>
          row[d] = "pending" /\ \A v \in Worker : Awake(v) => wk[v].id # d
    BY <2>1, <2>2, <1>0 DEF Alone, AloneAt, Sole
  <2>10. ASSUME NEW v \in Worker, Awake(v)', wk'[v].id \notin disturbed' PROVE Sole(v)' /\ Proceeds(v)'
    <3>1. CASE v = Hourly
      <4>1. \A u \in Worker \ {v} : Awake(u)' => wk'[u].id # d
        BY <2>3, <2>7, <2>9, <2>10, <3>1 DEF RecoverNext
      <4>2. row'[d] = "pending" /\ d \notin queue' BY <2>1, <2>3, <2>9, <2>10, <3>1 DEF RecoverNext
      <4>3. Proceeds(v)' BY <2>3, <3>1 DEF Proceeds
      <4> QED BY <2>3, <2>5, <3>1, <4>1, <4>2, <4>3 DEF Sole
    <3>2. CASE v # Hourly
      <4>1. wk'[v] = wk[v] /\ Awake(v) BY <2>7, <2>10, <3>2
      <4>2. wk[v].id \in Id \ disturbed BY <1>0, <2>10, <4>1, Sorts DEF RecoverNext
      <4>3. Sole(v) BY <1>0, <4>1, <4>2 DEF Alone, AloneAt
      <4>4. wk[v].id # d BY <2>1, <4>3 DEF Sole
      <4>5. \A u \in Worker \ {v} : Awake(u)' => wk'[u].id # wk'[v].id
        BY <2>3, <2>7, <4>1, <4>3, <4>4 DEF Sole
      <4>6. Deleter(v)' BY <4>1, <4>3 DEF Sole, Deleter, RecoverNext
      <4>7. Proceeds(v)' BY <1>0, <2>10, <4>1, OthersProceed DEF RecoverNext
      <4> QED BY <2>1, <4>1, <4>3, <4>5, <4>6, <4>7 DEF Sole, RecoverNext
    <3> QED BY <3>1, <3>2
  <2>11. Alone'
    <3>1. \A v \in Worker : wk'[v].src \in Path => wk'[v] = wk[v] \/ wk'[v].id \in queue
      BY <2>1, <2>3 DEF Only
    <3>2. ASSUME NEW e \in Id, e \notin disturbed' PROVE AloneAt(e)'
      <4>1. AloneAt(e) /\ origin[e] \in Path BY <1>0, <3>2 DEF Alone, Types, RecoverNext
      <4>2. ASSUME NEW p \in Path, p = origin[e] PROVE Claims(p)' \subseteq Claims(p)
        BY <1>0, <2>1, <3>1, <4>2, ClaimsKept DEF RecoverNext
      <4>3. (e \in Claims(origin[e]) => Claims(origin[e]) \subseteq {e})'
        <5>1. ASSUME NEW p \in Path, p = origin'[e], e \in Claims(p)' PROVE Claims(p)' \subseteq {e}
          BY <4>1, <4>2, <5>1 DEF AloneAt, RecoverNext
        <5> QED BY <4>1, <5>1 DEF Claims, RecoverNext
      <4>4. e \in queue' => row'[e] = "pending" BY <2>1, <4>1 DEF AloneAt, RecoverNext
      <4> QED BY <2>10, <3>2, <4>3, <4>4 DEF AloneAt
    <3> QED BY <3>2 DEF Alone
  <2>12. Progress' BY <2>10 DEF Progress
  <2> QED BY <1>2, <2>4, <2>6, <2>8, <2>11, <2>12 DEF IInv
<1> QED BY <1>3, <1>4 DEF RecoverNext

\* A new deletion is of an id that nothing is left of, and alone if nobody
\* claims its path.
LEMMA KeepsDelete ==
  ASSUME IInv, NEW w \in Worker, Delete(w) PROVE IInv'
<1> USE DEF disk
<1>0. Types /\ Tree /\ Kinds /\ Listed /\ Alone /\ Contents /\ Progress BY DEF IInv
<1>1. w \in Job /\ w \notin User /\ wk[w].pc = "idle" BY SortsAreDisjoint DEF Delete, At
<1> DEFINE d == CHOOSE d \in Fresh : TRUE
<1>2. d \in Fresh BY DEF Delete
<1>3. PICK p \in Path \cap there :
        /\ row' = [row EXCEPT ![d] = "pending"] /\ origin' = [origin EXCEPT ![d] = p]
        /\ old' = old \ {d} /\ taken' = [taken EXCEPT ![d] = {}]
        /\ Become(w, [Resting EXCEPT !.pc = "move", !.id = d, !.src = p, !.dst = d])
        /\ disturbed' = IF Claims(p) = {} THEN disturbed \ {d} ELSE disturbed \cup Claims(p) \cup {d}
  BY DEF Delete
<1> HIDE DEF d
<1>4. /\ d \in Id /\ row[d] = "none" /\ d \notin box /\ d \notin queue
      /\ \A v \in Worker : wk[v].pc = "idle" \/ wk[v].id # d
  BY <1>2 DEF Fresh, At
<1>5. Only(w) /\ wk'[w].pc = "move" /\ wk'[w].id = d /\ wk'[w].src = p /\ wk'[w].dst = d
  BY <1>0, <1>3, <1>4, Starts DEF Steps, Place
<1>6. /\ row'[d] = "pending" /\ origin'[d] = p /\ taken'[d] = {}
      /\ \A e \in Id \ {d} : row'[e] = row[e] /\ origin'[e] = origin[e] /\ taken'[e] = taken[e]
  BY <1>0, <1>3, <1>4 DEF Types
<1>7. at' = at /\ there' = there /\ box' = box /\ queue' = queue /\ born' = born BY DEF Delete
<1>8. \A e \in Id \ disturbed' :
        \/ e = d /\ Claims(p) = {}
        \/ e # d /\ e \notin disturbed /\ e \notin Claims(p)
  BY <1>3
<1>9. Types'
  <2>1. row' \in [Id -> {"none", "pending", "done"}] /\ origin' \in [Id -> Path]
        /\ taken' \in [Id -> SUBSET File]
    BY <1>0, <1>3 DEF Types
  <2>2. disturbed' \subseteq Id BY <1>0, <1>3, <1>4 DEF Types, Claims
  <2>3. old' \subseteq Id BY <1>0, <1>3 DEF Types
  <2> QED BY <1>0, <1>5, <1>7, <2>1, <2>2, <2>3 DEF Types, Only
<1>10. d \notin there /\ at[d] = {} BY <1>0, <1>4 DEF Tree, Whole, Place
<1>11. Tree'
  <2>1. \A x \in Place : Whole(x)' BY <1>0, <1>7 DEF Tree, Whole
  <2>2. ASSUME NEW x \in there' PROVE (IsFolder(x) \/ Single(at[x]))'
    <3>1. x # d /\ x \in Place /\ (IsFolder(x) \/ Single(at[x]))
      BY <1>0, <1>7, <1>10, <2>2 DEF Tree, Types
    <3> QED BY <1>6, <1>7, <3>1 DEF IsFolder, Place
  <2>3. there' \cap Id \subseteq box' BY <1>0, <1>7 DEF Tree
  <2> QED BY <2>1, <2>2, <2>3 DEF Tree
<1>12. \A v \in Worker \ {w} : wk'[v] = wk[v] /\ (Awake(v)' <=> Awake(v)) /\ (Awake(v) => wk[v].id # d)
  BY <1>4, <1>5 DEF Only, Awake
<1>13. Kinds'
  <2>1. Deleter(w)' BY <1>1, <1>5, <1>6 DEF Deleter
  <2>2. ASSUME NEW v \in Worker \ {w} PROVE KindOf(v)'
    <3>1. CASE Awake(v)
      <4>1. wk'[v] = wk[v] /\ origin'[wk[v].id] = origin[wk[v].id]
        BY <1>0, <1>6, <1>12, <3>1, Sorts
      <4> QED BY <1>0, <4>1 DEF Kinds, KindOf, Sleeps, Deleter, Purger, Restorer
    <3>2. CASE ~Awake(v)
      <4>1. Sleeps(v) BY <1>0, <3>2, IdleSleeps DEF Awake
      <4> QED BY <1>12, <4>1 DEF KindOf, Sleeps
    <3> QED BY <3>1, <3>2
  <2> QED BY <2>1, <2>2 DEF Kinds, KindOf
<1>14. Listed'
  <2>1. ASSUME NEW v \in Job, Awake(v)' PROVE wk'[v].id \notin old'
    <3>1. CASE v = w BY <1>3, <1>5, <3>1
    <3>2. CASE v # w BY <1>0, <1>3, <1>12, <2>1, <3>2 DEF Listed, Worker
    <3> QED BY <3>1, <3>2
  <2> QED BY <2>1 DEF Listed
<1>15. ASSUME NEW q \in Path, NEW e \in Id, e \in Claims(q)'
       PROVE  (e = d /\ q = p) \/ (e # d /\ e \in Claims(q))
  <2>1. origin'[e] = q BY <1>15 DEF Claims
  <2>2. CASE e = d BY <1>6, <2>1, <2>2
  <2>3. CASE e # d
    <3>1. origin[e] = q BY <1>6, <2>1, <2>3
    <3>2. CASE row'[e] = "pending" \/ e \in queue' BY <1>6, <1>7, <2>3, <3>1, <3>2 DEF Claims
    <3>3. CASE \E v \in Worker : wk'[v].id = e /\ wk'[v].src = q
      <4>1. PICK v \in Worker : wk'[v].id = e /\ wk'[v].src = q BY <3>3
      <4>2. v # w BY <1>5, <2>3, <4>1
      <4>3. wk[v].id = e /\ wk[v].src = q BY <1>12, <4>1, <4>2
      <4> QED BY <2>3, <3>1, <4>3 DEF Claims
    <3> QED BY <1>15, <3>2, <3>3 DEF Claims
  <2> QED BY <2>2, <2>3
<1>16. ASSUME NEW v \in Worker, Awake(v)', wk'[v].id \notin disturbed' PROVE Sole(v)' /\ Proceeds(v)'
  <2>1. CASE v = w
    <3>1. \A u \in Worker \ {v} : Awake(u)' => wk'[u].id # d BY <1>12, <2>1
    <3>2. Deleter(v)' BY <1>1, <1>5, <1>6, <2>1 DEF Deleter
    <3>3. Sole(v)' BY <1>4, <1>5, <1>6, <1>7, <2>1, <3>1, <3>2 DEF Sole
    <3>4. Proceeds(v)' BY <1>5, <1>6, <2>1 DEF Proceeds
    <3> QED BY <3>3, <3>4
  <2>2. CASE v # w
    <3>1. wk'[v] = wk[v] /\ Awake(v) /\ wk[v].id # d /\ wk[v].id \in Id
      BY <1>0, <1>12, <1>16, <2>2, Sorts
    <3>2. wk[v].id \notin disturbed BY <1>8, <1>16, <3>1
    <3>3. Sole(v) /\ Proceeds(v) BY <1>0, <3>1, <3>2 DEF Alone, AloneAt, Progress
    <3> DEFINE e == wk[v].id
    <3>4. /\ row'[e] = row[e] /\ origin'[e] = origin[e] /\ taken'[e] = taken[e] /\ wk'[v].id = e
      BY <1>6, <3>1
    <3>5. \A u \in Worker \ {v} : Awake(u)' => wk'[u].id # e
      BY <1>5, <1>12, <3>1, <3>3 DEF Sole
    <3>6. Deleter(v)' BY <3>1, <3>3, <3>4 DEF Sole, Deleter
    <3>7. Sole(v)' BY <1>7, <3>3, <3>4, <3>5, <3>6 DEF Sole
    <3>8. Proceeds(v)' BY <1>7, <3>1, <3>3, <3>4 DEF Proceeds
    <3> QED BY <3>7, <3>8
  <2> QED BY <2>1, <2>2
<1>17. ASSUME NEW e \in Id \ disturbed' PROVE AloneAt(e)' /\ ContentOf(e)'
  <2>1. ASSUME NEW q \in Path, q = origin'[e], e \in Claims(q)' PROVE Claims(q)' \subseteq {e}
    <3>1. CASE e = d /\ Claims(p) = {}
      <4>1. q = p BY <1>6, <2>1, <3>1
      <4> QED BY <1>15, <3>1, <4>1 DEF Claims
    <3>2. CASE e # d /\ e \notin disturbed /\ e \notin Claims(p)
      <4>1. e \in Claims(q) /\ q = origin[e] BY <1>6, <1>15, <2>1, <3>2
      <4>2. Claims(q) \subseteq {e} BY <1>0, <3>2, <4>1 DEF Alone, AloneAt
      <4>3. q # p BY <3>2, <4>1
      <4> QED BY <1>15, <4>2, <4>3 DEF Claims
    <3> QED BY <1>8, <3>1, <3>2
  <2>2. (e \in Claims(origin[e]) => Claims(origin[e]) \subseteq {e})'
    <3>1. origin'[e] \in Path BY <1>9 DEF Types
    <3> QED BY <2>1, <3>1 DEF Claims
  <2>3. e \in queue' => row'[e] = "pending"
    <3>1. CASE e = d BY <1>6, <3>1
    <3>2. CASE e # d BY <1>0, <1>6, <1>7, <1>8, <3>2 DEF Alone, AloneAt
    <3> QED BY <3>1, <3>2
  <2>4. AloneAt(e)' BY <1>16, <2>2, <2>3 DEF AloneAt
  <2>5. ContentOf(e)'
    <3>1. CASE e = d BY <1>6, <1>7, <1>10, <3>1 DEF ContentOf, Names
    <3>2. CASE e # d
      <4>1. ContentOf(e) BY <1>0, <1>8, <3>2 DEF Contents
      <4> QED BY <1>6, <1>7, <3>2, <4>1 DEF ContentOf
    <3> QED BY <3>1, <3>2
  <2> QED BY <2>4, <2>5
<1>18. Alone' /\ Contents' BY <1>17 DEF Alone, Contents
<1>19. Progress' BY <1>16 DEF Progress
<1> QED BY <1>9, <1>11, <1>13, <1>14, <1>18, <1>19 DEF IInv

\* What a user writes at a path disturbs the deletions that claim it.
LEMMA KeepsWrite ==
  ASSUME IInv, NEW p \in Path, Write(p) PROVE IInv'
<1> USE DEF table
<1>0. Types /\ Tree /\ Kinds /\ Listed /\ Alone /\ Contents /\ Progress BY DEF IInv
<1>1. PICK f \in File :
        /\ p \in Folder \/ p \notin there
        /\ ~HasLeaf(p, f) /\ at' = [at EXCEPT ![p] = @ \cup {f}] /\ born' = born \cup {f}
  BY DEF Write
<1>2. /\ wk' = wk /\ queue' = queue /\ taken' = taken /\ row' = row /\ origin' = origin /\ old' = old
      /\ box' = box /\ there' = there \cup {p}
  BY DEF Write
<1>3. disturbed' \subseteq Id /\ disturbed \subseteq disturbed' /\ Claims(p) \subseteq disturbed'
  BY <1>0, DisturbTyped DEF Write
<1>4. /\ p \in Place /\ p \notin Id /\ at' \in [Place -> SUBSET File]
      /\ at'[p] = at[p] \cup {f} /\ \A x \in Place \ {p} : at'[x] = at[x]
  BY <1>0, <1>1, SortsAreDisjoint DEF Types, Place
<1>5. Types' BY <1>0, <1>1, <1>2, <1>3, <1>4 DEF Types
<1>6. Tree'
  <2>1. ASSUME NEW x \in Place PROVE Whole(x)'
    <3>1. Whole(x) BY <1>0 DEF Tree
    <3>2. CASE x = p
      <4>1. Names(at'[p]) BY <1>1, <1>4, <3>1, <3>2 DEF Whole, Names, HasLeaf
      <4> QED BY <1>2, <3>2, <4>1 DEF Whole
    <3>3. CASE x # p BY <1>2, <1>4, <3>1, <3>3 DEF Whole
    <3> QED BY <3>2, <3>3
  <2>2. ASSUME NEW x \in there' PROVE (IsFolder(x) \/ Single(at[x]))'
    <3>1. IsFolder(x)' <=> IsFolder(x) BY <1>2 DEF IsFolder
    <3>2. CASE x # p BY <1>0, <1>2, <1>4, <2>2, <3>1, <3>2 DEF Tree, Types
    <3>3. CASE x = p /\ ~IsFolder(x)
      <4>1. p \notin there BY <1>1, <3>3 DEF IsFolder
      <4>2. at[p] = {} BY <1>0, <1>4, <4>1 DEF Tree, Whole
      <4> QED BY <1>4, <3>3, <4>2 DEF Single
    <3> QED BY <3>1, <3>2, <3>3
  <2>3. there' \cap Id \subseteq box' BY <1>0, <1>2, <1>4 DEF Tree
  <2> QED BY <2>1, <2>2, <2>3 DEF Tree
<1>7. Kinds' BY <1>0, <1>2 DEF Kinds, KindOf, Sleeps, Deleter, Purger, Restorer
<1>8. Listed' BY <1>0, <1>2 DEF Listed, Awake
<1>9. ASSUME NEW q \in Path PROVE Claims(q)' = Claims(q) BY <1>2 DEF Claims
<1>10. ASSUME NEW v \in Worker, Sole(v) PROVE Sole(v)'
  <2>1. Deleter(v)' BY <1>2, <1>10 DEF Sole, Deleter
  <2> QED BY <1>2, <1>10, <2>1 DEF Sole, Awake
<1>11. ASSUME NEW d \in Id, d \notin disturbed' PROVE AloneAt(d)' /\ ContentOf(d)'
  <2>1. AloneAt(d) /\ ContentOf(d) /\ d \notin Claims(p) /\ origin[d] \in Path
        /\ row[d] \in {"none", "pending", "done"} /\ d \in Place
    BY <1>0, <1>3, <1>11 DEF Alone, Contents, Types, Place
  <2>2. (d \in Claims(origin[d]) => Claims(origin[d]) \subseteq {d})'
    <3>1. ASSUME NEW q \in Path, q = origin'[d], d \in Claims(q)' PROVE Claims(q)' \subseteq {d}
      BY <1>2, <1>9, <2>1, <3>1 DEF AloneAt
    <3> QED BY <1>2, <2>1, <3>1 DEF Claims
  <2>3. AloneAt(d)' BY <1>2, <1>10, <2>1, <2>2 DEF AloneAt, Awake
  <2>4. at'[d] = at[d] /\ (d \in there' <=> d \in there) BY <1>2, <1>4, <2>1
  <2>5. d \in Claims(origin[d]) => at'[origin[d]] = at[origin[d]]
    BY <1>4, <2>1 DEF Place
  <2>6. ContentOf(d)' BY <1>2, <2>1, <2>4, <2>5, ContentKept
  <2> QED BY <2>3, <2>6
<1>12. ASSUME NEW v \in Worker, Awake(v), wk[v].id \notin disturbed' PROVE Proceeds(v)'
  <2> DEFINE d == wk[v].id
  <2>1. d \in Id \ disturbed' /\ Sole(v) /\ Proceeds(v)
    BY <1>0, <1>3, <1>12, Sorts DEF Alone, AloneAt, Progress
  <2>2. d \in Claims(origin[d]) /\ origin[d] \in Path BY <1>0, <2>1 DEF Sole, Claims, Types
  <2>3. origin[d] # p BY <1>3, <2>1, <2>2
  <2>4. at'[d] = at[d] /\ at'[origin[d]] = at[origin[d]] BY <1>4, <2>1, <2>2, <2>3 DEF Place
  <2> HIDE DEF d
  <2>5. d = wk[v].id BY DEF d
  <2> QED BY <1>2, <2>1, <2>4, <2>5, ProceedsKept
<1>13. Alone' /\ Contents' BY <1>11 DEF Alone, Contents
<1>14. Progress' BY <1>2, <1>12 DEF Progress, Awake
<1> QED BY <1>5, <1>6, <1>7, <1>8, <1>13, <1>14 DEF IInv

-----------------------------------------------------------------------------
(* The theorems.                                                           *)

LEMMA IInvInit == Init => IInv
<1> SUFFICES ASSUME Init PROVE IInv OBVIOUS
<1> USE DEF Init
<1>1. Min(Path) \in Path
  BY PathsAreOrdered, SomethingToDelete, LeastNatural
<1>2. \A w \in Worker : wk[w] = Resting BY DEF Resting
<1>3. Resting.pc = "idle" /\ Resting.id = NoId /\ Resting.src = NoId BY DEF Resting
<1>4. Types BY <1>1, RestingTyped DEF Types
<1>5. Tree BY DEF Tree, Whole, Names
<1>6. \A w \in Worker : Sleeps(w) /\ ~Awake(w) BY <1>2, <1>3 DEF Sleeps, Awake
<1>7. Kinds /\ Listed /\ Progress BY <1>6 DEF Kinds, KindOf, Listed, Progress, Worker
<1>8. Contents BY DEF Contents, ContentOf
<1>9. ASSUME NEW d \in Id PROVE AloneAt(d)
  <2>1. NoId \notin Path /\ origin[d] \in Path BY <1>1, NoIdIn, SortsAreDisjoint
  <2>2. \A w \in Worker : wk[w].src # origin[d] BY <1>2, <1>3, <2>1
  <2>3. Claims(origin[d]) = {} BY <2>2 DEF Claims
  <2> QED BY <1>6, <2>3 DEF AloneAt
<1> QED BY <1>4, <1>5, <1>7, <1>8, <1>9 DEF IInv, Alone

LEMMA IInvNext == IInv /\ [Next]_vars => IInv'
<1> SUFFICES ASSUME IInv, [Next]_vars PROVE IInv' OBVIOUS
<1>1. ASSUME NEW w \in Worker, Request(w) PROVE IInv'
  BY <1>1, KeepsDelete, KeepsRestore, KeepsPurge, KeepsPurgeStart, KeepsUnbox DEF Request
<1>2. ASSUME NEW w \in Worker, MoveOrCopy(w) PROVE IInv'
  BY <1>2, KeepsMove, KeepsCopy, KeepsCopyGone, KeepsCopyDone DEF MoveOrCopy
<1>3. ASSUME NEW w \in Worker, RemoveTree(w) PROVE IInv'
  BY <1>3, KeepsRemoveOne, KeepsRemoveLast DEF RemoveTree
<1>4. ASSUME NEW w \in Worker, Rows(w) PROVE IInv'
  BY <1>4, KeepsFinish, KeepsUndo, KeepsDrop DEF Rows
<1>5. ASSUME NEW w \in Worker, Fails(w) PROVE IInv'
  BY <1>5, KeepsMoveFails, KeepsCopyFails, KeepsRemoveFails, KeepsFinishFails DEF Fails
<1>6. Hourly \in Worker BY DEF Worker
<1>7. CASE Maintenance BY <1>6, <1>7, KeepsRecover, KeepsRecoverNext, KeepsCheck DEF Maintenance
<1>8. CASE \E p \in Path : Write(p) BY <1>8, KeepsWrite
<1>9. CASE Crash BY <1>9, KeepsCrash
<1>10. CASE UNCHANGED vars
  <2> USE <1>10 DEF vars, disk, table, ghost
  <2>1. Tree' /\ Contents' BY ItemsKept
  <2>2. Types' BY DEF IInv, Types
  <2>3. Kinds' BY DEF IInv, Kinds, KindOf, Sleeps, Deleter, Purger, Restorer
  <2>4. Listed' BY DEF IInv, Listed, Awake
  <2>5. Alone'
    <3>1. \A d \in Id : Claims(origin[d])' = Claims(origin[d]) BY DEF Claims
    <3>2. \A w \in Worker : Sole(w) => Sole(w)' BY DEF Sole, Deleter, Awake
    <3> QED BY <3>1, <3>2 DEF IInv, Alone, AloneAt, Awake
  <2>6. Progress' BY DEF IInv, Progress, Proceeds, Awake
  <2> QED BY <2>1, <2>2, <2>3, <2>4, <2>5, <2>6 DEF IInv
<1> QED BY <1>1, <1>2, <1>3, <1>4, <1>5, <1>6, <1>7, <1>8, <1>9, <1>10 DEF Next, Steady

\* The invariant holds of every behaviour of the trash.
THEOREM TrashStaysSound == Spec => []IInv
BY IInvInit, IInvNext, PTL DEF Spec

LEMMA IInvTyped == IInv => TypeOK
<1> SUFFICES ASSUME IInv PROVE TypeOK OBVIOUS
<1>1. Types /\ Tree BY DEF IInv
<1>2. ASSUME NEW x \in there PROVE IsFolder(x) \/ Cardinality(at[x]) = 1
  BY <1>1, FS_Singleton DEF Tree, Single
<1> QED BY <1>1, <1>2 DEF TypeOK, Types, Tree, Whole, Names

\* NothingLost, for every number of workers, ids, paths and files: each file that
\* an undisturbed deletion found is at its path or in the trash, whatever fails,
\* is cancelled or crashes (trashOne, ResumeMoveToTrash).
THEOREM DeletionsLoseNothing == Spec => []NothingLost
<1>1. ASSUME IInv PROVE NothingLost
  <2>1. \A d \in Id \ disturbed : row[d] # "none" => taken[d] \subseteq at[origin[d]] \cup at[d]
    BY <1>1 DEF IInv, Contents, ContentOf
  <2> QED BY <1>1, <2>1, IInvTyped DEF NothingLost
<1> QED BY <1>1, TrashStaysSound, PTL

\* WholeWhenDone, likewise: a deletion whose row is done has its whole item in
\* the trash (FinishTrash).
THEOREM DoneIsWhole == Spec => []WholeWhenDone
<1>1. ASSUME IInv PROVE WholeWhenDone
  BY <1>1 DEF IInv, Contents, ContentOf, WholeWhenDone
<1> QED BY <1>1, TrashStaysSound, PTL

=============================================================================
