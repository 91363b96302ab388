----------------------------- MODULE NameIndex -----------------------------
(* The name index and the quota that is measured with it.                  *)
(*                                                                         *)
(* The table file_index repeats the names and sizes of the disk, so that   *)
(* searches and quotas need no walk.  A full scan walks everything and is  *)
(* the source of truth; between scans each change made by the server       *)
(* starts a goroutine, a hook, that corrects the rows it knows of, in no   *)
(* particular order with the others or with a scan.  Other programs change *)
(* the disk and tell nobody.                                               *)
(*                                                                         *)
(* The state keeps the number of the last finished scan and every row the  *)
(* number of the scan that stamped it; only whether a row is AHEAD of the  *)
(* state, stamped by a scan that has not finished, is ever told apart.     *)
EXTENDS Integers, FiniteSets, SequencesExt, FiniteSetsExt

CONSTANTS
  Names,      \* names of items
  Paths,      \* the paths below the base folder, as sequences of names
  Sizes,      \* sizes of files
  Dir, Nil,   \* a folder; no item, and a usage that is not known
  BatchSize,  \* rows written in one transaction
  Quota,      \* bytes the user may have
  Requests,   \* concurrent requests of the user
  Budget      \* how many uploads, changes, outside changes and failures

ASSUME PathsAssumption ==
  /\ IsFiniteSet(Paths)
  /\ \A p \in Paths :
       /\ p \in Seq(Names) /\ p # <<>>
       /\ \A n \in 1..Len(p) : SubSeq(p, 1, n) \in Paths
ASSUME SizesAssumption ==
  Sizes \subseteq Nat /\ {Dir, Nil} \cap Sizes = {} /\ Dir # Nil
ASSUME NumbersAssumption == BatchSize \in Nat \ {0} /\ Quota \in Nat
ASSUME BudgetAssumption ==
  Budget \in [{"upload", "change", "outside", "failure"} -> Nat]

VARIABLES
  disk,    \* the item at each path
  rows,    \* the rows of file_index
  scan,    \* the full scan, under scanMu
  hooks,   \* goroutines that correct rows
  ready,   \* a scan has finished, now or before a restart
  used,    \* the user's cached usage, None when it has expired
  req,     \* the user's requests
  calm,    \* paths nothing but the scan has touched since it started
  ghosts,  \* paths whose row a scan that failed had stamped before it started
  left     \* what is left of Budget

indexVars == <<disk, rows, scan, hooks, ready, used, req, calm, ghosts, left>>

Items == Sizes \cup {Dir}
Idle == [pc |-> "idle"]
NoRow == [item |-> Nil, ahead |-> FALSE]
IndexRow(item, ahead) == [item |-> item, ahead |-> ahead]

Under(p) == {q \in Paths : IsPrefix(p, q)}
IsFolder(p) == p \in {<<>>} \cup {q \in Paths : disk[q] = Dir}
Children(p) == {q \in Paths : Front(q) = p}
Files(items) == {p \in Paths : items[p] \in Sizes}
Bytes(items) == MapThenSumSet(LAMBDA p : items[p], Files(items))

\* What is at a path lies in a folder.
Trees ==
  {t \in [Paths -> Items \cup {Nil}] :
     \A p \in Paths : t[p] # Nil /\ Front(p) # <<>> => t[Front(p)] = Dir}

-----------------------------------------------------------------------------
(* The table.                                                              *)

Upserted(batch, ahead) ==
  [p \in Paths |-> IF p \in DOMAIN batch THEN IndexRow(batch[p], ahead) ELSE rows[p]]
DeletedTree(p) == [q \in Paths |-> IF q \in Under(p) THEN NoRow ELSE rows[q]]
\* Mutant: the end of a scan leaves the rows it did not meet.
KeptAll == rows
DeletedNotGen == [p \in Paths |-> IF rows[p].ahead THEN rows[p] ELSE NoRow]
RowItems == [p \in Paths |-> rows[p].item]

\* Searching: rows with the name that are still on the disk, or a walk when
\* there has been no scan.
Hits(name) ==
  {p \in Paths : /\ Last(p) = name
                 /\ ready => rows[p].item # Nil
                 /\ disk[p] # Nil}

\* Only what the scan itself does leaves a path calm.
Calmed ==
  /\ calm' = {p \in calm : disk'[p] = disk[p] /\ rows'[p] = rows[p]}
  /\ ghosts' = ghosts
Forgotten == calm' = {} /\ ghosts' = {}

Spend(kind) == left[kind] > 0 /\ left' = [left EXCEPT ![kind] = @ - 1]

\* What is left of a budget tells hooks of equal work apart.
Hook(who, n, kind, paths) ==
  [id |-> <<who, n>>, kind |-> kind, todo |-> paths, got |-> <<>>]

-----------------------------------------------------------------------------
(* A walk: a stack of paths still to visit.  A folder's names are read     *)
(* when it is visited, each item when its own turn comes.                  *)

Entries(p) ==
  LET kids == {q \in Children(p) : disk[q] # Nil}
  IN CHOOSE s \in SetToSeqs(kids) : TRUE

Pushed(w, p) == (IF disk[p] = Dir THEN Entries(p) ELSE <<>>) \o Tail(w)

With(batch, p) ==
  IF disk[p] = Nil THEN batch
  ELSE [q \in DOMAIN batch \cup {p} |-> IF q = p THEN disk[p] ELSE batch[q]]

Full(batch) == Cardinality(DOMAIN batch) >= BatchSize

-----------------------------------------------------------------------------
(* FullScan.  scanMu lets one run at a time: another caller gives up.      *)

ScanStart ==
  /\ scan = Idle
  /\ scan' = [pc |-> "walk", batch |-> <<>>, todo |-> Entries(<<>>)]
  /\ calm' = Paths /\ ghosts' = {p \in Paths : rows[p].ahead}
  /\ UNCHANGED <<disk, rows, hooks, ready, used, req, left>>

ScanVisit ==
  /\ scan.pc = "walk" /\ scan.todo # <<>>
  /\ LET p == Head(scan.todo)
         batch == With(scan.batch, p)
         full == Full(batch)
     IN /\ scan' = [scan EXCEPT !.todo = Pushed(scan.todo, p),
                                !.batch = IF full THEN <<>> ELSE batch]
        /\ rows' = IF full THEN Upserted(batch, TRUE) ELSE rows
  /\ UNCHANGED <<disk, hooks, ready, used, req, calm, ghosts, left>>

\* Mutant: the rows collected since the last full batch are dropped.
LostBatch == rows
LastBatch == Upserted(scan.batch, TRUE)

ScanFlush ==
  /\ scan.pc = "walk" /\ scan.todo = <<>>
  /\ rows' = LastBatch
  /\ scan' = [pc |-> "sweep"]
  /\ UNCHANGED <<disk, hooks, ready, used, req, calm, ghosts, left>>

ScanSweep ==
  /\ scan.pc = "sweep"
  /\ rows' = DeletedNotGen
  /\ scan' = [pc |-> "state"]
  /\ UNCHANGED <<disk, hooks, ready, used, req, calm, ghosts, left>>

\* The state catches up with the rows of the scan.
ScanState ==
  /\ scan.pc = "state"
  /\ rows' = [p \in Paths |-> IndexRow(rows[p].item, FALSE)]
  /\ scan' = [pc |-> "prune"]
  /\ Forgotten
  /\ UNCHANGED <<disk, hooks, ready, used, req, left>>

ScanEnd ==
  /\ scan.pc = "prune"
  /\ ready' = TRUE
  /\ scan' = Idle
  /\ UNCHANGED <<disk, rows, hooks, used, req, calm, ghosts, left>>

\* An error of the disk or the database; what was written stays.
ScanAbort ==
  /\ scan.pc \in {"walk", "sweep", "state"}
  /\ Spend("failure")
  /\ scan' = Idle
  /\ Forgotten
  /\ UNCHANGED <<disk, rows, hooks, ready, used, req>>

ScanStep == ScanVisit \/ ScanFlush \/ ScanSweep \/ ScanState \/ ScanEnd

-----------------------------------------------------------------------------
(* Hooks.  They stamp rows with the state's number, never ahead of it.     *)

\* Touch: each path is looked at; a missing one is forgotten at once.
TouchStat(h) ==
  /\ h.kind = "touch" /\ h.todo # <<>>
  /\ LET p == Head(h.todo) IN
       /\ rows' = IF disk[p] = Nil THEN DeletedTree(p) ELSE rows
       /\ hooks' = (hooks \ {h}) \cup
            {[h EXCEPT !.todo = Tail(h.todo), !.got = With(h.got, p)]}
  /\ UNCHANGED <<disk, scan, ready, used, req, left>>
  /\ Calmed

\* ReindexTree: the subtree is forgotten, then walked; a missing root ends it.
TreeDrop(h) ==
  /\ h.kind = "tree"
  /\ rows' = DeletedTree(Head(h.todo))
  /\ hooks' = (hooks \ {h}) \cup {[h EXCEPT !.kind = "walk"]}
  /\ UNCHANGED <<disk, scan, ready, used, req, left>>
  /\ Calmed

TreeVisit(h) ==
  /\ h.kind = "walk" /\ h.todo # <<>>
  /\ LET p == Head(h.todo)
         batch == With(h.got, p)
         full == Full(batch)
     IN /\ hooks' = (hooks \ {h}) \cup
             {[h EXCEPT !.todo = Pushed(h.todo, p), !.got = IF full THEN <<>> ELSE batch]}
        /\ rows' = IF full THEN Upserted(batch, FALSE) ELSE rows
  /\ UNCHANGED <<disk, scan, ready, used, req, left>>
  /\ Calmed

\* The end of both: the rows collected are written.
HookWrite(h) ==
  /\ h.kind \in {"touch", "walk"} /\ h.todo = <<>>
  /\ rows' = Upserted(h.got, FALSE)
  /\ hooks' = hooks \ {h}
  /\ UNCHANGED <<disk, scan, ready, used, req, left>>
  /\ Calmed

RemoveTree(h) ==
  /\ h.kind = "remove"
  /\ rows' = DeletedTree(Head(h.todo))
  /\ hooks' = hooks \ {h}
  /\ UNCHANGED <<disk, scan, ready, used, req, left>>
  /\ Calmed

HookStep(h) ==
  TouchStat(h) \/ TreeDrop(h) \/ TreeVisit(h) \/ HookWrite(h) \/ RemoveTree(h)

-----------------------------------------------------------------------------
(* Requests of the user: an upload, or a look at the usage (p = <<>>).     *)

Ancestors(p) == [i \in 1..Len(p) |-> SubSeq(p, 1, Len(p) + 1 - i)]

\* usage: the cached value, or a sum over the index or the disk, taken
\* without the lock and cached afterwards.
Decide(r, q, n) ==
  req' = [req EXCEPT ![r] =
    IF q.p = <<>> \/ n + q.size > Quota THEN Idle ELSE [q EXCEPT !.pc = "write"]]

AskUsage(r) ==
  /\ req[r] = Idle
  /\ \E p \in Paths \cup {<<>>}, size \in Sizes :
       /\ IF p = <<>> THEN size = Min(Sizes) /\ left' = left ELSE Spend("upload")
       /\ LET q == [pc |-> "sum", p |-> p, size |-> size, n |-> 0] IN
          IF used # Nil THEN Decide(r, q, used)
          ELSE req' = [req EXCEPT ![r] = q]
  /\ UNCHANGED <<disk, rows, scan, hooks, ready, used, calm, ghosts>>

Sum(r) ==
  /\ req[r].pc = "sum"
  /\ req' = [req EXCEPT ![r].pc = "cache",
                        ![r].n = Bytes(IF ready THEN RowItems ELSE disk)]
  /\ UNCHANGED <<disk, rows, scan, hooks, ready, used, calm, ghosts, left>>

Cache(r) ==
  /\ req[r].pc = "cache"
  /\ used' = req[r].n
  /\ Decide(r, req[r], req[r].n)
  /\ UNCHANGED <<disk, rows, scan, hooks, ready, calm, ghosts, left>>

\* The file is published, with the folders it needs; a folder of that name,
\* or a file in the way, ends the request with an error.
Write(r) ==
  /\ req[r].pc = "write"
  /\ LET p == req[r].p
         way == {q \in Paths : IsStrictPrefix(q, p)}
     IN IF disk[p] = Dir \/ (\E q \in way : disk[q] \in Sizes)
        THEN disk' = disk /\ req' = [req EXCEPT ![r] = Idle]
        ELSE /\ disk' = [q \in Paths |-> IF q = p THEN req[r].size
                                         ELSE IF q \in way THEN Dir ELSE disk[q]]
             /\ req' = [req EXCEPT ![r].pc = "add"]
  /\ UNCHANGED <<rows, scan, hooks, ready, used, left>>
  /\ Calmed

\* usageAdd and the hook.
UsageAdd(r) ==
  /\ req[r].pc = "add"
  /\ used' = IF used = Nil THEN Nil ELSE used + req[r].size
  /\ hooks' = hooks \cup {Hook(r, left.upload, "touch", Ancestors(req[r].p))}
  /\ req' = [req EXCEPT ![r] = Idle]
  /\ UNCHANGED <<disk, rows, scan, ready, calm, ghosts, left>>

\* Mutant: a cached usage is never measured again.
ExpireNever == used' = used
Expired == used' = Nil

\* quotaCacheTTL has passed.
Expire ==
  /\ used # Nil
  /\ Expired
  /\ UNCHANGED <<disk, rows, scan, hooks, ready, req, calm, ghosts, left>>

ReqStep(r) == Sum(r) \/ Cache(r) \/ Write(r) \/ UsageAdd(r)

-----------------------------------------------------------------------------
(* Other changes of the disk.                                              *)

Gone(p) == [q \in Paths |-> IF q \in Under(p) THEN Nil ELSE disk[q]]

Delete(p) ==
  /\ disk[p] # Nil
  /\ Spend("change")
  /\ disk' = Gone(p)
  /\ hooks' = hooks \cup {Hook("change", left.change, "remove", <<p>>)}
  /\ UNCHANGED <<rows, scan, ready, used, req>>
  /\ Calmed

Renamed(p, q) ==
  [r \in Paths |->
     IF r \in Under(q) THEN disk[p \o SubSeq(r, Len(q) + 1, Len(r))]
     ELSE Gone(p)[r]]

\* Renaming and moving: the two hooks run side by side.
Rename(p, q) ==
  /\ disk[p] # Nil /\ disk[q] = Nil /\ IsFolder(Front(q)) /\ ~IsPrefix(p, q)
  /\ {q \o SubSeq(r, Len(p) + 1, Len(r)) : r \in Under(p)} = Under(q)
  /\ Spend("change")
  /\ disk' = Renamed(p, q)
  /\ hooks' = hooks \cup {Hook("change", left.change, "remove", <<p>>),
                       Hook("change", left.change, "tree", <<q>>)}
  /\ UNCHANGED <<rows, scan, ready, used, req>>
  /\ Calmed

\* Another program puts an item, or takes one away.
Outside(p) ==
  /\ Spend("outside")
  /\ IsFolder(Front(p))
  /\ \E item \in (Items \cup {Nil}) \ {disk[p]} :
       /\ item \in Sizes => disk[p] # Dir
       /\ disk' = [Gone(p) EXCEPT ![p] = item]
  /\ UNCHANGED <<rows, scan, hooks, ready, used, req>>
  /\ Calmed

\* The process ends; the next one starts with the table alone.
Restart ==
  /\ Spend("failure")
  /\ scan' = Idle /\ hooks' = {} /\ used' = Nil
  /\ req' = [r \in Requests |-> Idle]
  /\ ready' = (ready \/ scan.pc = "prune")
  /\ Forgotten
  /\ UNCHANGED <<disk, rows>>

-----------------------------------------------------------------------------

\* The first start of an installation, or a later one.
IndexInit ==
  /\ disk \in Trees
  /\ ready \in BOOLEAN
  /\ rows = [p \in Paths |-> IF ready THEN IndexRow(disk[p], FALSE) ELSE NoRow]
  /\ scan = Idle /\ hooks = {} /\ used = Nil
  /\ req = [r \in Requests |-> Idle]
  /\ calm = {} /\ ghosts = {}
  /\ left = Budget

IndexNext ==
  \/ ScanStart \/ ScanStep \/ ScanAbort
  \/ \E h \in hooks : HookStep(h)
  \/ \E r \in Requests : AskUsage(r) \/ ReqStep(r)
  \/ Expire
  \/ \E p \in Paths : Delete(p) \/ Outside(p)
  \/ \E p, q \in Paths : Rename(p, q)
  \/ Restart

\* Scans follow one another, goroutines and started requests go on, and time
\* passes.
Fairness ==
  /\ WF_indexVars(ScanStart) /\ WF_indexVars(ScanStep)
  /\ WF_indexVars(\E h \in hooks : HookStep(h))
  /\ \A r \in Requests : WF_indexVars(ReqStep(r))
  /\ WF_indexVars(Expire)

IndexSpec == IndexInit /\ [][IndexNext]_indexVars /\ Fairness

-----------------------------------------------------------------------------
(* Properties.                                                             *)

Rows == [item : Items \cup {Nil}, ahead : BOOLEAN]

\* The shape of the state: index/indexer.go, store/index.go, quota.go.
IndexTypeOK ==
  /\ disk \in Trees
  /\ rows \in [Paths -> Rows]
  /\ scan.pc \in {"idle", "walk", "sweep", "state", "prune"}
  /\ scan.pc = "walk" => Cardinality(DOMAIN scan.batch) < BatchSize
  /\ \A h \in hooks : h.kind \in {"touch", "tree", "walk", "remove"}
  /\ ready \in BOOLEAN
  /\ used \in Nat \cup {Nil}
  /\ \A r \in Requests : req[r].pc \in {"idle", "sum", "cache", "write", "add"}
  /\ calm \subseteq Paths /\ ghosts \subseteq Paths

\* A full scan is the source of truth (package comment of indexer.go): before
\* it records itself, each path that nothing else touched since it started has
\* the row of what is there.  Where there is nothing there is no row, except one
\* that a scan which failed had stamped: this scan takes the same number, so
\* that its sweep keeps what the other met (indexer.go:100, 128), and the row
\* of an item that went in between stays until the scan after it.  (The batch of
\* a scan stays below its size.)
ScanIsTheDisk ==
  /\ IndexTypeOK
  /\ scan.pc = "state" =>
       \A p \in calm : rows[p].item = disk[p] \/ (disk[p] = Nil /\ p \in ghosts)

\* When changes, failures and restarts cease, the index comes to be the disk,
\* whatever hooks ran in whatever order, and searches find every item
\* (indexer.go: "the server nudges it ... so results stay fresh").
IndexSettles ==
  <>[](/\ RowItems = disk
       /\ \A p \in Paths : (p \in Hits(Last(p))) <=> (disk[p] # Nil))

\* The cached usage does not stay wrong: measured too early or adjusted by a
\* file that replaced another, it expires and is measured on a settled index
\* (quota.go, usage and usageAdd).
UsageSettles == <>[](used \in {Nil, Bytes(disk)})

=============================================================================
