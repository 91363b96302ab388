------------------------------- MODULE Links -------------------------------
(* Public links and the items they point at: requests create links and     *)
(* remove or move items, the hourly maintenance looks for links whose item *)
(* is gone, visitors open links, and other programs change the same disk.  *)
(*                                                                         *)
(* A path is a sequence of names; an item is an inode.  A file system may  *)
(* give a freed inode to a new item; here a new item never takes an inode  *)
(* that a link or a request still remembers.                               *)
EXTENDS Integers, FiniteSets, SequencesExt

CONSTANTS
  Names,        \* names of items
  Paths,        \* the paths below the base folder
  Disk,         \* the path another disk is mounted at
  Dirs, Files,  \* inodes of folders and of files
  None,         \* no item, and the identity a link does not know
  Slugs, NoSlug,\* addresses chosen by users, and a link without one
  Creators,     \* concurrent requests that create a link
  MaxLink,      \* ids in the table of links
  MassMin,      \* brokenMassMin
  Budget        \* how many requests and outside changes there are

Items == Dirs \cup Files
Ids == 1..MaxLink
Modes == {"read", "drop"}
Idle == [pc |-> "idle"]

\* The folder of another disk is one of the base folder.
ASSUME PathsAssumption ==
  /\ Paths \subseteq Seq(Names) \ {<<>>}
  /\ \A p \in Paths : Front(p) = <<>> \/ Front(p) \in Paths
  /\ Disk \in Paths /\ Front(Disk) = <<>>
ASSUME InodesAssumption == Dirs \cap Files = {} /\ None \notin Items
ASSUME LinksAssumption ==
  NoSlug \notin Slugs /\ MaxLink \in Nat /\ MassMin \in Nat \ {0}
ASSUME BudgetAssumption == Budget \in [{"create", "operate", "outside"} -> Nat]

VARIABLES
  at,       \* the item at each path of the disks
  mounted,  \* the disk at Disk is there
  link,     \* rows of the table shares, by id
  cr,       \* the requests that create a link
  op,       \* the request that removes or moves an item
  sw,       \* the round of the maintenance
  vis,      \* a visitor's request
  rev,      \* the request that ends a link
  whole,    \* links found whole since they were last marked for a day
  left      \* what is left of Budget

vars == <<at, mounted, link, cr, op, sw, vis, rev, whole, left>>
processes == <<cr, op, sw, vis, rev>>

-----------------------------------------------------------------------------
(* The disk.                                                               *)

Under(p) == {q \in Paths : IsPrefix(p, q)}
View(p) == IF ~mounted /\ IsPrefix(Disk, p) THEN None ELSE at[p]
IsDir(p) == p \in {<<>>} \cup {q \in Paths : View(q) \in Dirs}
KindOf(item) == IF item \in Files THEN "file" ELSE "dir"

\* An item has one place, in a folder.
Trees ==
  {t \in [Paths -> Items \cup {None}] :
     \A p \in Paths : t[p] # None =>
       /\ \A q \in Paths : t[q] = t[p] => q = p
       /\ Front(p) # <<>> => t[Front(p)] \in Dirs}

\* Inodes that are in use or that somebody remembers.
Remembered ==
  {at[p] : p \in Paths} \cup {link[i].item : i \in DOMAIN link}
    \cup UNION {IF cr[c].pc = "insert" THEN {cr[c].item} ELSE {} : c \in Creators}
    \cup (IF vis.pc = "idle" THEN {} ELSE {vis.row.item, vis.root})
    \cup (IF sw.pc = "idle" THEN {} ELSE {sw.rows[i].item : i \in DOMAIN sw.rows})
Fresh(S) == S \ Remembered

\* Root.Remove: the item and everything below it; nothing when there is none.
Cleared(tree, p) ==
  [q \in Paths |-> IF q \in Under(p) /\ View(q) # None THEN None ELSE tree[q]]

\* Root.MoveTo: the item and everything below it, from p to q.  A mount point
\* stays where it is, and what goes to another disk is copied and removed.
CanMove(p, q) ==
  /\ View(p) # None /\ Disk \notin {p, q}
  /\ IsPrefix(Disk, p) <=> IsPrefix(Disk, q)
  /\ ~IsPrefix(p, q)
  /\ IsDir(Front(q))
  /\ View(q) = at[q]
  /\ \A r \in Under(p) : at[r] # None => q \o SubSeq(r, Len(p) + 1, Len(r)) \in Paths
Moved(p, q) ==
  [r \in Paths |->
     IF r \in Under(q) THEN
       LET src == p \o SubSeq(r, Len(q) + 1, Len(r))
       IN IF src \in Paths THEN at[src] ELSE None
     ELSE IF r \in Under(p) THEN None ELSE at[r]]

-----------------------------------------------------------------------------
(* The table of links.                                                     *)

Live == {i \in DOMAIN link : link[i].live}

Held == {link[i].slug : i \in DOMAIN link} \ {NoSlug}
Without(S) == [i \in DOMAIN link \ S |-> link[i]]

\* SQLite gives the id after the highest one in the table.
NextId == IF DOMAIN link = {} THEN 1 ELSE Max(DOMAIN link) + 1

\* Mutant: a link is taken out of service by deleting its row.
DroppedDeleted(S) == Without(S)

\* DropShare: a link with a slug is revoked and keeps its row, another one is
\* deleted.
Dropped(S) ==
  [i \in DOMAIN link \ {j \in S : link[j].slug = NoSlug} |->
     IF i \in S THEN [link[i] EXCEPT !.live = FALSE] ELSE link[i]]

LinksUnder(p) == {i \in DOMAIN link : link[i].path \in Under(p)}

\* Mutant: only the links to the item itself, not those below it.
DropSharesExact(p) ==
  link' = Dropped({i \in DOMAIN link : link[i].path = p})

\* The two statements of DeleteSharesUnder, one after the other.
DropShares(p) == link' = Dropped(LinksUnder(p))

Spend(kind) == left[kind] > 0 /\ left' = [left EXCEPT ![kind] = @ - 1]

Init ==
  /\ at \in Trees
  /\ at[Disk] \in Dirs
  /\ mounted = TRUE
  /\ link = <<>>
  /\ cr = [c \in Creators |-> Idle]
  /\ op = Idle /\ sw = Idle /\ vis = Idle /\ rev = Idle
  /\ whole = {}
  /\ left = Budget

-----------------------------------------------------------------------------
(* Creating a link (handleShareCreate).                                    *)

\* The slug is asked for before anything is done about the item.
CreateStart(c) ==
  /\ cr[c].pc = "idle"
  /\ Spend("create")
  /\ \E m \in Modes, p \in Paths, s \in (Slugs \ Held) \cup {NoSlug} :
       cr' = [cr EXCEPT ![c] = [pc |-> "item", mode |-> m, p |-> p, slug |-> s, made |-> FALSE]]
  /\ UNCHANGED <<at, mounted, link, op, sw, vis, rev, whole>>

Hash(c, kind, made) ==
  cr' = [cr EXCEPT ![c] =
           [pc |-> "hash", mode |-> cr[c].mode, p |-> cr[c].p, slug |-> cr[c].slug,
            made |-> made, kind |-> kind]]

\* A reading link needs its item; a drop link an empty folder.
CreateFind(c) ==
  LET p == cr[c].p IN
  /\ cr[c].pc = "item"
  /\ View(p) # None
  /\ cr[c].mode = "drop" =>
       at[p] \in Dirs /\ \A q \in Under(p) \ {p} : View(q) = None
  /\ Hash(c, KindOf(at[p]), FALSE)
  /\ UNCHANGED <<at, mounted, link, op, sw, vis, rev, whole, left>>

\* prepareDropFolder makes the folder, with the folders above it.
CreateMkdir(c) ==
  LET p == cr[c].p
      missing == {q \in Paths : IsPrefix(q, p) /\ View(q) = None}
  IN
  /\ cr[c].pc = "item" /\ cr[c].mode = "drop"
  /\ p \in missing
  /\ \A q \in missing : at[q] = None /\ (IsDir(Front(q)) \/ Front(q) \in missing)
  /\ \E f \in [missing -> Fresh(Dirs)] :
       /\ IsInjective(f)
       /\ at' = [q \in Paths |-> IF q \in missing THEN f[q] ELSE at[q]]
  /\ Hash(c, "dir", TRUE)
  /\ UNCHANGED <<mounted, link, op, sw, vis, rev, whole, left>>

\* The deferred undo runs when this request made the folder.
GiveUp(c) ==
  cr' = [cr EXCEPT ![c] =
           IF @.made THEN [@ EXCEPT !.pc = "undo"] ELSE Idle]

\* The item will not do; or the password, the expiry, the limits of drop links
\* or the database refuse.
CreateRefuse(c) ==
  /\ cr[c].pc \in {"item", "hash", "insert"}
  /\ GiveUp(c)
  /\ UNCHANGED <<at, mounted, link, op, sw, vis, rev, whole, left>>

\* Identity, whose error leaves the identity unknown.
CreateIdentify(c) ==
  /\ cr[c].pc = "hash"
  /\ cr' = [cr EXCEPT ![c] =
              [pc |-> "insert", mode |-> @.mode, p |-> @.p, slug |-> @.slug, made |-> @.made,
               kind |-> @.kind, item |-> View(cr[c].p)]]
  /\ UNCHANGED <<at, mounted, link, op, sw, vis, rev, whole, left>>

\* The unique index on slugs decides between two requests.
CreateInsert(c) ==
  LET i == NextId IN
  /\ cr[c].pc = "insert"
  /\ cr[c].slug \notin Held
  /\ i <= MaxLink
  /\ link' = [j \in DOMAIN link \cup {i} |->
       IF j = i
         THEN [path |-> cr[c].p, mode |-> cr[c].mode, kind |-> cr[c].kind, item |-> cr[c].item,
               slug |-> cr[c].slug, live |-> TRUE, broken |-> "no"]
         ELSE link[j]]
  /\ cr' = [cr EXCEPT ![c] = Idle]
  /\ whole' = whole \cup {i}
  /\ op' = IF op.pc = "idle" THEN op ELSE [op EXCEPT !.was = @ \ {i}]
  /\ sw' = IF sw.pc = "idle" THEN sw ELSE [sw EXCEPT !.same = @ \ {i}]
  /\ UNCHANGED <<at, mounted, vis, rev, left>>

CreateConflict(c) ==
  /\ cr[c].pc = "insert"
  /\ cr[c].slug \in Held
  /\ GiveUp(c)
  /\ UNCHANGED <<at, mounted, link, op, sw, vis, rev, whole, left>>

CreateUndo(c) ==
  /\ cr[c].pc = "undo"
  /\ at' = Cleared(at, cr[c].p)
  /\ cr' = [cr EXCEPT ![c] = Idle]
  /\ UNCHANGED <<mounted, link, op, sw, vis, rev, whole, left>>

-----------------------------------------------------------------------------
(* Removing and moving items; both end the links of the item.  "was" is    *)
(* what the request finds: the live links to the item and below it.        *)

DeleteStart ==
  /\ op.pc = "idle"
  /\ Spend("operate")
  /\ \E p \in Paths :
       /\ View(p) # None /\ p # Disk
       /\ op' = [pc |-> "drop", kind |-> "delete", p |-> p, was |-> Live \cap LinksUnder(p)]
  /\ UNCHANGED <<at, mounted, link, cr, sw, vis, rev, whole>>

\* A rename takes a free name in the same folder.  A move keeps the name and
\* may overwrite what is there, unless both are folders, which are merged.
Renames(p, q) == Front(p) = Front(q) /\ at[q] = None
Replaces(p, q) == Last(p) = Last(q) /\ (at[q] = None \/ ~({at[p], at[q]} \subseteq Dirs))

\* The disk changes first.  What is overwritten is removed before the rename,
\* which then fails when the item was in there; the links stay.
MoveStart ==
  /\ op.pc = "idle"
  /\ Spend("operate")
  /\ \E p, q \in Paths :
       /\ CanMove(p, q)
       /\ Renames(p, q) \/ Replaces(p, q)
       /\ LET fails == p \in Under(q) IN
            /\ at' = IF fails THEN Cleared(at, q) ELSE Moved(p, q)
            /\ op' = [pc |-> IF fails THEN "end" ELSE "drop", kind |-> "move", p |-> p,
                      was |-> IF fails THEN {} ELSE Live \cap LinksUnder(p)]
  /\ UNCHANGED <<mounted, link, cr, sw, vis, rev, whole>>

OpDrop ==
  /\ op.pc = "drop"
  /\ DropShares(op.p)
  /\ op' = [op EXCEPT !.pc = IF op.kind = "delete" THEN "remove" ELSE "end"]
  /\ UNCHANGED <<at, mounted, cr, sw, vis, rev, whole, left>>

OpRemove ==
  /\ op.pc = "remove"
  /\ at' = Cleared(at, op.p)
  /\ op' = [op EXCEPT !.pc = "end"]
  /\ UNCHANGED <<mounted, link, cr, sw, vis, rev, whole, left>>

OpEnd ==
  /\ op.pc = "end"
  /\ op' = Idle
  /\ UNCHANGED <<at, mounted, link, cr, sw, vis, rev, whole, left>>

\* handleShareDelete reads the row, and then ends the link by its id: revoked
\* when it holds a slug and the owner does not purge it, deleted otherwise.
RevokeRead ==
  /\ rev.pc = "idle"
  /\ Spend("operate")
  /\ \E i \in DOMAIN link, purge \in BOOLEAN :
       rev' = [pc |-> "end", id |-> i, purge |-> purge \/ link[i].slug = NoSlug]
  /\ UNCHANGED <<at, mounted, link, cr, op, sw, vis, whole>>

RevokeEnd ==
  /\ rev.pc = "end"
  /\ link' = IF rev.purge THEN Without({rev.id})
             ELSE [i \in DOMAIN link |->
                     IF i = rev.id THEN [link[i] EXCEPT !.live = FALSE] ELSE link[i]]
  /\ rev' = Idle
  /\ UNCHANGED <<at, mounted, cr, op, sw, vis, whole, left>>

-----------------------------------------------------------------------------
(* What else happens to the disk and to links.                             *)

\* A new item at a free path: a folder made, a file uploaded, or another
\* program's.
Put ==
  /\ Spend("outside")
  /\ \E p \in Paths : \E item \in Fresh(Items) :
       /\ at[p] = None /\ View(p) = at[p] /\ IsDir(Front(p))
       /\ at' = [at EXCEPT ![p] = item]
  /\ UNCHANGED <<mounted, link, processes, whole>>

\* Another program removes or moves an item; the links are not told.
OutsideRemove ==
  /\ Spend("outside")
  /\ \E p \in Paths : View(p) # None /\ p # Disk /\ at' = Cleared(at, p)
  /\ UNCHANGED <<mounted, link, processes, whole>>

OutsideMove ==
  /\ Spend("outside")
  /\ \E p, q \in Paths : CanMove(p, q) /\ at[q] = None /\ at' = Moved(p, q)
  /\ UNCHANGED <<mounted, link, processes, whole>>

Unmount ==
  /\ mounted /\ Spend("outside")
  /\ mounted' = FALSE
  /\ UNCHANGED <<at, link, processes, whole>>

\* The round that runs learns that the disk was not away all the time.
Mount ==
  /\ ~mounted
  /\ mounted' = TRUE
  /\ sw' = IF sw.pc = "idle" THEN sw ELSE [sw EXCEPT !.away = FALSE]
  /\ UNCHANGED <<at, link, cr, op, vis, rev, whole, left>>

\* A link expires.
Lapse ==
  /\ Spend("outside")
  /\ \E i \in Live : link' = [link EXCEPT ![i].live = FALSE]
  /\ UNCHANGED <<at, mounted, processes, whole>>

\* shareBrokenGrace passes since link i was marked.
Ripen(i) ==
  /\ i \in DOMAIN link /\ link[i].broken = "new"
  /\ link' = [link EXCEPT ![i].broken = "old"]
  /\ whole' = whole \ {i}
  /\ UNCHANGED <<at, mounted, processes, left>>

\* The requests and the round end with the process.
Crash ==
  /\ Spend("outside")
  /\ cr' = [c \in Creators |-> Idle]
  /\ op' = Idle /\ sw' = Idle /\ vis' = Idle /\ rev' = Idle
  /\ UNCHANGED <<at, mounted, link, whole>>

-----------------------------------------------------------------------------
(* The maintenance (sweepBrokenShares): one round at a time.               *)

SweepList ==
  /\ sw.pc = "idle"
  /\ Live # {}
  /\ sw' = [pc |-> "look", rows |-> [i \in Live |-> link[i]], todo |-> Live,
            broken |-> {}, same |-> Live, away |-> ~mounted]
  /\ UNCHANGED <<at, mounted, link, cr, op, vis, rev, whole, left>>

\* shareBroken: gone, of another kind, or another item than the link knows.
Broken(row) ==
  \/ View(row.path) = None
  \/ KindOf(View(row.path)) # row.kind
  \/ row.item # None /\ View(row.path) # row.item

Mark(i, b) == IF i \in DOMAIN link THEN [link EXCEPT ![i].broken = b] ELSE link

\* Mutant: every round marks a broken link anew.
LookStamps(i) ==
  LET row == sw.rows[i] IN
  IF Broken(row)
    THEN link' = Mark(i, "new") /\ whole' = whole
    ELSE link' = Mark(i, "no") /\ whole' = whole \cup {i}

\* One link of the list is looked at, and marked, or cleared when it came back.
Look(i) ==
  LET row == sw.rows[i] IN
  IF Broken(row)
    THEN link' = (IF row.broken = "no" THEN Mark(i, "new") ELSE link) /\ whole' = whole
    ELSE link' = (IF row.broken # "no" THEN Mark(i, "no") ELSE link) /\ whole' = whole \cup {i}

SweepLook ==
  /\ sw.pc = "look" /\ sw.todo # {}
  /\ LET i == Min(sw.todo) IN
       /\ Look(i)
       /\ sw' = [sw EXCEPT !.todo = @ \ {i},
                           !.broken = IF Broken(sw.rows[i]) THEN @ \cup {i} ELSE @]
  /\ UNCHANGED <<at, mounted, cr, op, vis, rev, left>>

\* The links that were marked a day ago when the round began.
Expired == {i \in sw.broken : sw.rows[i].broken = "old"}

\* Mutant: only the links about to be revoked count.
MassExpired ==
  Cardinality(Expired) >= MassMin /\ 2 * Cardinality(Expired) > Cardinality(DOMAIN sw.rows)

\* Most links broken at once: a disk that is not there, and nothing is revoked.
Mass ==
  Cardinality(sw.broken) >= MassMin /\ 2 * Cardinality(sw.broken) > Cardinality(DOMAIN sw.rows)

SweepJudge ==
  /\ sw.pc = "look" /\ sw.todo = {}
  /\ sw' = IF Mass \/ Expired = {} THEN Idle ELSE [sw EXCEPT !.pc = "revoke", !.todo = Expired]
  /\ UNCHANGED <<at, mounted, link, cr, op, vis, rev, whole, left>>

\* DropShare goes by the id and the slug of the list.
SweepRevoke ==
  /\ sw.pc = "revoke"
  /\ LET i == Min(sw.todo) IN
       /\ link' = IF i \notin DOMAIN link THEN link
                  ELSE IF sw.rows[i].slug = NoSlug THEN Without({i})
                  ELSE [link EXCEPT ![i].live = FALSE]
       /\ sw' = IF sw.todo = {i} THEN Idle ELSE [sw EXCEPT !.todo = @ \ {i}]
  /\ UNCHANGED <<at, mounted, cr, op, vis, rev, whole, left>>

-----------------------------------------------------------------------------
(* A visitor (resolveShare, shareRoot and the handlers of the public page). *)

VisitResolve ==
  /\ vis.pc = "idle"
  /\ \E i \in Live :
       vis' = [pc |-> "open", root |-> None,
               row |-> [path |-> link[i].path, mode |-> link[i].mode, kind |-> link[i].kind,
                        item |-> link[i].item]]
  /\ UNCHANGED <<at, mounted, link, cr, op, sw, rev, whole, left>>

\* The folder that is opened: the shared one, or the one a shared file is in.
ShareDir(row) == IF row.kind = "file" THEN Front(row.path) ELSE row.path

\* The base folder itself is written None.
VisitOpen ==
  LET d == ShareDir(vis.row) IN
  /\ vis.pc = "open"
  /\ IsDir(d)
  /\ vis' = [vis EXCEPT !.pc = "check", !.root = IF d = <<>> THEN None ELSE View(d)]
  /\ UNCHANGED <<at, mounted, link, cr, op, sw, rev, whole, left>>

\* What name is in an opened folder, wherever the folder is by now.
Child(folder, name) ==
  LET paths == {p \in Paths : Last(p) = name
                  /\ IF Front(p) = <<>> THEN folder = None ELSE at[Front(p)] = folder}
  IN IF paths = {} THEN None ELSE View(CHOOSE p \in paths : TRUE)

\* Mutant: only that there is something at the path, by then, is looked at.
TargetKnown == IF vis.row.item = None THEN View(vis.row.path) ELSE vis.row.item

Target ==
  IF vis.row.kind = "file" THEN Child(vis.root, Last(vis.row.path)) ELSE vis.root

\* The kind and, when the link knows it, the identity.
Admitted ==
  /\ vis.pc = "check"
  /\ Target # None /\ KindOf(Target) = vis.row.kind
  /\ vis.row.item \in {None, Target}

Goes(pc) ==
  /\ vis' = [vis EXCEPT !.pc = pc]
  /\ UNCHANGED <<at, mounted, link, cr, op, sw, rev, whole, left>>

\* What the link is; the rest is for reading links, with their password.
VisitInfo == Admitted /\ Goes("serve")
VisitList == Admitted /\ vis.row.mode = "read" /\ vis.row.kind = "dir" /\ Goes("serve")

\* A download, of a file or of a folder as a zip, waits for a slot.
VisitContent == Admitted /\ vis.row.mode = "read" /\ Goes("wait")
VisitZip == Admitted /\ vis.row.mode = "read" /\ vis.row.kind = "dir" /\ Goes("wait")

\* A slot came free, and files are opened by name in the opened folder.
VisitServe == vis.pc = "wait" /\ Goes("serve")

\* Refused at any point, or answered.
VisitEnd ==
  /\ vis.pc # "idle"
  /\ vis' = Idle
  /\ UNCHANGED <<at, mounted, link, cr, op, sw, rev, whole, left>>

-----------------------------------------------------------------------------
Next ==
  \/ \E c \in Creators :
       \/ CreateStart(c) \/ CreateFind(c) \/ CreateMkdir(c) \/ CreateRefuse(c)
       \/ CreateIdentify(c) \/ CreateInsert(c) \/ CreateConflict(c) \/ CreateUndo(c)
  \/ DeleteStart \/ MoveStart \/ OpDrop \/ OpRemove \/ OpEnd
  \/ RevokeRead \/ RevokeEnd
  \/ Put \/ OutsideRemove \/ OutsideMove \/ Unmount \/ Mount \/ Lapse \/ Crash
  \/ \E i \in Ids : Ripen(i)
  \/ SweepList \/ SweepLook \/ SweepJudge \/ SweepRevoke
  \/ VisitResolve \/ VisitOpen \/ VisitInfo \/ VisitList \/ VisitContent \/ VisitZip
  \/ VisitServe \/ VisitEnd

\* The maintenance runs every hour, a round ends, and days pass.
Fairness ==
  /\ WF_vars(SweepList) /\ WF_vars(SweepLook) /\ WF_vars(SweepJudge) /\ WF_vars(SweepRevoke)
  /\ \A i \in Ids : WF_vars(Ripen(i))

Spec == Init /\ [][Next]_vars /\ Fairness

-----------------------------------------------------------------------------
Row == [path : Paths, mode : Modes, kind : {"file", "dir"}, item : Items \cup {None},
        slug : Slugs \cup {NoSlug}, live : BOOLEAN, broken : {"no", "new", "old"}]

\* Every variable has its type; the disk is a tree, in which an item has one
\* place.
TypeOK ==
  /\ at \in Trees
  /\ mounted \in BOOLEAN
  /\ DOMAIN link \subseteq Ids /\ \A i \in DOMAIN link : link[i] \in Row
  /\ \A i, j \in DOMAIN link : link[i].slug = link[j].slug /\ link[i].slug # NoSlug => i = j
  /\ \A c \in Creators : cr[c].pc \in {"idle", "item", "hash", "insert", "undo"}
  /\ op.pc \in {"idle", "drop", "remove", "end"}
  /\ sw.pc \in {"idle", "look", "revoke"}
  /\ sw.pc # "idle" => sw.todo \cup sw.broken \subseteq DOMAIN sw.rows
  /\ sw.pc = "revoke" => sw.todo # {}
  /\ vis.pc \in {"idle", "open", "check", "wait", "serve"}
  /\ vis.pc # "idle" => vis.row.path \in Paths /\ vis.root \in Items \cup {None}
  /\ rev.pc \in {"idle", "end"}
  /\ whole \subseteq Ids
  /\ left \in [{"create", "operate", "outside"} -> Nat]

\* handleDelete, handleRename, handleMove: once the request has ended its
\* links, none that it found at the item or below it is live, whatever other
\* requests and the maintenance did meanwhile.  (The disk stays a tree and a
\* slug belongs to one link.)
LinksFallWithItem ==
  /\ TypeOK
  /\ op.pc \in {"remove", "end"} => Live \cap op.was = {}

\* shareRoot: a visit to a folder that the link knows shows that folder, even
\* when it, or its name, goes elsewhere while the visit is under way.
FolderVisitsTrue ==
  vis.pc \in {"wait", "serve"} /\ vis.row.kind = "dir" /\ vis.row.item # None
    => vis.root = vis.row.item

\* sweepBrokenShares: with a disk away for the whole round, and most links on
\* it, no link falls; and a link whose item was found in its place has another
\* whole day before it can.  (A row inserted during the round under the id of
\* one of its list is not covered: it falls in its place.)
SweepSparesLinks ==
  LET lost == {i \in DOMAIN sw.rows : sw.rows[i].path \in Under(Disk)} IN
  sw.pc = "revoke" =>
    /\ sw.todo \cap sw.same \cap whole = {}
    /\ sw.away
         => Cardinality(lost) < MassMin \/ 2 * Cardinality(lost) <= Cardinality(DOMAIN sw.rows)

\* DropShare, DeleteSharesUnder: the address of a link stays with its owner
\* until the owner purges it, whatever ended the link.  (Except, again, for a
\* row that took the id of one the running round lists.)
SlugsStayReserved ==
  [][\A i \in DOMAIN link \ DOMAIN link' :
       \/ link[i].slug = NoSlug
       \/ rev.pc = "end" /\ rev.purge /\ rev.id = i
       \/ sw.pc = "revoke" /\ i \notin sw.same]_vars

\* moveOne: a move that ends, well or not, leaves the item somewhere.
MoveKeepsItem ==
  [][op.pc = "idle" /\ op'.pc # "idle" /\ op'.kind = "move"
       => \E r \in Paths : at'[r] = at[op'.p]]_vars

MassBroken ==
  LET gone == {i \in Live : Broken(link[i])} IN
  Cardinality(gone) >= MassMin /\ 2 * Cardinality(gone) > Cardinality(Live)

\* sweepBrokenShares: links whose item stays away fall in the end, unless most
\* links are broken again and again.
BrokenLinksGo ==
  <>[](\A i \in Live : ~Broken(link[i])) \/ []<>MassBroken
=============================================================================
