# Filezam, specified in TLA+

Filezam is a self-hosted file manager: one Go binary that serves a folder of the
host over HTTP to the accounts of a SQLite database, and to visitors through
public links. This directory holds TLA+ modules of the parts where several
requests, background tasks, browser tabs, other programs and crashes meet on the
same rows and files, the TLC configurations that check them on small instances,
and proofs that TLAPS checks for every instance. Paths and lines below are those
of the repository; `PROJECT.json` maps each definition to the lines it models.

Contents: [inventory](#1-inventory) · [modules](#2-modules) ·
[runs and bounds](#3-runs-and-bounds) · [fairness](#4-fairness) ·
[findings](#5-findings) · [proofs](#6-proofs) · [not modelled](#7-not-modelled) ·
[what is left](#8-what-is-left) · [running it](#9-running-it)

## 1. Inventory

| Component | Code | State it keeps | Operations | Module |
|---|---|---|---|---|
| Upload sessions | `internal/uploads`, `vfs/upload.go`, `store/uploads.go`, `handlers_uploads.go` | table `uploads` (target, declared file, bitmap), parts `.filezam-upload-<id>.part`, a mutex per session, `createMu`, the chunks being written | create, write a chunk, complete, abort, supersede, hourly sweep, orphan pruning | `UploadSessions` |
| Single-request uploads | `handlers_files.go` (`storeSmallFile`) | a part without a row | content `PUT`, multipart batch, editor save | `UploadSessions` |
| Upload client | `web/src/upload/manager.ts`, `scheduler.ts` | queue of items, sessions in memory, request slots, dialogs | add, pump, answers, retry, cancel, pause, resume after a reload | `UploadClient` |
| Drop links | `handlers_drop.go`, `store/share_uploads.go` | a mutex per link, sessions of the link, receipts `share_uploads` | admit, choose a name, create, put, complete, abort, book, revoke | `DropLink` |
| Trash | `handlers_trash.go`, `vfs/trash.go`, `store/trash.go` | table `trash` (with `pending`), `.filezam-trash/<id>/<name>` | delete, restore, purge, expire, recover | `Trash` |
| Jobs | `jobs/manager.go`, `recovery.go`, `store/jobs.go` | jobs in memory, tables `jobs` and `job_cleanup` | start, progress, cancel, finish, recover after a crash | `Jobs` |
| Copy, extract, zip jobs | `handlers_files.go`, `handlers_archive.go`, `vfs/copy.go`, `vfs/archive.go`, `vfs/zipdir.go` | temporaries tagged with the job, guarded destinations | the bodies of the jobs | `Jobs` |
| Shares and their sweep | `handlers_shares.go`, `broken_shares.go`, `store/shares.go`, `slug.go` | table `shares` (path, inode, slug, broken since) | create, revoke, purge, fall with the item, sweep broken links | `Links` |
| Public links | `handlers_public.go` | nothing: a visit reads the row, then the disk | resolve, open, list, read, download | `Links` |
| Name index | `index/indexer.go`, `store/index.go`, `server/index.go` | `file_index` with generations, `scanMu` | full scan, touch, re-index or forget a tree, search | `NameIndex` |
| Quota | `server/quota.go` | cached usage per user | measure, check, add | `NameIndex` |
| Sign-in, second factor | `handlers_auth.go`, `handlers_totp.go`, `session.go`, `store/sessions.go`, `store/users.go`, `auth/*` | sessions, pending logins, secrets to confirm, trusted devices, counters and recovery codes | sign in and out, change password, enable, disable, renew, verify a code | `Accounts` |
| Administration | `handlers_admin.go` | `adminMu`, rows of users | create, change, delete, reset the second factor | `Accounts` |
| Zip streaming | `vfs/zip.go`, `handlers_files.go`, `handlers_public.go` | slots; the plan is the client's | plan, download a part, again | `ZipParts` |
| Thumbnails | `thumbs/thumbs.go`, `handlers_thumbs.go`, `auth/ratelimit.go` | cache directory, map of thumbnails being made, slots of each user | get, make, prune | `Thumbs` |
| Media analysis | `handlers_media.go`, `media/*`, `store/media.go` | table `media_meta`, jobs | collect, read headers, answer or leave to a job, forget | `Media` |
| The rest | settings, audit, notifications, favourites, metrics, names as strings, user interface | single rows and caches | reads, single-row writes, parsing | – |

How they meet:

* Every HTTP request is a goroutine; none of them holds a database transaction
  across calls. SQLite runs each statement (or short transaction) atomically
  through one write connection, so between any two calls of a handler any other
  handler may act. The modules put a step boundary there, and at every call to
  the file system.
* Mutexes: one per upload session (handed out by a map, and dropped from the map
  by `unlock` while somebody may still hold it), `createMu` for all creations,
  one per drop link, `adminMu`, `scanMu`. They cover admission and metadata,
  never a transfer. Readers of folders lock nothing.
* `StartBackground` (`server.go:210`) runs the maintenance at start and every
  hour under a limit of five minutes: the sweep of stale sessions, the recovery
  of jobs and of deletions, the sweeps of links and of the trash, in that order.
  It touches the rows and files of requests under way.
* A listing of a folder prunes orphaned parts (`handleList`, `PruneOrphans`).
* A drop link is a second client of the upload sessions: its sessions have the
  account of the owner and are authorized by link and sender.
* Every change of the folder ends with hooks: links fall (`dropShares`), rows of
  the index and of the media table follow in goroutines of their own.
* The browser talks to all of this over calls that may be lost in either
  direction, and keeps its own idea of what the server has.

What is hard: parallel chunks and completions of one session; two publications
to one name; admission that counts, then inserts; sweeps and aborts that take no
lock; rows and files that change in two steps with a crash between them; a move
across devices that is a copy and a removal; a row read at the start of a request
and written or compared at its end; walks of a folder that changes under them;
answers that arrive after the client changed its mind. Section `hazards` of
`PROJECT.json` lists each at its line with the properties that would notice.

What makes each component correct:

* **Uploads**: a name shows a whole file or what was there before; nothing is
  replaced unasked; an acknowledged chunk stays acknowledged; reservations stay
  under the cap; nobody ends the session of another sender; sweeps spare what is
  alive; what is dead is released; nobody waits forever.
* **Upload client**: a free slot and work that is due never wait for each other; no
  chunk is in flight twice; a failed attempt waits before the next one (it does
  not); *done* means published.
* **Drop links**: reservations fit the limits of the link however many ask;
  visitors never meet each other's names; receipts are true and written once.
* **Trash**: a deletion loses no file whatever fails or crashes; a finished row
  offers the whole item; an interrupted deletion ends.
* **Jobs**: what an interrupted job left half-made is listed and goes in the end;
  recovery spares running jobs and says it removed only what it removed.
* **Links**: a link does not outlive the item it was made for; what a visitor is
  shown is the item of the link; the sweep revokes only what stayed broken; the
  address of a dead link is nobody else's.
* **Index and quota**: a scan leaves in the table what stood still, and drops what
  is not there; with disturbances, index and usage catch up.
* **Accounts**: a code works once; sessions end with what they were earned under;
  an administrator remains.
* **Readers**: the parts of a download hold each name once and lose no file that
  stayed; a thumbnail is whole and of its picture; an analysis says what the
  files held; whoever waits is woken.

## 2. Modules

| Module | What it is |
|---|---|
| `UploadSessions` | The upload protocol of one account in one folder, server side |
| `UploadPromise` | Abstract: what the protocol promises to whoever looks at the folder |
| `UploadSessionsProofs` | Theorems: type correctness, names show whole files, `UploadSessions` implements `UploadPromise`; who ends a session, what pruning spares, marks stay, the cap |
| `SumTheorems` | Lemmas: sums over finite sets, the least of a set of naturals |
| `DropLinkProofs` | Theorems: reservations, names and receipts of a drop link |
| `AccountsProofs` | Theorems: codes, sessions, administrators |
| `TrashProofs` | Theorems: no deletion loses a file, done means whole |
| `LinksProofs` | Theorems: links fall with their item, visits are true, sweeps spare, slugs stay |
| `WorkProofs` | Theorems: the queue of the tab stays busy, unrepeated and truthful; recovery of jobs is safe; a full scan of the index is the disk |
| `ReadersProofs` | Theorems: downloads, plans, thumbnails and analyses are true, and one job is enough for an analysis |
| `UploadClient` | The queue of the browser tab against an unreliable server |
| `DropLink` | One drop link with several visitors and its owner |
| `Trash` | Deletion, restore, purge and recovery of the trash |
| `Jobs` | Extractions, archives and copies in the background, and their recovery |
| `Links` | Links, the items they point at, the sweep and the visitors |
| `NameIndex` | The index of names, its scans and hooks, and the quota |
| `Accounts` | Accounts, sessions, the second factor and administrators |
| `ReadTree` | A folder that changes, and the walk through it |
| `ZipParts`, `Thumbs`, `Media` | Three readers of `ReadTree`: downloads, thumbnails, analyses |
| `Readers` | The composition of the three over one folder |
| `MC*` | Instances for TLC: sets, constraints, views, symmetry |

Operators whose comment begins with *Mutant* are broken variants of the
definition below them. No specification uses them; they exist to show that a
property notices that very mistake.

### UploadSessions

One account, one destination folder. `Proc` are the request handlers; `pc[p]` is
the call the handler makes next and `req[p]` its arguments and locals. `open`,
`meta`, `received`, `stale` are the columns of table `uploads`; `parts`, `bytes`,
`quiet`, `file` are the folder; `locks` is the map of session mutexes; `sweep`
and `prune` are the two background tasks. The label of a step names the handler
(`c_` create, `w_` chunk, `f_` finalize, `a_` abort, `p_` single request) and the
call. So `WriteChunk` of `service.go:380` becomes `ChunkBegin` (`beginWrite`),
`ChunkLoad`, `ChunkOpen`, `ChunkCopy`, `ChunkEnter` (lock), `ChunkMark` (second
load and `MarkChunk`).

Worth knowing when reading it:

* A name stands for a class of equivalent spellings (`NameKey`), so two uploads
  to one class compete for one name. Bytes of a chunk are present or not: a
  chunk that was cut leaves none, a repeated one writes the same bytes.
* `file[n]` holds the *inode* of the part, as the hardlink does: a late write
  through an open descriptor reaches the published file, in the model as on disk.
* `locks[s]` is the mutex object, not a flag. `unlock` replaces it, so two
  handlers can hold two mutexes of one session; the properties hold regardless.
* Cancelling a request makes its next database call fail. The one call the code
  protects with `context.WithoutCancel` (`service.go:468`) ignores it here too.
* A crash keeps rows and folder and drops handlers, mutexes and sweeps.
* `stale` and `quiet` replace the clocks: a session may turn stale whenever no
  chunk of it was marked since, a part quiet unless somebody is writing it. A
  single-request upload makes its own part quiet, by `Chtimes`.

`UploadPromise` has three variables: what names show, which uploads were accepted
and have not ended, what they asked for. Names change only by delivering a whole
accepted upload, over a free name or where it asked to overwrite, or by a
deletion. The refinement mapping is at the end of `UploadSessions`
(`Shown`, `Accepted`, `Ordered`); a file that lacks a chunk maps to `"torn"`,
which no step of the abstract module allows.

### UploadClient

JavaScript runs one continuation at a time, so an action is what the tab does
between two awaits. Many of them end with a call of `pump`; the flag `busy` says
that the pump has yet to run, and only its steps are enabled until it ends.
`slot[w]` is one of `maxParallel` requests: what it awaits (`at`), for which item,
chunk and session, and the answer on its way. Session *objects* (`Obj`) are
separate from session *ids* (`Sid`): an answer may come back to an object the
item no longer uses. The server is what the tab can observe: its sessions with
their marked chunks, the names taken, what it published. It may process a call
whose answer is lost, lose a session (`Vanish`), and see foreign files appear.

### DropLink

The requests of visitors step as in `UploadSessions`; chunks are left there, so a
session may be completed at any time. `Begin` to `Refuse` are admission under
`dropMu`, `NameRows` and `NameDisk` the choice of a name, `CreateInsert`,
`CreatePart`, `CreateUndo` the session, `CompleteEnter` to `CompleteStat` the
finalization, `Book` the receipt. `reaper` is the hourly sweep and the owner who
revokes the link. `Name` is one name and its variants `name (1)`, ...; the owner
may write into the folder at any time. `shown` and `late` only record history.

### Trash

`Job` delete, `User` restore and purge, `Hourly` recovers, expires and purges.
An item is a file or a folder of files; `at` says which files are at a path or in
the trash, `there` and `box` which folders exist, `row` and `origin` the table.
`moveOrCopy`, `CopyTree` and `RemoveTree` are shared by all of them, one file per
step, across devices (`Mount`) as copy and removal, each step of which may fail,
be cancelled or be cut by a crash. What becomes of an error depends on who called:
`Failed`, `NotFound`, `NotRemoved` follow `trashOne`, `handleTrashRestore`,
`purgeTrash` and `recoverPendingTrash`. `taken` records what the item held when
its move began. `disturbed` marks deletions somebody interferes with: another
item written or restored to the path of a pending row, a restore, purge or
expiry of it, a second deletion of the path. The properties exclude those; what
can happen to them is in the hazards. A path counts as taken by a deletion
(`Claims`) while its row is pending and also while the maintenance, or a job, goes
on from having read that it was: a purge in between takes the row, not the move.

### Jobs

One folder and the jobs that work in it. `pc[j]` is the next call of the goroutine
of a job, from `Start` (`StartLabeled` writes the row first) to `JobFinish` and
`Persist`, with `Guard` and `Unguard` around what touches the disk. `Mkdir` to
`Undo` are `handleExtract` and `ExtractZip`, `ZipOpen` to `ZipPublish`
`WriteZipFile`, `CopySkips` to `CopyPublish` `handleCopy` and `copyFile`; `Lookup`
is `UniqueIfExists` and `ResolveDest`. `tick` holds the snapshots a ticker read and
has not written, which `TickWrite` may do after the final state. `RecList` to
`RecTell` are `recoverInterruptedJobs`, one row at a time, with the rows that must
wait (`RecSkip`) and rounds that are cut (`RecAbort`). `placed`, `zip`, `temp` say what
is on disk and who made it: recovery and undo go by name, whoever is there by then.
`Crash` includes the start of the next process (`MarkInterruptedJobs`), whose disk
may be late. A *leftover* is a folder with some entries of an extraction, a
temporary archive, or a temporary of a copy.

### Links

`at` gives the item (an inode) at each path; one path is the mount point of a
disk that comes and goes, directly in the base folder (`Disk`). `link` is the table `shares`; ids are those SQLite gives,
the largest plus one, so the id of a deleted last row comes again. The processes
are requests that create links (`cr`: find or make the folder, identify it,
insert, undo), one that removes or moves an item (`op`: drop the links of a
drop link's folder, act on the disk, drop the links of the path), one that ends
a link (`rev`), the round of the maintenance (`sw`: list, look at each row in
two calls, judge, revoke one by one) and a visitor (`vis`: read the row, open
the folder, look for the target, serve). `OutsideMove` and `OutsideRemove` are
other programs, which tell nobody. `Budget` bounds requests and outside changes;
the sweep and visitors have none. `whole` remembers, for `SweepSparesLinks`, the
links that were seen whole since they were marked for a day.

### NameIndex

`disk` is what is there, `rows` what the table says. The generation of a row
matters only as *ahead of the last finished scan or not*, which is what the model
keeps. A scan is a walk with batches, a deletion of what it did not stamp, a write
of its state and a deletion of media rows; an error or a restart ends it
anywhere. `hooks` is a set of goroutines (touch, tree, walk, remove) that read the
disk in one step and write the table in another, in any order. A request of the
user sums the usage, caches the sum, writes the file, adds its size, each in a
step of its own, as `quota.go` does. `calm` records the paths nothing but the scan
has touched since it began; `ghosts` those whose row was *ahead* by then, stamped by a
scan that failed (`indexer.go:100` gives the next one the same number). A path is a sequence of names; a rename into itself
is refused, as `MoveTo` does (`vfs/root.go:270`).

### Accounts

`user` and `session` are the tables; `req[r].row` is the row a request read when it
began and works with from then on. A step is one statement. `taken` and `twice`
record which codes were accepted since the last `SetTOTP`, `late` marks sessions
whose login was under way while others were deleted, `lost` the accounts whose role
or state a stale write set back. Passwords and limits only refuse; requests that
they refuse change nothing and take no steps. An account made under the id of a
deleted one starts with no code taken: a request that outlives the first account
and writes to the second is left out of `CodesOnce` (finding below).

### ReadTree and its readers

`ReadTree` is a folder that other requests and programs change (`Write` in place or
by another file, `Mkdir`, `Delete`, `Rename`) and the depth-first walk that zips
and analyses share (`walkDir`). A file has an inode and a version, which stands
for what its size and time of modification tell apart. `stay` holds the paths that
nobody touched since a plan began. The three readers extend it:

* `ZipParts`: a plan walks the selection and cuts it into parts by name ranges;
  each part walks again, later, and takes what falls into its range; a part may
  be cut and asked for again; a plan that takes too long becomes one part. The
  selection is what the interface can send: items of one folder, or all of it.
* `Thumbs`: a request takes one of the user's slots, makes a key of inode and
  version, looks into the cache, makes the thumbnail or waits for who is making
  it; temporary file, rename, each of which may fail, and `Prune` at any time.
* `Media`: a request walks, takes from the table what is valid, reads up to
  `SyncMax` headers itself or leaves them to a job and waits; the page asks again
  when the job ended. `Askers` are open pages, of one user or several, each with at
  most one job it waits for or left; that the user's jobs are four already
  (`quota.go:113`), of whatever kind, is a refusal that may come at any time
  (`room`). A job writes its rows every `Batch` (200 in the code), at its end, and
  when it is cancelled; each write may fail and is then only logged (`Flush`). A
  request writes once here, where the code writes its first 200 early. `spoilt`
  counts the writes of an older reading over a row that was valid.

`Readers` composes them: each moves alone, the folder changes under all, a crash
hits all of them at once.

## 3. Runs and bounds

Every passing run explores all states of its instance.

| Run | Question | Instance |
|---|---|---|
| `upload_chunks` | Do parallel, repeated and cut chunks, completions, overwrites and single requests keep names whole and bits set, while listings prune? Do concurrent creations respect the cap and each other's sessions? | two handlers, two sessions; the account at one name with files of one chunk or one of two, or the account and a visitor at two names with sizes 0 and 3, cap 3, no chunks |
| `upload_liveness` | Do requests end, and dead sessions? | two handlers, one session, no hardlinks |
| `client_queue` | Does the queue stay busy, unrepeated and truthful? | a chunked and a small file, two slots, two attempts |
| `client_backoff` | *finding*: does a failed attempt wait for its back-off? | the same |
| `drop_sessions` | Do admission, naming and receipts hold with everybody at once? | two visitors, two sessions, sizes 1 and 2, quota 2, one name and a variant |
| `trash_crash` | Does a deletion survive failures, crashes and company? | a folder and two files, two of the paths on another device, one deletion |
| `jobs_recovery` | Does everything half-made go, and nothing else be told or touched? | an extraction, two archives, a copy, two names; two jobs started |
| `links` | Do links follow their item, visitors see it, and sweeps spare what came back? | four paths, one on another disk, three folders and a file, two links |
| `links_move` | *finding*: does a move that fails keep the item? | the same with one link |
| `names` | Do index and usage come back to the disk? | two folders with a file each, sizes 1 and 2, batches of 2, two requests |
| `accounts` | Do codes, sessions and administrators survive each other? | two accounts, two requests at a time, three in all |
| `readers` | Do downloads, thumbnails and analyses tell the truth of a folder that changes? | a folder with two files and a file beside it, two changes, three viewers, two pages |

The type invariant (`TypeOK`, `JobsTypeOK`, `IndexTypeOK`, ...) is a conjunct of the
first invariant of a module where it is not a property of its own.

Why the bounds are enough to be interesting:

* Two handlers (`MaxActive` counts them together with sweep and pruning) give
  every pair of calls in every order. The races of this code are between two
  parties; a third adds a repetition. Two chunks are the least that make a bitmap
  with a bit to lose; two sessions the least that supersede, collide or add up.
* `Folder` splits the instance of `upload_chunks`. The account is alone at one name
  (`ByAccount`), and either all files have one chunk, with overwrites, single
  requests and parts left alone (one at a time), or one file has two chunks and none
  of that. Or a visitor of its link is there too, at two names (`Admission`), and
  sessions are created up to the cap, completed when empty and aborted, without
  chunks: that is enough for sums, superseding and authorization, which look at rows
  only. The cap lets two sessions of the first kind in, and one of size 3.
  `FewExtras` and `Calm` of the client bound the disturbances that are pending at one
  moment, not their number over time.
* `SameName` of the drop link has everybody ask for the first name, single requests
  send the smallest size, and the owner take away one published file.
* `MaxStarted` lets two jobs start, of any types, so every pair of types meets:
  two archives for one name, a copy beside an extraction. `FewStarted` cuts starts
  only. A crash, the next round of recovery and the user come as often as they like.
* A second deletion in the trash was checked offline with the same result (about
  1.5 million states); the run keeps one, since deletions of different paths share
  nothing but the maintenance.
* `links`: two creations, one request on an item and two outside changes, of which
  the request allows one (`FewChanges`); two of requests and rounds at a time
  (`FewActive`), visitors among outside changes only, since they change nothing
  and the requests take the same steps on the disk as other programs. `MassMin` 2
  is the least that makes the mass guard differ from a single broken link.
* `names`: two of {an upload, a change, an outside change, a failure}
  (`FewChanges`), and two of {scan, hooks, the two requests} at a time (`FewActive`):
  one request uploads and the other measures (`Roles`), so that what the first adds
  can fall between the sum and the cache of the second. A
  batch of two makes a walk of four paths flush in the middle.
* `accounts`: the clock moves while a code is about to be compared (`TimeMatters`);
  any three requests, of two at a time; a login, a password change and an
  administrator make one such triple. Any account may have a
  second factor and any role at the start.
* `readers`: zips, thumbnails and analyses share nothing but the folder, so the
  constraint (`AZip`, `Thumbnails`, `Analyses`) explores one of them at a time
  beside the changes. Sizes 1 and 3 around a part of 2 give files that fill a
  part, share one and exceed one. Three viewers for two slots make one wait. The
  second file of the folder is small, except where two that cannot be read are
  analysed (`Unread`). Two pages analyse at once in one constellation (`Two`): the
  job of the second began before the last change and is still at work when the
  first one asks. A job writes after each row (`Batch` 1).
* `LiveView` of an MC module leaves out what nothing will read any more
  (columns of ids without a row, a name or a user; what only beginnings read, after
  the last one). Two states it identifies have the same future up to that, so it
  is safe for liveness too; every constraint reads only what it keeps. Symmetry is
  used in safety runs only.
* The liveness properties of `links`, `names` and `readers` are checked under
  constraints on budgets. A cut there removes the states beyond it, and a
  behaviour that stays inside must still satisfy the property; budgets bound
  disturbances, whose end the properties presuppose anyway.
* Deadlock is checked where the system never rests. It is not in the trash (once
  every file of the instance was written and no row is left) nor where a budget
  of requests runs out: links, names, accounts, readers.

The ids of `UploadSessions` run out (`used`); a run that exhausts them still
answers, aborts, sweeps and deletes. `DropLink` and `Trash` reuse an id once
nothing refers to it.

## 4. Fairness

Nobody has to send, cancel, delete, restore, share or revoke anything; those
actions have no fairness.

* A request under way moves (`WF` of its steps): a body that stops for 60 s is
  cut by the server, and local calls return. A goroutine that waits for a
  `sync.Mutex` gets it in the end (`SF`): Go's mutex turns to FIFO hand-over after
  a millisecond of starvation.
* A session left idle turns stale as time passes (`WF GoStale`). That
  also rules out a client that repeats chunks for ever, but not where it matters:
  no chunk refreshes a session without a part, the kind `DeadSessionReleased` is
  about.
* The sweep of sessions runs at start and every hour (`WF SweepList`). Its steps
  carry `SF`, since a restart or its five-minute limit may cut a round, but not the
  same gap of every round.
* In the trash the recovery starts again and again (`SF Recover`), goes on
  (`WF UnderWay`), and from some time on meets neither an error of its own nor a
  crash (`<>[][Steady]_vars`). Without that, a disk that always fails or a process
  that always dies never finishes a deletion, and no code could. Requests and
  jobs of users may still fail for ever. The assumption hides one thing: a file
  that takes more than five minutes to copy fails in every round, because the
  unfinished file starts again. It is listed as a hazard.
* The recovery of jobs has the same assumption: rounds start and go on
  (`WF (Recover \/ RecSkip)`), a late disk arrives (`WF Mount`), and from some time on
  there is neither a crash nor a failed round. Jobs themselves have no fairness: one
  that runs for ever owes nothing.
* The sweep of links starts and goes on (`WF` of `SweepList`, `SweepLook`,
  `SweepJudge`, `SweepRevoke`), and a mark ages by a day (`WF Ripen`).
  `BrokenLinksGo` says what it needs beyond that: the mass guard does not hold for
  ever, and the link stays broken.
* A full scan starts again (every six hours, `WF ScanStart`) and goes on
  (`WF ScanStep`), hooks and requests are goroutines that run on (`WF`), and the
  cached usage expires after 30 seconds (`quotaCacheTTL`, `WF Expire`).
* The request of a thumbnail runs on (`WF ViewStep` for each viewer). The timer that
  gives up the wait for a slot, and the browser that leaves, have no fairness:
  `ViewsEnd` holds without them.

## 5. Findings

Two are runs that expect a violation, with the counterexample TLC prints:

* `client_backoff`: `docs/05-uploads.md:120` promises a back-off of 1, 2, 4, 8, 16 s
  between attempts. An attempt that fails puts its item back to *queued* and sets a
  timer that will call `pump` (`manager.ts:463-466`); then it returns, and the
  `finally` of `pump` pumps at once (`manager.ts:245-248`), which sends the item again.
  The six attempts go out one after another. `NoLostWakeup` asks nothing of an item
  whose back-off has not run out, so that it holds with and without this.
* `links_move`: `MoveTo` with overwrite removes the target before the rename
  (`vfs/root.go:285`). When the rename then fails, the target is gone, and when
  the source lies inside the target, so is the source.

The following the models have as behaviours, and the hazards in `PROJECT.json`
name; the properties leave them out by a condition that says so.

* An upload item whose session has every chunk already is started and then stays
  *uploading* with nothing in flight (`manager.ts:376`).
* A completion of a drop link moves its file from one table to the other outside
  the mutex of admission, which may see it in neither (`handlers_drop.go:471`).
  The undo of a failed creation removes a folder another request may have found
  (`handlers_shares.go:252`).
* A full scan takes the number after the last finished one (`indexer.go:100`), also
  when a scan with that number failed before. Its sweep (`indexer.go:128`) then keeps
  the rows the other had stamped, so that what was deleted behind the server's back
  in between stays in search and quota until the scan after it, against *a periodic
  full scan is the source of truth* (`indexer.go:10`). `ScanIsTheDisk` excepts these
  rows (`ghosts`) and no others; `IndexSettles` shows that they go.
* Purging, or restoring, a deletion that is still moving its item drops the row,
  and the item arrives without one (`handlers_trash.go:251`), against the comment
  at `handlers_trash.go:42`.
* An archive finds a free name, works for minutes, and renames over what came to
  that name meanwhile (`zip.go:176`), where `docs/04-api.md:91` has it step aside.
  Removal by path in recovery and undo has the same gap.
* A single-request upload whose file is older than 15 minutes can be taken for an
  orphan by a listing between `Chtimes` and `Finalize` (`handlers_files.go:541`),
  against the comment at `service.go:531`. It fails the upload and harms nothing
  else.
* A link to a file compares the inode once and opens the file by its name for
  every read (`handlers_public.go:117`). Marks of broken links survive a round that
  revokes nothing, and count for the next (`broken_shares.go:80`). A row that took
  the id of a deleted one can be revoked in its place.
* A password change writes back the whole row it read (`handlers_auth.go:181`) and
  undoes what an administrator did meanwhile. Errors of `DeleteUserSessions` are
  ignored.
* What `PartsCoverOnce` says of parts it says of names: a file that is renamed between
  two parts may be in both. Two items of a selection with one base name would share
  the names of their entries; the interface selects items of one folder only.
  `PlanIsTrue` speaks of plans of several parts, the only ones whose numbers are shown.
* A thumbnail is made under a key of inode, time and size that were read before the
  picture was opened (`thumbs.go:110`). When another picture came to its path in
  between, the cache shows the new one under the old key, and goes on to show it for
  the old picture at its new name, since a rename keeps all three (`crossed`).
* A row of the media table takes size and time from the listing and its content from
  a later read (`handlers_media.go:348`). Headers a timeout leaves unread count as
  unreadable, without the answer being partial. A job that ends late writes older
  readings over the rows of another job, and a page waits for one job more
  than `handlers_media.go:27` has it. `Prune` may take the temporary of
  a thumbnail before its rename; the request fails, the next one makes it again.

## 6. Proofs

TLAPS checks the following for every value of the constants that satisfies the
named assumptions of the modules: any number of handlers, sessions, visitors,
names, accounts, paths and jobs. The assumptions say what the code fixes (a chunk
has a positive size, sizes are natural numbers, there is a mutex object for each
handler and each entry of the map and one more; where folders are walked, the
paths are finitely many and every beginning of one is one) and keep model values
apart (a name is not an id, `None` no number). Each module of theorems follows one plan. The invariant a
reader cares about is not inductive; `IInv` adds what the code relies on without
saying so; a lemma for each action says what the step changes; a lemma for each
conjunct says that a step of that shape keeps it. The conjuncts were checked by TLC
on the instances of section 3 before they were proved, but for those that speak of
a set of walks (`Replays`), which no instance can enumerate.

**`UploadSessionsProofs`** (uploads). First, what names show.

* `TypeCorrect`: `Spec => []TypeOK`. By action; the lemmas `ReplyTyped`,
  `GotoTyped`, `UnlockTyped` do what the actions share. That a fresh mutex is
  always at hand is where the number of mutexes is used.
* `NamesShowWholeFiles`: `Spec => []DeliveredWhole`. A name shows a whole file only
  because the bitmap was full when the completion read it, the bitmap only has
  bits of chunks whose bytes are on disk, and nobody writes a part under an id
  another upload uses. None of this is in `DeliveredWhole` itself, hence `IInv`,
  conjunct by conjunct:
  * `IdsFresh`, `IdsDrawn`, `IdsAlone`: an id not yet drawn has neither row nor
    bytes nor name; one drawn by a creation that has not inserted its row belongs
    to that handler only. So inserting a row never changes the declared file of
    something on disk.
  * `IndexInRange`, `BytesInRange`: chunks in flight and on disk belong to the file.
  * `MarkedStored`, `SeenStored`, `CopiedStored`: a marked chunk, a chunk about to be
    marked and the bitmap a handler has read are on disk. `SeenStored` covers
    what the second load of `WriteChunk` is for.
  * `CertainStored`: once a finalization has passed its check, every chunk is on
    disk, and stays there, whatever happens to row and part.
  * `NamedStored`: every inode with a name is whole; with `BytesInRange` this is
    `DeliveredWhole`.
* `FolderKeepsPromise`: with hardlinks, `Spec => Promise!Spec`. Initial states map to
  initial states, and each action maps to a delivery, an acceptance, an ending, a
  deletion or a stutter, using `IInv` (what is linked is whole) and `NoFallback`
  (no handler is in the check-then-rename path). Without hardlinks the statement
  is false: `publish` looks and then renames (`vfs/upload.go:120`).

Then, what a late step may do. Three action properties rest on one fact about ids:
an id leaves the hands of its creation once and no later creation gets it (`Own`,
`PruneSound`, `SweepSound`), so what a handler, the sweep or a listing remembers of
a session stays true however late it acts.

* `SessionsEndByTheirSender` (`OnlySenderEnds`), `PruningSparesSessions`
  (`PruneSparesSessions`).
* `MarksStay` (`AckedChunksKept`): a handler that marks holds the mutex the map has
  for a session with row and part (`InMap`), so two that mark at once hold the same
  one and are one (`Exclusive`), and nothing was marked since its second load
  (`SeenAll`). `unlock` drops mutexes that others wait for; the proof shows why
  that does no harm.
* `ReservationsUnderCap` (`ReservedUnderCap`): a creation between check and row
  counts on a sum it saw earlier (`Cap`). Sums over sets are defined by a recursion
  that chooses an order; `SumTheorems` shows by smallest counterexample that any
  element may be taken out first.

**`DropLinkProofs`** (drop links). `ReservationsAlwaysFit` (`ReservationsFit`),
`NamesAreTheirOwn` (`VisitorsNeverCollide`), `ReceiptsAreTrue` (`ReceiptsTrue`).
`OwnIds`, `Unmade`: until its row exists an id is its creation's alone; `Exclusive`,
`Named`, `Room`: what is read under `dropMu` of names and sums holds until it is
used; `BookedOnce`: who removed the part published it and alone books it.

**`TrashProofs`** (trash). `TrashStaysSound`: `Spec => []IInv`; `DeletionsLoseNothing`
(`NothingLost`), `DoneIsWhole` (`WholeWhenDone`). `Tree` and `Kinds` say what paths and
workers look like; `Alone`: nobody else works on a deletion that nobody interfered
with, nor claims its path; `Contents` relates what it took, what is left and what
arrived; `Progress` the same to the step of its worker, which is where copying
before removing pays.

**`AccountsProofs`** (accounts). `CodesAreTakenOnce` (`CodesOnce`), `SessionsStayEarned`
(`SessionsAreEarned`), `AnAdministratorStays` (`AnAdminRemains`). `Codes`: the counter in
the row is past every spent interval, and a spent recovery code is in no list,
also none that a request is about to write; `Earned`, `Earning`: a session, or a
login not finished, under a password or without a factor that changed has a
request that will end it; `OneAtATime`, `Spared`: under `adminMu` the other
administrator that was seen is still there.

**`LinksProofs`** (links). `LinksFall` (`LinksFallWithItem`), `VisitsShowTheirFolder`
(`FolderVisitsTrue`), `SweepsSpareLinks` (`SweepSparesLinks`), `SlugsAreKept`
(`SlugsStayReserved`). That the disk stays a tree needs lemmas on paths as
sequences: what a move brings to a path comes from one path only, and the folder
of what it brings is brought to its folder (`SourceInjective`, `SourceFolder`,
`MovedTree`). `Falling`: a request finds its links by path, and drops what it
finds. `Remembers`: what the list of a round says of a row (its slug, its mark) is
true while the row stays, and a row marked a day before the round was not found
whole since, which is why the grace of 24 hours holds although the list is old.
`Away`: a round that began with the disk gone, and did not see it come, has counted
every link on it as broken, so the mass guard sees at least those. An id that
another row took during the round is outside `same`; there the code gives no
guarantee, and the theorems claim none.

**`WorkProofs`** (three machines that share nothing: the tab, jobs, the index).

* The tab. `WorkNeverWaits` (`NoLostWakeup`),
  `ChunksFlyOnce` (`NeverTwiceInFlight`), `DoneIsStored` (`DoneMeansStored`). `Apart`: two
  slots never carry the same chunk of a file, nor complete the same file; `Theirs`: a session an item, a slot or a dialog
  goes by is that item's for as long as the server has it, though objects change
  and answers come late; `Published`: an answer *ok* on its way speaks of stored
  bytes. Most steps are *soft*: they adopt sessions of their own, free a slot or
  close a session, and then run the pump or leave it nothing new to do; `SoftKeeps`
  does them all, and the steps of the pump and of the server are done one by one.
* Jobs. `JobsTyped`, `LeftoversAreListed` (`LeftoversListed`), `HistoryIsTrue`
  (`TextIsTrue`), `RunningAreSpared` (`RunningSpared`). All are a matter of order: the row
  in `job_cleanup` is there before the disk is touched and until it is clean
  (`Guarded`, `RowsInTime`, `DeadListed`), what is on disk is of a job that is where it
  may be (`FolderAtTarget`, `ContentInTime`, `ZipAtTarget`, `TempInTime`, `CleanAtEnd`), and
  a round holds rows of dead jobs only and forgets one after its files
  (`RoundSound`, `ListedSound`, `ToldSound`).
* The index. `ScansAreTrue` (`ScanIsTheDisk`). `Walked` says of each calm path that the
  batch or its row has it as it is, or something on the stack of the walk leads to
  it; of a path with nothing there, that nothing was recorded. A folder that is
  visited puts its children on the stack, so a path is led to until it is met; a
  path whose folder changed is not calm. That needs the disk to be a tree after
  every step (`RenamedTree` and its kin, on paths as sequences). After the last
  batch `Met` holds, so the sweep deletes the rows of no calm path, and after the
  sweep no row is left of a calm path with nothing there, but for the `ghosts`: rows a
  failed scan had stamped before this one began, which the sweep cannot tell from
  those of its own.

**`ReadersProofs`** (readers). The order of `walkDir` is what the zips rest on: a walk
(`Walks`) is a list of entries each of which is apart from, and before, the ones
after it, and `Rest` keeps that when a folder is replaced by its children in order
of their names.

* `PartsCoverTheSelection` (`PartsCoverOnce`), for a selection of items of one folder or
  all of it: names of one download are in one order
  whichever selected item leads to them (`NamesOf`, `SameName`); what a part wrote is
  in that order and in its range (`GotIs`), and a file that stayed is written, open
  or still led to (`Keeps`). The ranges of a plan meet end to end (`Bounded`), so each
  name is in the range of exactly one.
* `PlansAreTrue` (`PlanIsTrue`): while nothing changed, each range counts and adds up the
  files that were visited and fall into it (`PlanCounts`); a file goes to the last
  range, whose end is open, because all before it are behind it (`Ahead`).
* `ThumbnailsAreTrue` (`ThumbsTrue`): slots are those of running requests (`SlotsOK`), keys
  being made those of exactly one maker (`MakersOK`), and a temporary is the work of
  its maker until the rename (`TempOK`).
* `AnalysesAreTrue` (`AnalysisTrue`): a row says what the header of its file holds unless
  it is marked as mixed (`GoodRows`), an answer takes rows of what it listed only
  (`AskIs`), and a listing that nothing disturbed leads to every file (`HasAll`). It
  claims nothing of files left unread when the time was over (`cut`), which the
  answer does not report (section 5).
* `OneJobIsEnough` (`JobSuffices`): a walk of a folder that stays is a function of its
  start. The walk that the page repeats after the job passes the places the first
  one passed (`Passes`), meets the files the first one met, and the table has them or
  will have them when the job ends (`Known`), so nothing is left for another job.

Some proof attempts failed for a reason, and changed what the models say; TLC
confirmed the first three on an instance:

* An account may be deleted and another made with its id (`users.id` has no
  `AUTOINCREMENT`). A request that read the first and writes to the second can have
  one code taken twice. `CodesOnce` speaks of the time since the account was made.
* A deletion whose row is purged while its job still moves the item goes on, and a
  second deletion of that path then loses a file to it. `disturbed` did not count
  that as interference; `Claims` does.
* One job was not enough with two pages open: the rows of the last writer stay, so a job
  that read a file before it changed, and ends after the job of the other page, puts
  an older reading in place of a valid row, and the page asks for one more job.
  `JobSuffices` leaves that out (`spoilt`), and the run has two pages since.
* A mount point deep in a folder could be left, unmounted, below a folder another
  program removed, and the disk was a tree no more. `PathsAssumption` now says
  what every instance had: the mount point is in the base folder.
* A folder of the index could be renamed into itself, after which the disk was no
  tree. The code refuses that, and so does `Rename` now.
* `PathsAssumption` of the index did not say that every beginning of a path is a path,
  without which a walk need not come to what is below.

Model-checked only: every liveness property, and the two findings. Liveness stays with TLC
for good: the prover has no rules for `ENABLED`. Every invariant and every action
property of a passing run is a theorem.

## 7. Not modelled

* Bytes, names as strings, wording, logs, HTTP details. Names are model values,
  numbers or the positions of a name among its variants; files are sets of chunks,
  versions or tokens.
* Expiry, passwords and cookies of links; rate limits and lockouts, which count in
  time; notifications; audit; favourites; settings.
* Of the client: the multipart batch (its files are single requests here), adding
  a file again while its finished item is still listed, speed and progress; the
  smaller queue of the public drop page.
* Of the trash: temporaries of copies (a copied file appears whole, as `publish`
  makes it), an unmounted disk, symbolic links and special files, which a copy
  skips and the removal of the source then deletes; links, index and favourites
  of a deleted item; moves and permanent deletions.
* Of jobs: moves across devices, the overwrite policy, copies of folders (one file at
  a time here), the cap of running jobs and the semaphores, usage and index;
  failures of the database; a removal that fails in part without saying so; the
  pruning of the history and the deletion of a user, which drop rows that wait for
  a disk.
* Of links: listings of them, the change of a user's scope, the deletion of a user;
  a disk mounted deeper than the base folder.
* Of accounts: hashing, cookies, the list of trusted devices as text, what the
  deletion of a user removes besides rows.
* Of readers: decoding of pictures, the parsers of headers (`exif.go`, `isobmff.go`,
  `ebml.go`, `riff.go`), the totals of an analysis, zip bytes: functions of bytes
  without state. `Clear` of the thumbnail cache has no caller.
* The conditional save of the editor, which its comment calls a narrow window.
* Routing, metrics, configuration, the database itself and the user interface, with
  the reasons in `components` of `PROJECT.json`.

## 8. What is left

1. Jobs: moves across devices and the overwrite policy; failures of `guardJob` and
   `unguardJob`.
2. Names: `UniqueName`, `SplitExt` and the classes of equivalent spellings as
   functions against a reference definition.

## 9. Running it

From this directory, with TLC and TLAPS installed and the community modules on
the library path:

    tlc -workers 2 -config UploadChunks.cfg MCUploadSessions
    tlc -workers 2 -config Readers.cfg MCReaders
    tlapm UploadSessionsProofs.tla
    tlapm WorkProofs.tla

`PROJECT.json` lists which configuration belongs to which module. The passing
runs take up to four minutes each, the proofs up to ten.
