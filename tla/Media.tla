------------------------------- MODULE Media -------------------------------
(* The analysis of the photos and videos of a folder: what their headers   *)
(* say is kept in a table, a row valid while the size and the time of the  *)
(* file are those of the row.  A request reads a few headers itself, and   *)
(* leaves many to a job.                                                   *)
EXTENDS ReadTree

CONSTANTS
  Askers,     \* pages with an analysis open, each until its job has ended; a
              \* user may have several
  Selections, \* what they analyse: sequences of paths
  Unreadable, \* sizes of files that have no header
  SyncMax,    \* headers a request reads itself
  Batch,      \* rows a job writes at once
  MaxScan,    \* entries an analysis looks at
  MaxAsks,    \* how often an analysis is opened
  MaxMishaps  \* how often a write fails, a job is cancelled or rows are dropped

ASSUME MediaAssumption ==
  /\ SyncMax \in Nat /\ Batch \in Nat \ {0} /\ MaxScan \in Nat /\ MaxAsks \in Nat /\ MaxMishaps \in Nat
  /\ Unreadable \subseteq Sizes /\ Selections \subseteq Seq(Paths \cup {<<>>})
  /\ None \notin [ver : Nat, size : Sizes, what : {None} \cup Nat, mixed : BOOLEAN]

VARIABLES
  ask,        \* the analyses
  job,        \* the job of each page that reads headers
  media,      \* media_meta: the row of each path
  asks,       \* analyses opened so far
  mishaps,    \* mishaps so far
  spoilt      \* for the properties: how often an older analysis put its rows
              \* in the place of a valid one

mediaVars == <<ask, job, media, asks, mishaps, spoilt>>

Off == [pc |-> "off"]
\* A header that could not be read.
Bad == None
Header(file) == IF file.size \in Unreadable THEN Bad ELSE file.ver

\* A row says which file was listed, and what was read then; mixed, for the
\* properties, that another file was there by then.
RowOf(file, what, mixed) ==
  [ver |-> file.ver, size |-> file.size, what |-> what, mixed |-> mixed]
Same(a, b) == a.ver = b.ver /\ a.size = b.size

\* Mutant: the row of a path is taken for its file.
ValidAlways(p, file) == media[p] # None
\* GetMediaMeta: the size and the time are those of the file.
Valid(p, file) == media[p] # None /\ Same(media[p], file)

\* What reading the header of a listed file gives now.
Probed(p, file) ==
  LET here == IsFile(p)
  IN RowOf(file, IF here THEN Header(tree[p]) ELSE Bad, ~(here /\ Same(tree[p], file)))

\* Mutant: what has no header is not remembered.
StoredReadable(rows) == [p \in Paths |->
  IF p \in DOMAIN rows /\ rows[p].what # Bad THEN rows[p] ELSE media[p]]
\* PutMediaMeta
Stored(rows) == [p \in Paths |-> IF p \in DOMAIN rows THEN rows[p] ELSE media[p]]

\* The rows of the last writer are kept, not the last ones.
Spoils(rows) == \E p \in DOMAIN rows :
  IsFile(p) /\ Valid(p, tree[p]) /\ ~Same(rows[p], tree[p])
Put(rows) ==
  /\ media' = Stored(rows)
  /\ spoilt' = IF Spoils(rows) THEN spoilt + 1 ELSE spoilt
\* A write that fails is logged, and nothing else.
Flush(rows) ==
  \/ Put(rows) /\ UNCHANGED mishaps
  \/ /\ rows # <<>> /\ mishaps < MaxMishaps
     /\ mishaps' = mishaps + 1 /\ UNCHANGED <<media, spoilt>>

Also(f, p, v) == [q \in DOMAIN f \cup {p} |-> IF q = p THEN v ELSE f[q]]
First(paths) == CHOOSE p \in paths : \A q \in paths : q = p \/ Before(p, q)

-----------------------------------------------------------------------------
(* collectMedia: the files below the selection, each counted once.         *)

\* born and rounds, for the properties: what had happened when the page opened,
\* and how many jobs it waited for.
Happened == changed + mishaps + spoilt
Opened(s, kind, born, rounds) ==
  [pc |-> "walk", kind |-> kind, sel |-> s, born |-> born, rounds |-> rounds,
   todo |-> [i \in DOMAIN s |-> [top |-> s[i], path |-> s[i]]],
   scanned |-> 0, partial |-> FALSE, cut |-> FALSE, since |-> changed,
   cand |-> <<>>, misses |-> {}, got |-> <<>>, rows |-> <<>>]

\* handleMediaStats, handleMediaCSV for one path, and mediaOf for one file.
MediaOpen(a) ==
  /\ ask[a] = Off /\ job[a] = Off /\ asks < MaxAsks
  /\ \E s \in Selections, kind \in {"stats", "csv"} :
       /\ kind = "csv" => Len(s) = 1
       /\ ask' = [ask EXCEPT ![a] = Opened(s, kind, Happened, 0)]
  /\ asks' = asks + 1
  /\ UNCHANGED <<job, media, mishaps, spoilt>>

\* The walk of a folder counts what it meets, but neither the root nor a file
\* that is asked for.
Counted(here) == At(here.path) # None /\ here.path # <<>> /\ At(here.top) = Dir

\* The limit ends the walk of all that was asked for.
Reached(d) == [d EXCEPT !.todo = <<>>, !.partial = TRUE]

MediaVisit(a) ==
  /\ ask[a].pc = "walk" /\ ask[a].todo # <<>>
  /\ LET d == ask[a]
         here == Head(d.todo)
         n == d.scanned + IF Counted(here) THEN 1 ELSE 0
     IN ask' = [ask EXCEPT ![a] =
          IF Fails(here) THEN Off
          ELSE IF n > MaxScan THEN Reached(d)
          ELSE [d EXCEPT !.todo = Rest(d.todo), !.scanned = n,
                  !.cand = IF IsFile(here.path) /\ here.path \notin DOMAIN @
                           THEN Also(@, here.path, tree[here.path]) ELSE @]]
  /\ UNCHANGED <<job, media, asks, mishaps, spoilt>>

\* The browser is gone, from a walk or from the wait for a job.
MediaLeave(a) ==
  /\ ask[a].pc \in {"walk", "job"}
  /\ ask' = [ask EXCEPT ![a] = Off]
  /\ UNCHANGED <<job, media, asks, mishaps, spoilt>>

-----------------------------------------------------------------------------
(* mediaCached, probeAll and the job.                                      *)

Reading(files) == [pc |-> "run", misses |-> files, rows |-> <<>>]

\* startJob refuses a user with four jobs at work; they may be of any kind.
MediaLook(a) ==
  /\ ask[a].pc = "walk" /\ ask[a].todo = <<>>
  /\ \E room \in BOOLEAN :
     LET d == ask[a]
         hits == {p \in DOMAIN d.cand : Valid(p, d.cand[p])}
         misses == DOMAIN d.cand \ hits
         many == Cardinality(misses) > SyncMax
         waits == many /\ d.kind = "stats" /\ room
     IN /\ ask' = [ask EXCEPT ![a] =
             IF ~many THEN [d EXCEPT !.pc = "probe", !.misses = misses,
                              !.got = [p \in hits |-> media[p]]]
             ELSE IF waits THEN [Opened(d.sel, d.kind, d.born, d.rounds + 1) EXCEPT !.pc = "job"] ELSE Off]
        /\ job' = IF waits THEN [job EXCEPT ![a] = Reading([p \in misses |-> d.cand[p]])] ELSE job
  /\ UNCHANGED <<media, asks, mishaps, spoilt>>

MediaProbe(a) ==
  /\ ask[a].pc = "probe" /\ ask[a].misses # {}
  /\ LET d == ask[a]
         p == First(d.misses)
         row == Probed(p, d.cand[p])
     IN ask' = [ask EXCEPT ![a].misses = @ \ {p}, ![a].got = Also(@, p, row), ![a].rows = Also(@, p, row)]
  /\ UNCHANGED <<job, media, asks, mishaps, spoilt>>

\* The time for reading headers is over: the answer goes without the others, and
\* does not say so (partial is about the walk alone); cut, for the properties.
MediaTimeout(a) ==
  /\ ask[a].pc = "probe" /\ ask[a].misses # {}
  /\ ask' = [ask EXCEPT ![a].misses = {}, ![a].cut = TRUE]
  /\ UNCHANGED <<job, media, asks, mishaps, spoilt>>

\* The rows are written, or are not, and the answer goes out. A request
\* of more than 200 headers writes the first 200 before it reads on: here it
\* writes once.
MediaPut(a) ==
  /\ ask[a].pc = "probe" /\ ask[a].misses = {}
  /\ Flush(ask[a].rows)
  /\ ask' = [ask EXCEPT ![a].pc = "answer"]
  /\ UNCHANGED <<job, asks>>

MediaAnswer(a) ==
  /\ ask[a].pc = "answer"
  /\ ask' = [ask EXCEPT ![a] = Off]
  /\ UNCHANGED <<job, media, asks, mishaps, spoilt>>

JobProbe(a) ==
  /\ job[a] # Off /\ DOMAIN job[a].misses # {} /\ Cardinality(DOMAIN job[a].rows) < Batch
  /\ LET d == job[a]
         p == First(DOMAIN d.misses)
     IN job' = [job EXCEPT ![a].rows = Also(@, p, Probed(p, d.misses[p])),
                           ![a].misses = [q \in DOMAIN @ \ {p} |-> @[q]]]
  /\ UNCHANGED <<ask, media, asks, mishaps, spoilt>>

JobFlush(a) ==
  /\ job[a] # Off /\ DOMAIN job[a].misses # {} /\ Cardinality(DOMAIN job[a].rows) = Batch
  /\ Flush(job[a].rows)
  /\ job' = [job EXCEPT ![a].rows = <<>>]
  /\ UNCHANGED <<ask, asks>>

JobEnd(a) ==
  /\ job[a] # Off /\ DOMAIN job[a].misses = {}
  /\ Flush(job[a].rows)
  /\ job' = [job EXCEPT ![a] = Off]
  /\ UNCHANGED <<ask, asks>>

\* What was read is written, or is not, also by a job that is cancelled.
JobCancel(a) ==
  /\ job[a] # Off /\ DOMAIN job[a].misses # {}
  /\ mishaps < MaxMishaps /\ mishaps' = mishaps + 1
  /\ Put(job[a].rows) \/ UNCHANGED <<media, spoilt>>
  /\ job' = [job EXCEPT ![a] = Off]
  /\ UNCHANGED <<ask, asks>>

\* The page asks for the same again once the job has ended.
MediaAgain(a) ==
  /\ ask[a].pc = "job" /\ job[a] = Off
  /\ ask' = [ask EXCEPT ![a].pc = "walk", ![a].since = changed]
  /\ UNCHANGED <<job, media, asks, mishaps, spoilt>>

\* mediaForget of what was removed or renamed, at any time later, and
\* PruneMediaMeta after a scan for the index.
Forget ==
  /\ mishaps < MaxMishaps /\ mishaps' = mishaps + 1
  /\ \E f \in Paths :
       /\ media[f] # None
       /\ media' = [p \in Paths |-> IF p = f \/ Below(f, p) THEN None ELSE media[p]]
  /\ UNCHANGED <<ask, job, asks, spoilt>>

\* The server dies: the table stays.
MediaCrash ==
  /\ ask' = [a \in Askers |-> Off]
  /\ job' = [a \in Askers |-> Off]
  /\ UNCHANGED <<media, asks, mishaps, spoilt>>

-----------------------------------------------------------------------------

MediaInit ==
  /\ ask = [a \in Askers |-> Off]
  /\ job = [a \in Askers |-> Off]
  /\ media = [p \in Paths |-> None]
  /\ asks = 0 /\ mishaps = 0 /\ spoilt = 0

MediaStep(a) ==
  \/ MediaVisit(a) \/ MediaLook(a) \/ MediaProbe(a) \/ MediaPut(a)
  \/ MediaAnswer(a) \/ MediaAgain(a)
JobStep(a) == JobProbe(a) \/ JobFlush(a) \/ JobEnd(a) \/ JobCancel(a)

MediaNext ==
  \/ \E a \in Askers :
       \/ MediaOpen(a) \/ MediaStep(a) \/ JobStep(a)
       \/ MediaLeave(a) \/ MediaTimeout(a)
  \/ Forget

-----------------------------------------------------------------------------
(* Properties.                                                             *)

MediaTypeOK ==
  /\ \A a \in Askers : ask[a] # Off => ask[a].misses \subseteq DOMAIN ask[a].cand
  /\ \A a \in Askers : ask[a] # Off => ask[a].scanned <= MaxScan
  /\ \A p \in Paths : media[p] # None => media[p].size \in Sizes

\* What an analysis says of a file is what the file listed by it holds, unless
\* another one took its place before the header was read; and one that is
\* neither partial nor out of time says something of every file, when the folder
\* stayed what it was
\* ("o par tamanho + mtime é a validade da linha", store/media.go:30).
AnalysisTrue ==
  MediaTypeOK /\ \A a \in Askers : ask[a].pc = "answer" =>
    LET d == ask[a] IN
    /\ \A p \in DOMAIN d.got : d.got[p].what = Header(d.cand[p]) \/ d.got[p].mixed
    /\ ~d.partial /\ ~d.cut /\ d.since = changed =>
         \A p \in Paths : IsFile(p) /\ (\E i \in DOMAIN d.sel : d.sel[i] = p \/ Below(d.sel[i], p))
           => p \in DOMAIN d.got

\* One job leaves so much in the table that the same question is answered at
\* once, unless something changed meanwhile, or an analysis that began before the
\* change wrote what it had read ("a mesma análise pedida depois que o job termina
\* volta na hora", handlers_media.go:27).
JobSuffices ==
  \A a \in Askers : ask[a] # Off /\ ask[a].rounds > 1 => ask[a].born # Happened

=============================================================================
