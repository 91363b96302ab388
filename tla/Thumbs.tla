------------------------------- MODULE Thumbs -------------------------------
(* Thumbnails of the pictures of a folder: a cache of files named by what  *)
(* the picture was when the request looked at it, made by one request at a *)
(* time, within the slots of the user.                                     *)
EXTENDS ReadTree

CONSTANTS
  Viewers,    \* requests
  Limit,      \* slots of the user
  MaxViews,   \* how many thumbnails are asked for
  MaxFaults   \* how often the cache is pruned or the server crashes

ASSUME ThumbsAssumption ==
  Limit \in Nat \ {0} /\ MaxViews \in Nat /\ MaxFaults \in Nat /\ IsFiniteSet(Viewers)

VARIABLES
  view,       \* the requests
  slots,      \* KeyedSemaphore: slots taken
  making,     \* keys whose thumbnail is being made
  cache,      \* files of the cache: key and picture
  temp,       \* temporary files of the cache
  views,      \* thumbnails asked for so far
  faults,     \* prunes and crashes so far
  crossed     \* keys of thumbnails during whose request the folder changed

thumbVars == <<view, slots, making, cache, temp, views, faults, crossed>>

Idle == [pc |-> "idle"]
\* A file that is not written to its end.
Cut == None

\* A key is the inode and the version; a file of the cache has one key.
Picture(key, what) == [key |-> key, what |-> what]
With(files, key, what) == {f \in files : f.key # key} \cup {Picture(key, what)}
Without(files, key) == {f \in files : f.key # key}
Has(files, key) == \E f \in files : f.key = key
WhatIs(files, key) == (CHOOSE f \in files : f.key = key).what

Goto(v, pc) == view' = [view EXCEPT ![v].pc = pc]

-----------------------------------------------------------------------------
(* KeyedSemaphore (auth/ratelimit.go).                                     *)

\* handleThumb looks at the picture and asks for a slot.
ViewStart(v) ==
  /\ view[v] = Idle /\ views < MaxViews
  /\ \E p \in Paths :
       /\ IsFile(p)
       /\ view' = [view EXCEPT ![v] =
            [pc |-> "wait", path |-> p, ver |-> tree[p].ver, key |-> None, what |-> None,
             since |-> changed]]
  /\ views' = views + 1
  /\ UNCHANGED <<slots, making, cache, temp, faults, crossed>>

\* Mutant: the channel to wait on is read after the mutex is released.
AcquireLate(v) ==
  /\ \/ /\ view[v].pc = "wait"
        /\ IF slots < Limit THEN slots' = slots + 1 /\ Goto(v, "key")
           ELSE UNCHANGED slots /\ Goto(v, "late")
     \/ view[v].pc = "late" /\ UNCHANGED slots /\ Goto(v, "sleep")
  /\ UNCHANGED <<making, cache, temp, views, faults, crossed>>
Acquire(v) ==
  /\ view[v].pc = "wait"
  /\ IF slots < Limit THEN slots' = slots + 1 /\ Goto(v, "key")
     ELSE UNCHANGED slots /\ Goto(v, "sleep")
  /\ UNCHANGED <<making, cache, temp, views, faults, crossed>>

\* The wait is over, or the browser is gone.
GiveUp(v) ==
  /\ view[v].pc = "sleep"
  /\ view' = [view EXCEPT ![v] = Idle]
  /\ UNCHANGED <<slots, making, cache, temp, views, faults, crossed>>

\* Whoever waits on the channel is woken, and looks at the slots again.
Release(v) ==
  /\ view[v].pc = "leave"
  /\ slots' = slots - 1
  /\ view' = [w \in Viewers |->
       IF w = v THEN Idle
       ELSE IF view[w].pc = "sleep" THEN [view[w] EXCEPT !.pc = "wait"]
       ELSE view[w]]
  /\ UNCHANGED <<making, cache, temp, views, faults, crossed>>

-----------------------------------------------------------------------------
(* Get: one request makes a thumbnail, the others wait for it.             *)

\* Identity, and a look into the cache.
Look(v) ==
  /\ view[v].pc = "key"
  /\ LET p == view[v].path IN
     IF At(p) = None THEN Goto(v, "leave")
     ELSE LET key == <<IF IsFile(p) THEN tree[p].id ELSE Dir, view[v].ver>> IN
          view' = [view EXCEPT ![v].key = key,
                     ![v].pc = IF Has(cache, key) THEN "show" ELSE "join"]
  /\ UNCHANGED <<slots, making, cache, temp, views, faults, crossed>>

\* Mutant: nobody waits for the one who is making it.
JoinAlways(v) ==
  /\ view[v].pc = "join"
  /\ making' = making \cup {view[v].key} /\ Goto(v, "open")
  /\ UNCHANGED <<slots, cache, temp, views, faults, crossed>>
Join(v) ==
  /\ view[v].pc = "join"
  /\ IF view[v].key \in making THEN UNCHANGED making /\ Goto(v, "await")
     ELSE making' = making \cup {view[v].key} /\ Goto(v, "open")
  /\ UNCHANGED <<slots, cache, temp, views, faults, crossed>>

\* The browser that waits for another one's thumbnail is gone.
Leave(v) ==
  /\ view[v].pc = "await"
  /\ Goto(v, "leave")
  /\ UNCHANGED <<slots, making, cache, temp, views, faults, crossed>>

\* The one who made it is ready: is it there?
Waited(v) ==
  /\ view[v].pc = "waited"
  /\ Goto(v, IF Has(cache, view[v].key) THEN "show" ELSE "leave")
  /\ UNCHANGED <<slots, making, cache, temp, views, faults, crossed>>

\* generate: the picture that is there now is decoded, or cannot be.
Load(v) ==
  /\ view[v].pc = "open"
  /\ LET p == view[v].path IN
     \/ IsFile(p) /\ view' = [view EXCEPT ![v].what = tree[p].ver, ![v].pc = "write"]
     \/ Goto(v, "failed")
  /\ UNCHANGED <<slots, making, cache, temp, views, faults, crossed>>

\* The temporary file: it is short while it is written, and stays so when the
\* disk is full.
Temp(v) ==
  /\ view[v].pc = "write"
  /\ temp' = With(temp, view[v].key, Cut)
  /\ Goto(v, "written")
  /\ UNCHANGED <<slots, making, cache, views, faults, crossed>>
Written(v) ==
  /\ view[v].pc = "written"
  /\ \/ /\ temp' = IF Has(temp, view[v].key) THEN With(temp, view[v].key, view[v].what) ELSE temp
        /\ Goto(v, "rename")
     \/ UNCHANGED temp /\ Goto(v, "failed")
  /\ UNCHANGED <<slots, making, cache, views, faults, crossed>>

\* The rename, or it fails, as it must when the temporary file was pruned: then
\* nothing of that file is left.
Publish(v) ==
  /\ view[v].pc = "rename"
  /\ LET d == view[v] IN
     /\ temp' = Without(temp, d.key)
     /\ \/ /\ Has(temp, d.key)
           /\ cache' = With(cache, d.key, WhatIs(temp, d.key))
           /\ crossed' = IF changed = d.since THEN crossed ELSE crossed \cup {d.key}
           /\ Goto(v, "made")
        \/ UNCHANGED <<cache, crossed>> /\ Goto(v, "failed")
  /\ UNCHANGED <<slots, making, views, faults>>

\* The key is given up and the channel closed, whatever happened.
Made(v) ==
  /\ view[v].pc \in {"made", "failed"}
  /\ making' = making \ {view[v].key}
  /\ view' = [w \in Viewers |->
       IF w = v THEN [view[v] EXCEPT !.pc = IF @ = "made" THEN "show" ELSE "leave"]
       ELSE IF view[w].pc = "await"
       THEN IF view[w].key = view[v].key THEN [view[w] EXCEPT !.pc = "waited"] ELSE view[w]
       ELSE view[w]]
  /\ UNCHANGED <<slots, cache, temp, views, faults, crossed>>

\* The file is opened and sent, unless it was pruned meanwhile.
Show(v) ==
  /\ view[v].pc = "show"
  /\ Goto(v, "leave")
  /\ UNCHANGED <<slots, making, cache, temp, views, faults, crossed>>

-----------------------------------------------------------------------------

\* Prune removes files of the cache, temporary ones too.
Prune ==
  /\ faults < MaxFaults
  /\ faults' = faults + 1
  /\ \E gone \in SUBSET {f.key : f \in cache \cup temp} :
       /\ cache' = {f \in cache : f.key \notin gone}
       /\ \E lost \in SUBSET gone : temp' = {f \in temp : f.key \notin lost}
  /\ UNCHANGED <<view, slots, making, views, crossed>>

Crash ==
  /\ faults < MaxFaults
  /\ faults' = faults + 1
  /\ view' = [v \in Viewers |-> Idle]
  /\ slots' = 0 /\ making' = {}
  /\ UNCHANGED <<cache, temp, views, crossed>>

ThumbInit ==
  /\ view = [v \in Viewers |-> Idle]
  /\ slots = 0 /\ making = {}
  /\ cache = {} /\ temp = {}
  /\ views = 0 /\ faults = 0 /\ crossed = {}

ViewStep(v) ==
  \/ Acquire(v) \/ Release(v) \/ Look(v) \/ Join(v) \/ Waited(v) \/ Load(v)
  \/ Temp(v) \/ Written(v) \/ Publish(v) \/ Made(v) \/ Show(v)

ThumbNext ==
  \/ \E v \in Viewers : ViewStart(v) \/ ViewStep(v) \/ GiveUp(v) \/ Leave(v)
  \/ Prune

-----------------------------------------------------------------------------
(* Properties.                                                             *)

\* The slots are those the requests hold, and a key is made by those who say so.
ThumbTypeOK ==
  /\ slots \in 0..Limit
  /\ slots = Cardinality({v \in Viewers : view[v].pc \notin {"idle", "wait", "sleep"}})
  /\ making = {view[v].key : v \in {w \in Viewers :
       view[w].pc \in {"open", "write", "written", "rename", "made", "failed"}}}

\* A thumbnail that can be looked up is whole, whatever was cut short ("uma
\* geração interrompida não deixa um JPEG truncado no cache",
\* thumbs/thumbs.go:185), and shows the picture its key names, unless the
\* folder changed between the look at it and its decoding (generate).
ThumbsTrue ==
  ThumbTypeOK /\ \A f \in cache : f.what # Cut /\ (f.what = f.key[2] \/ f.key \in crossed)

\* A request for a thumbnail ends without its timers: whoever waits for a slot
\* or for a thumbnail that another request makes is woken (KeyedSemaphore and
\* Get).
ViewsEnd == \A v \in Viewers : view[v] # Idle ~> view[v] = Idle

=============================================================================
