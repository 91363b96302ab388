---------------------------- MODULE UploadClient ----------------------------
(***************************************************************************)
(* The upload queue of the browser tab (web/src/upload/manager.ts) against *)
(* a server that answers late or not at all and whose sessions may vanish. *)
(* JavaScript runs one continuation at a time: an action is what the tab   *)
(* does between two awaits, and the pump that ends it runs before any      *)
(* other event (busy).                                                     *)
(*                                                                         *)
(* The server is reduced to what the queue can see of it: the names that   *)
(* are taken, the open sessions with their marked chunks, the answers.     *)
(***************************************************************************)
EXTENDS Integers, Sequences, FiniteSets, FiniteSetsExt

CONSTANTS
  Item,         \* files the user may drop, numbered in the order of the queue
  Chunked,      \* those above chunkSize; the others go in one request
  Chunks,       \* the chunks of a chunked file
  Slot,         \* cfg.maxParallel request slots
  SlotsPerFile, \* CHUNK_SLOTS_PER_FILE
  MaxAttempts,  \* MAX_ATTEMPTS
  Sid,          \* session ids of the server
  Obj,          \* session objects in the memory of the tab
  None

ASSUME ItemsAreOrdered == Item \subseteq Nat /\ Chunked \subseteq Item
ASSUME ChunksAreNumbered == Chunks \subseteq Nat /\ Chunks # {} /\ Slot \subseteq Nat
ASSUME SlotsAreFinite == IsFiniteSet(Slot)
ASSUME LimitsArePositive == SlotsPerFile \in Nat \ {0} /\ MaxAttempts \in Nat \ {0}
ASSUME NoneIsNothing == None \notin Sid \cup Obj \cup Item \cup Chunks \cup Slot

VARIABLES
  item,     \* the queue: state, attempts, overwrite, session, backoff
  obj,      \* session objects: the id and the set received
  slot,     \* what the work in each slot awaits, and the answer on its way
  asks,     \* conflictQueue: the dialogs in order
  preset,   \* conflictDefault, the answer given to all
  paused,
  pending,  \* this.pending: sessions left by an earlier visit
  busy,     \* the pump still has to run in this turn
  sess,     \* server: its sessions
  taken,    \* items whose name exists on the server
  stored,   \* items whose bytes the server published since they were added
  aborts    \* uploadAbort calls on their way; nobody awaits them

tab == <<item, obj, slot, asks, preset, paused, pending, busy>>
server == <<sess, taken, stored, aborts>>
vars == <<tab, server>>

-----------------------------------------------------------------------------
States == {"absent", "queued", "uploading", "done", "failed", "cancelled",
           "skipped", "conflict"}
Answers == {"none", "ok", "busy", "missing", "exists", "gone", "retry", "fatal", "space"}
Resolutions == {"overwrite", "rename", "skip"}

ItemRec == [state : States, attempts : 0 .. MaxAttempts, over : BOOLEAN,
            session : Obj \cup {None}, backoff : BOOLEAN]
ObjRec == [sid : Sid \cup {None}, received : SUBSET Chunks]
SlotRec == [at : {"free", "single", "create", "list", "chunk", "complete", "dialog"},
            item : Item \cup {None}, chunk : Chunks \cup {None}, obj : Obj \cup {None},
            sid : Sid \cup {None}, answer : Answers, missing : SUBSET Chunks]
SessRec == [item : Item \cup {None}, over : BOOLEAN, got : SUBSET Chunks, part : BOOLEAN]
Pending == [sid : Sid, item : Item, over : BOOLEAN, got : SUBSET Chunks]
Ask == [item : Item, after : BOOLEAN, slot : Slot \cup {None}]

TypeOK ==
  /\ item \in [Item -> ItemRec]
  /\ obj \in [Obj -> ObjRec]
  /\ slot \in [Slot -> SlotRec]
  /\ asks \in Seq(Ask)
  /\ preset \in Resolutions \cup {None}
  /\ paused \in BOOLEAN /\ busy \in BOOLEAN
  /\ pending \subseteq Pending
  /\ sess \in [Sid -> SessRec]
  /\ taken \subseteq Item
  /\ stored \subseteq Item
  /\ aborts \subseteq Sid

NoItem == [state |-> "absent", attempts |-> 0, over |-> FALSE, session |-> None,
           backoff |-> FALSE]
NoObj == [sid |-> None, received |-> {}]
NoSess == [item |-> None, over |-> FALSE, got |-> {}, part |-> FALSE]
Free == [at |-> "free", item |-> None, chunk |-> None, obj |-> None, sid |-> None,
         answer |-> "none", missing |-> {}]

Init ==
  /\ item = [i \in Item |-> NoItem]
  /\ obj = [o \in Obj |-> NoObj]
  /\ slot = [w \in Slot |-> Free]
  /\ asks = <<>> /\ preset = None /\ paused = FALSE /\ pending = {} /\ busy = FALSE
  /\ sess = [s \in Sid |-> NoSess]
  /\ taken \in SUBSET Item
  /\ stored = {} /\ aborts = {}

-----------------------------------------------------------------------------
(* Helpers of the queue.                                                   *)

Open(s) == sess[s].item # None
Working(i) == {w \in Slot : slot[w].item = i}
InState(S) == {i \in Item : item[i].state \in S}

\* The sendChunk calls of an item that have not returned, the one that went
\* on to complete included: it.inflight, and with their chunks inflightChunks.
Sending(i) == {w \in Working(i) : slot[w].chunk # None}
InFlight(i) == {slot[w].chunk : w \in Sending(i)}

\* The objects the tab still refers to; the others are garbage.
Kept(objs) ==
  [o \in Obj |->
     IF (\E i \in Item : item'[i].session = o) \/ (\E w \in Slot : slot'[w].obj = o)
     THEN objs[o] ELSE NoObj]

UnusedObj == {o \in Obj : obj[o] = NoObj}
UnusedSid ==
  {s \in Sid : /\ ~Open(s) /\ s \notin aborts
               /\ \A o \in Obj : obj[o].sid # s
               /\ \A p \in pending : p.sid # s
               /\ \A w \in Slot : slot[w].sid # s}

\* Mutant: a session that is gone at complete counts as delivered.
FailedAsDone(r, e) ==
  IF e = "retry" /\ r.attempts < MaxAttempts
  THEN [r EXCEPT !.state = "queued", !.backoff = TRUE]
  ELSE [r EXCEPT !.state = IF e = "gone" THEN "done" ELSE "failed"]

\* The end of handleFailure: another try while attempts are left.
Failed(r, e) ==
  IF e = "retry" /\ r.attempts < MaxAttempts
  THEN [r EXCEPT !.state = "queued", !.backoff = TRUE]
  ELSE [r EXCEPT !.state = "failed"]

\* handleConflict: the item waits for its dialog.
Conflict(i, after, w) ==
  /\ item' = [item EXCEPT ![i].state = "conflict"]
  /\ asks' = Append(asks, [item |-> i, after |-> after, slot |-> w])
  /\ UNCHANGED paused

HandleFailure(i, e) ==
  \/ item[i].state = "cancelled" /\ UNCHANGED <<item, asks, paused>>
  \/ item[i].state # "cancelled" /\ e = "exists" /\ Conflict(i, FALSE, None)
  \/ /\ item[i].state # "cancelled" /\ e # "exists"
     /\ item' = [item EXCEPT ![i] = Failed(@, e)]
     /\ paused' = (paused \/ e = "space")
     /\ UNCHANGED asks

Finish(i) ==
  /\ item' = [item EXCEPT ![i].state = "done", ![i].session = None]
  /\ UNCHANGED <<asks, paused>>

\* The work in slot w returns: its finally frees the slot and calls pump.
Return(w) == slot' = [slot EXCEPT ![w] = Free] /\ busy' = TRUE

\* abortItem on the items I: their transfers are cut and return, calls that
\* carry no body go on, the session is aborted without waiting. W returns too.
AbortItems(I, W) ==
  LET cut == W \cup {w \in Slot : slot[w].item \in I /\ slot[w].at \in {"single", "chunk"}}
      held == {i \in I : item[i].session # None}
  IN /\ item' = [i \in Item |-> IF i \in I
                   THEN [item[i] EXCEPT !.state = "cancelled", !.session = None] ELSE item[i]]
     /\ slot' = [w \in Slot |-> IF w \in cut THEN Free ELSE slot[w]]
     /\ aborts' = aborts \cup {obj[item[i].session].sid : i \in held}
     /\ busy' = (cut # {})
     /\ obj' = Kept(obj)

-----------------------------------------------------------------------------
(* pump and nextWork.                                                      *)

\* Mutant: a chunk in flight is sent again.
NextChunkAgain(i) == Chunks \ obj[item[i].session].received

NextChunk(i) == Chunks \ (obj[item[i].session].received \cup InFlight(i))

ReadyForChunk(i) ==
  /\ item[i].state = "uploading" /\ i \in Chunked /\ item[i].session # None
  /\ Cardinality(Sending(i)) < SlotsPerFile
  /\ NextChunk(i) # {}

FreeSlots == {w \in Slot : slot[w].at = "free"}
CanStart == ~paused /\ FreeSlots # {}
HasWork == InState({"queued"}) # {} \/ \E i \in Item : ReadyForChunk(i)
HasDueWork ==
  \/ \E i \in InState({"queued"}) : ~item[i].backoff
  \/ \E i \in Item : ReadyForChunk(i)

\* 1. the next chunk of an item in progress goes first.
PumpChunk ==
  /\ busy /\ CanStart
  /\ \E i \in Item :
       /\ ReadyForChunk(i) /\ \A j \in Item : ReadyForChunk(j) => i <= j
       /\ slot' = [slot EXCEPT ![Min(FreeSlots)] =
            [Free EXCEPT !.at = "chunk", !.item = i, !.chunk = Min(NextChunk(i)),
                         !.obj = item[i].session, !.sid = obj[item[i].session].sid]]
  /\ UNCHANGED <<item, obj, asks, preset, paused, pending, busy, server>>

\* How a queued item starts: startChunked of one that has a session returns
\* at once and leaves the chunks to the pump.
FirstAwait(i) == IF i \notin Chunked THEN "single" ELSE "create"

\* 2. then the queue in order. Only attempts below the maximum are told apart.
PumpQueued ==
  /\ busy /\ CanStart /\ InState({"queued"}) # {}
  /\ \A i \in Item : ~ReadyForChunk(i)
  /\ LET i == Min(InState({"queued"})) IN
       /\ item' = [item EXCEPT ![i].state = "uploading", ![i].backoff = FALSE,
                     ![i].attempts = IF @ < MaxAttempts THEN @ + 1 ELSE @]
       /\ IF item[i].session # None THEN UNCHANGED slot
          ELSE slot' = [slot EXCEPT ![Min(FreeSlots)] = [Free EXCEPT !.at = FirstAwait(i), !.item = i]]
  /\ UNCHANGED <<obj, asks, preset, paused, pending, busy, server>>

PumpEnd ==
  /\ busy /\ ~(CanStart /\ HasWork)
  /\ busy' = FALSE
  /\ UNCHANGED <<item, obj, slot, asks, preset, paused, pending, server>>

-----------------------------------------------------------------------------
(* The continuations of sendSingle, startChunked, sendChunk, completeChunked. *)

Answered(w, at) == ~busy /\ slot[w].at = at /\ slot[w].answer # "none"

SingleAnswered(w) ==
  /\ Answered(w, "single")
  /\ IF slot[w].answer = "ok" THEN Finish(slot[w].item)
                              ELSE HandleFailure(slot[w].item, slot[w].answer)
  /\ Return(w)
  /\ UNCHANGED <<obj, preset, pending, server>>

\* it.session = {...}, whatever became of the item meanwhile.
Adopt(i, s, got, over) ==
  LET o == CHOOSE o \in UnusedObj : TRUE IN
  /\ UnusedObj # {}
  /\ item' = [item EXCEPT ![i].session = o, ![i].over = over]
  /\ obj' = Kept([obj EXCEPT ![o] = [sid |-> s, received |-> got]])

CreateAnswered(w) ==
  LET i == slot[w].item IN
  /\ Answered(w, "create")
  /\ \/ /\ slot[w].answer = "ok"
        /\ Return(w)
        /\ Adopt(i, slot[w].sid, {}, item[i].over)
        /\ UNCHANGED <<asks, paused>>
     \/ /\ slot[w].answer = "busy"
        /\ slot' = [slot EXCEPT ![w] = [Free EXCEPT !.at = "list", !.item = i]]
        /\ UNCHANGED <<item, obj, asks, paused, busy>>
     \/ /\ slot[w].answer \notin {"ok", "busy"}
        /\ HandleFailure(i, slot[w].answer)
        /\ Return(w)
        /\ UNCHANGED obj
  /\ UNCHANGED <<preset, pending, server>>

\* GET /api/uploads
Listing ==
  {[sid |-> s, item |-> sess[s].item, over |-> sess[s].over, got |-> sess[s].got] :
     s \in {t \in Sid : Open(t)}}

\* matchPending; declarations of two items never match.
Match(i, list) == {p \in list : p.item = i}

\* loadPending keeps the old list when it fails.
ListAnswered(w) ==
  LET i == slot[w].item IN
  /\ ~busy /\ slot[w].at = "list"
  /\ Return(w)
  /\ \E list \in {Listing, pending} :
       \/ \E p \in Match(i, list) :
            pending' = list \ {p} /\ Adopt(i, p.sid, p.got, p.over)
       \/ /\ Match(i, list) = {}
          /\ pending' = list
          /\ item' = [item EXCEPT ![i].state = "failed"]
          /\ UNCHANGED obj
  /\ UNCHANGED <<asks, preset, paused, server>>

\* The last chunk to return goes on to complete, with the session the item
\* has by then; without one the call throws and the item fails.
ToComplete(w) ==
  LET i == slot[w].item
      o == item[i].session
  IN IF o = None THEN HandleFailure(i, "fatal") /\ Return(w)
     ELSE /\ slot' = [slot EXCEPT ![w].at = "complete", ![w].answer = "none",
                                  ![w].obj = o, ![w].sid = obj[o].sid]
          /\ UNCHANGED <<item, asks, paused, busy>>

ChunkAnswered(w) ==
  LET i == slot[w].item
      got == [obj EXCEPT ![slot[w].obj].received = @ \cup {slot[w].chunk}]
      last == got[slot[w].obj].received = Chunks /\ Cardinality(Sending(i)) = 1
  IN
  /\ Answered(w, "chunk")
  /\ \/ /\ slot[w].answer = "ok"
        /\ IF last THEN ToComplete(w) ELSE Return(w) /\ UNCHANGED <<item, asks, paused>>
        /\ obj' = Kept(got)
     \/ /\ slot[w].answer = "gone"
        /\ item' = [item EXCEPT ![i].session = None, ![i].state = "queued"]
        /\ Return(w)
        /\ obj' = Kept(obj)
        /\ UNCHANGED <<asks, paused>>
     \/ /\ slot[w].answer \notin {"ok", "gone"}
        /\ IF item[i].state = "uploading" THEN HandleFailure(i, slot[w].answer)
                                          ELSE UNCHANGED <<item, asks, paused>>
        /\ Return(w)
        /\ obj' = Kept(obj)
  /\ UNCHANGED <<preset, pending, server>>

CompleteAnswered(w) ==
  LET i == slot[w].item IN
  /\ Answered(w, "complete")
  /\ \/ /\ slot[w].answer = "ok"
        /\ Finish(i) /\ Return(w)
        /\ obj' = Kept(obj)
     \/ /\ slot[w].answer = "missing"
        /\ Return(w) /\ UNCHANGED <<item, asks, paused>>
        /\ obj' = Kept([obj EXCEPT ![slot[w].obj].received = @ \ slot[w].missing])
     \/ /\ slot[w].answer = "exists"
        /\ Conflict(i, TRUE, w)
        /\ slot' = [slot EXCEPT ![w].at = "dialog"]
        /\ UNCHANGED <<obj, busy>>
     \/ /\ slot[w].answer \notin {"ok", "missing", "exists"}
        /\ HandleFailure(i, slot[w].answer) /\ Return(w)
        /\ obj' = Kept(obj)
  /\ UNCHANGED <<preset, pending, server>>

-----------------------------------------------------------------------------
(* handleConflict: the head of the queue of dialogs.                       *)

\* Back to the queue, with a new session when the chunks were sent already.
Requeued(r, drop) ==
  [r EXCEPT !.state = "queued", !.attempts = 0, !.backoff = FALSE,
            !.session = IF drop THEN None ELSE @]

\* The answered item gives up its session.
Drops(a) == a.after /\ item[a.item].session # None
DropSession(a) ==
  aborts' = IF Drops(a) THEN aborts \cup {obj[item[a.item].session].sid} ELSE aborts

FreeDialog(a) == slot' = [w \in Slot |-> IF w = a.slot THEN Free ELSE slot[w]]

\* The item was cancelled while it waited.
StaleAsk ==
  /\ ~busy /\ asks # <<>> /\ item[Head(asks).item].state # "conflict"
  /\ FreeDialog(Head(asks))
  /\ asks' = Tail(asks)
  /\ busy' = (Head(asks).slot # None)
  /\ UNCHANGED <<item, preset, paused, pending, server>>
  /\ obj' = Kept(obj)

\* uniqueName avoids the names of the queue only. What the server holds for the
\* old name is no longer the item's.
NewName(i) ==
  /\ taken' \in {taken \ {i}, taken \cup {i}}
  /\ sess' = [s \in Sid |-> IF sess[s].item = i THEN NoSess ELSE sess[s]]

Answer ==
  LET a == Head(asks)
      i == a.item
  IN
  /\ ~busy /\ asks # <<>> /\ item[i].state = "conflict"
  /\ asks' = Tail(asks)
  /\ FreeDialog(a)
  /\ DropSession(a)
  /\ \E choice \in IF preset = None THEN Resolutions ELSE {preset} :
       /\ preset' \in {preset, choice}
       /\ \/ /\ choice = "overwrite"
             /\ item' = [item EXCEPT ![i] = [Requeued(@, Drops(a)) EXCEPT !.over = TRUE]]
             /\ busy' = TRUE
             /\ UNCHANGED <<sess, taken>>
          \/ /\ choice = "rename"
             /\ item' = [item EXCEPT ![i] = Requeued(@, Drops(a))]
             /\ busy' = TRUE
             /\ NewName(i)
          \/ /\ choice = "skip"
             /\ item' = [item EXCEPT ![i].state = "skipped", ![i].session = None]
             /\ busy' = (a.slot # None)
             /\ UNCHANGED <<sess, taken>>
  /\ obj' = Kept(obj)
  /\ UNCHANGED <<paused, pending, stored>>

Cancellable == {"queued", "uploading", "conflict"}

\* "Cancel" in the dialog cancels everything.
AnswerCancel ==
  LET a == Head(asks) IN
  /\ ~busy /\ asks # <<>> /\ item[a.item].state = "conflict" /\ preset = None
  /\ asks' = Tail(asks)
  /\ AbortItems(InState(Cancellable), {a.slot} \cap Slot)
  /\ UNCHANGED <<preset, paused, pending, sess, taken, stored>>

-----------------------------------------------------------------------------
(* The user. The panel offers retry and clear only when nothing is queued, *)
(* uploading or in a slot.                                                 *)

Quiet == InState({"queued", "uploading"}) = {} /\ \A w \in Slot : slot[w].at = "free"

\* A dropped file adopts a session of an earlier visit that matches it.
Add(i) ==
  /\ ~busy /\ item[i].state = "absent" /\ Working(i) = {}
  /\ \A k \in DOMAIN asks : asks[k].item # i
  /\ slot' = slot
  /\ \/ \E p \in Match(i, pending) :
          LET o == CHOOSE o \in UnusedObj : TRUE IN
          /\ i \in Chunked /\ UnusedObj # {}
          /\ pending' = pending \ {p}
          /\ item' = [item EXCEPT ![i] = [NoItem EXCEPT !.state = "queued", !.session = o,
                                                        !.over = p.over]]
          /\ obj' = [obj EXCEPT ![o] = [sid |-> p.sid, received |-> p.got]]
     \/ /\ i \notin Chunked \/ Match(i, pending) = {}
        /\ item' = [item EXCEPT ![i] = [NoItem EXCEPT !.state = "queued"]]
        /\ UNCHANGED <<obj, pending>>
  /\ stored' = stored \ {i}
  /\ preset' = None /\ busy' = TRUE
  /\ UNCHANGED <<asks, paused, sess, taken, aborts>>

Cancel(i) ==
  /\ ~busy /\ i \in InState(Cancellable)
  /\ AbortItems({i}, {})
  /\ UNCHANGED <<asks, preset, paused, pending, sess, taken, stored>>

CancelAll ==
  /\ ~busy /\ ~Quiet
  /\ AbortItems(InState(Cancellable), {})
  /\ preset' = None
  /\ UNCHANGED <<asks, paused, pending, sess, taken, stored>>

RetryFailed ==
  /\ ~busy /\ Quiet /\ InState({"failed"}) # {}
  /\ item' = [i \in Item |-> IF item[i].state \in {"failed", "cancelled"}
                THEN Requeued(item[i], TRUE) ELSE item[i]]
  /\ busy' = TRUE
  /\ slot' = slot /\ obj' = Kept(obj)
  /\ UNCHANGED <<asks, preset, paused, pending, server>>

ClearDone ==
  /\ ~busy /\ Quiet
  /\ InState({"done", "skipped", "cancelled"}) # {}
  /\ item' = [i \in Item |-> IF item[i].state \in {"done", "skipped", "cancelled"}
                             THEN NoItem ELSE item[i]]
  /\ slot' = slot /\ obj' = Kept(obj)
  /\ UNCHANGED <<asks, preset, paused, pending, busy, server>>

Pause ==
  /\ ~busy /\ ~Quiet /\ ~paused
  /\ paused' = TRUE
  /\ UNCHANGED <<item, obj, slot, asks, preset, pending, busy, server>>

\* Mutant: nobody pumps after a pause.
ResumeSilent ==
  /\ ~busy /\ ~Quiet /\ paused
  /\ paused' = FALSE
  /\ UNCHANGED <<item, obj, slot, asks, preset, pending, busy, server>>

Resume ==
  /\ ~busy /\ ~Quiet /\ paused
  /\ paused' = FALSE /\ busy' = TRUE
  /\ UNCHANGED <<item, obj, slot, asks, preset, pending, server>>

\* The timer that a retryable failure started.
BackoffOver(i) ==
  /\ ~busy /\ item[i].backoff
  /\ item' = [item EXCEPT ![i].backoff = FALSE]
  /\ busy' = TRUE
  /\ UNCHANGED <<obj, slot, asks, preset, paused, pending, server>>

\* Closing or reloading the tab forgets the queue.
Reload ==
  /\ item' = [i \in Item |-> NoItem]
  /\ obj' = [o \in Obj |-> NoObj]
  /\ slot' = [w \in Slot |-> Free]
  /\ asks' = <<>> /\ preset' = None /\ paused' = FALSE /\ pending' = {} /\ busy' = FALSE
  /\ UNCHANGED server

LoadPending ==
  /\ ~busy /\ InState(States \ {"absent"}) = {}
  /\ pending' = Listing
  /\ UNCHANGED <<item, obj, slot, asks, preset, paused, busy, server>>

\* The sessions are aborted one by one; the list is emptied after the last.
DiscardPending ==
  /\ ~busy /\ pending # {}
  /\ aborts' = aborts \cup {p.sid : p \in pending}
  /\ pending' \in {pending, {}}
  /\ UNCHANGED <<item, obj, slot, asks, preset, paused, busy, sess, taken, stored>>

-----------------------------------------------------------------------------
(* The server.                                                             *)

Reply(w, a) == slot' = [slot EXCEPT ![w].answer = a]

\* An operation that took effect answers, or its answer is lost on the way.
Done(w) == Reply(w, "ok") \/ Reply(w, "retry")

Publish(i) == taken' = taken \cup {i} /\ stored' = stored \cup {i}

Close(s) == sess' = [sess EXCEPT ![s] = NoSess]

NewSession(w) ==
  LET s == CHOOSE s \in UnusedSid : TRUE
      i == slot[w].item
  IN /\ UnusedSid # {}
     /\ sess' = [sess EXCEPT ![s] = [item |-> i, over |-> item[i].over,
                                     got |-> {}, part |-> TRUE]]
     /\ \/ slot' = [slot EXCEPT ![w].answer = "ok", ![w].sid = s]
        \/ Reply(w, "retry")

Refuse(w, a) == Reply(w, a) /\ UNCHANGED <<sess, taken, stored>>

\* The name is free for the writer.
Admits(i, over) == i \notin taken \/ over

ServeSingle(w) ==
  LET i == slot[w].item IN
  /\ slot[w].at = "single"
  /\ \/ ~Admits(i, item[i].over) /\ Refuse(w, "exists")
     \/ Admits(i, item[i].over) /\ Publish(i) /\ Done(w) /\ UNCHANGED sess

ServeCreate(w) ==
  LET i == slot[w].item
      rival == {s \in Sid : sess[s].item = i}
  IN
  /\ slot[w].at = "create"
  /\ \/ ~Admits(i, item[i].over) /\ Refuse(w, "exists")
     \/ Admits(i, item[i].over) /\ rival # {} /\ Refuse(w, "busy")
     \/ Admits(i, item[i].over) /\ rival = {} /\ NewSession(w) /\ UNCHANGED <<taken, stored>>

ServeChunk(w) ==
  LET s == slot[w].sid IN
  /\ slot[w].at = "chunk"
  /\ \/ ~(Open(s) /\ sess[s].part) /\ Refuse(w, "gone")
     \/ /\ Open(s) /\ sess[s].part
        /\ sess' = [sess EXCEPT ![s].got = @ \cup {slot[w].chunk}]
        /\ Done(w)
        /\ UNCHANGED <<taken, stored>>

ServeComplete(w) ==
  LET s == slot[w].sid
      i == sess[s].item
  IN
  /\ slot[w].at = "complete"
  /\ \/ ~Open(s) /\ Refuse(w, "gone")
     \/ /\ Open(s) /\ sess[s].got # Chunks
        /\ slot' = [slot EXCEPT ![w].answer = "missing", ![w].missing = Chunks \ sess[s].got]
        /\ UNCHANGED <<sess, taken, stored>>
     \/ /\ Open(s) /\ sess[s].got = Chunks
        /\ \/ ~Admits(i, sess[s].over) /\ Refuse(w, "exists")
           \/ Admits(i, sess[s].over) /\ ~sess[s].part /\ Refuse(w, "gone")
           \/ Admits(i, sess[s].over) /\ sess[s].part /\ Publish(i) /\ Close(s) /\ Done(w)

\* A broken connection, a limit, an error inside the server, a full disk.
ServeFailure(w) ==
  /\ slot[w].at \in {"single", "create", "chunk", "complete"}
  /\ \E a \in {"retry", "fatal"} \cup (IF slot[w].at \in {"single", "create"} THEN {"space"} ELSE {}) :
       Refuse(w, a)

Serve(w) ==
  /\ slot[w].answer = "none"
  /\ ServeSingle(w) \/ ServeCreate(w) \/ ServeChunk(w) \/ ServeComplete(w) \/ ServeFailure(w)
  /\ UNCHANGED <<item, obj, asks, preset, paused, pending, busy, aborts>>

\* An abort arrives, or never does.
AbortArrives(s) ==
  /\ s \in aborts
  /\ aborts' = aborts \ {s}
  /\ Close(s) \/ UNCHANGED sess
  /\ UNCHANGED <<tab, taken, stored>>

\* The sweep or another tab ends the session, or a crash leaves the row
\* without its part or without its last marks.
Vanish(s) ==
  /\ Open(s)
  /\ \/ Close(s)
     \/ sess' = [sess EXCEPT ![s].part = FALSE]
     \/ \E got \in SUBSET sess[s].got : sess' = [sess EXCEPT ![s].got = got]
  /\ UNCHANGED <<tab, taken, stored, aborts>>

\* Somebody else's file takes the name.
Appear(i) ==
  /\ taken' = taken \cup {i}
  /\ UNCHANGED <<tab, sess, stored, aborts>>

-----------------------------------------------------------------------------
Pump == PumpChunk \/ PumpQueued \/ PumpEnd

Continue(w) ==
  \/ SingleAnswered(w) \/ CreateAnswered(w) \/ ListAnswered(w) \/ ChunkAnswered(w)
  \/ CompleteAnswered(w)

User ==
  \/ \E i \in Item : Add(i) \/ Cancel(i)
  \/ CancelAll \/ RetryFailed \/ ClearDone \/ Pause \/ Resume \/ Reload \/ LoadPending
  \/ DiscardPending

Next ==
  \/ Pump \/ StaleAsk \/ Answer \/ AnswerCancel \/ User
  \/ \E w \in Slot : Continue(w) \/ Serve(w)
  \/ \E i \in Item : BackoffOver(i) \/ Appear(i)
  \/ \E s \in Sid : AbortArrives(s) \/ Vanish(s)

Spec == Init /\ [][Next]_vars

-----------------------------------------------------------------------------
(* Properties.                                                             *)

\* No lost wake-up: between two events the queue never holds work for a free
\* slot, whichever of the many calls of pump made it so (manager.ts:237). A
\* retry whose back-off has not run out is not work yet.
NoLostWakeup == ~busy => ~(CanStart /\ HasDueWork)

\* A failed attempt is not repeated before its back-off has run out ("Backoff 1,
\* 2, 4, 8, 16 s", docs/05-uploads.md:120; handleFailure, manager.ts:463).
RetryWaits ==
  [][\A i \in Item :
       item[i].state = "queued" /\ item[i].backoff => item'[i].state # "uploading"]_vars

\* No two requests of the tab carry the same chunk of a file, and no two
\* complete the same file, across retries, restarts with another session and
\* adopted sessions (inflightChunks, manager.ts:286, and the count inflight,
\* manager.ts:399); the queue keeps its types.
NeverTwiceInFlight ==
  TypeOK /\ \A w, v \in Slot :
    w # v /\ slot[w].item = slot[v].item /\ slot[w].at = slot[v].at =>
      /\ slot[w].at = "chunk" => slot[w].chunk # slot[v].chunk
      /\ slot[w].at # "complete"

\* What the panel shows as done the server has published since it was dropped,
\* with lost answers, cancelled transfers and sessions that vanish.
DoneMeansStored == InState({"done"}) \subseteq stored

=============================================================================
