--------------------------- MODULE DropLinkProofs ---------------------------
(***************************************************************************)
(* Theorems about DropLink, for every number of visitors, requests, ids    *)
(* and names, every quota and every limit.                                 *)
(***************************************************************************)
EXTENDS DropLink, SumTheorems

-----------------------------------------------------------------------------
(* Types. The sums and counts of admission are naturals because only       *)
(* finitely many rows and receipts exist at any moment.                    *)

Finite == IsFiniteSet(open) /\ IsFiniteSet(Receipts)
Typed == TypeOK /\ Finite

Sizes == [s \in Sid |-> meta[s].size]

LEMMA DefaultsTyped ==
  /\ AnySid \in Sid /\ NoMeta \in Meta /\ NoRequest \in Request /\ NoReaper \in Reaper
<1>1. AnySid \in Sid BY SomebodySends DEF AnySid
<1>2. NoMeta \in Meta
  BY SomebodySends, NamesAreOrdered, SizesAreNatural DEF NoMeta, Meta
<1>3. 0 \in 0 .. Tries - 1 BY LimitsAreNatural
<1> QED BY <1>1, <1>2, <1>3 DEF NoMeta, Meta, NoRequest, Request, NoReaper, Reaper

\* A set of sizes adds up as MapThenSumSet does.
LEMMA BytesIsSum ==
  TypeOK => \A S \in SUBSET Sid : IsFiniteSet(S) => Bytes(S) = SumOver(Sizes, S)
<1> SUFFICES ASSUME TypeOK, NEW S \in SUBSET Sid, IsFiniteSet(S)
             PROVE  Bytes(S) = SumOver(Sizes, S)
  OBVIOUS
<1> DEFINE IsBytes(g) ==
      g = [s \in SUBSET S |-> IF s = {} THEN 0 ELSE meta[Chosen(s)].size + g[s \ {Chosen(s)}]]
<1>1. Bytes(S) = (CHOOSE g : IsBytes(g))[S]
  BY Zenon DEF Bytes, MapThenSumSet, MapThenFoldSet, Chosen
<1>2. ASSUME NEW s \in SUBSET S, s # {} PROVE Sizes[Chosen(s)] = meta[Chosen(s)].size
  BY <1>2, ChosenIn DEF Sizes
<1>3. \A g : IsBytes(g) <=> IsFold(g, Sizes, S) BY <1>2 DEF IsFold
<1>4. IsFold(CHOOSE g : IsBytes(g), Sizes, S) BY <1>3, FoldExists
<1> QED BY <1>1, <1>4, SumPart

LEMMA SizesNatural == ASSUME TypeOK PROVE \A s \in Sid : Sizes[s] \in Nat
  BY SizesAreNatural DEF TypeOK, Sizes, Meta

LEMMA BytesNatural ==
  ASSUME TypeOK, NEW S \in SUBSET Sid, IsFiniteSet(S)
  PROVE  Bytes(S) \in Nat
  BY BytesIsSum, SizesNatural, SumNat

\* The first name that is free exists.
LEMMA LeastName ==
  ASSUME NEW S \in SUBSET Name, S # {}
  PROVE  Min(S) \in S
  BY NamesAreOrdered, LeastNatural

LEMMA FreshIsSid == Fresh \subseteq Sid BY DEF Fresh

LEMMA ReplyTyped ==
  ASSUME TypeOK, NEW p \in Proc, Reply(p)
  PROVE  pc' \in [Proc -> Steps] /\ req' \in [Proc -> Request]
  BY DefaultsTyped DEF TypeOK, Reply, Goto, Steps

LEMMA AdmitTyped ==
  ASSUME Typed, NEW p \in Proc, Admit(p)
  PROVE  TypeOK'
<1> USE DEF table, folder
<1>0. TypeOK BY DEF Typed
<1>1. CASE Begin(p)
  <2>1. PICK who \in Sender, n \in Name, z \in Size, put \in BOOLEAN :
          req' = [req EXCEPT ![p] = [NoRequest EXCEPT !.put = put, !.who = who, !.want = n, !.size = z,
                                       !.sid = CHOOSE s \in Fresh : TRUE]]
    BY <1>1 DEF Begin
  <2>2. (CHOOSE s \in Fresh : TRUE) \in Sid BY <1>1, FreshIsSid DEF Begin
  <2>3. [NoRequest EXCEPT !.put = put, !.who = who, !.want = n, !.size = z,
                          !.sid = CHOOSE s \in Fresh : TRUE] \in Request
    BY <2>2, DefaultsTyped DEF Request
  <2>4. req' \in [Proc -> Request] BY <1>0, <2>1, <2>3 DEF TypeOK
  <2> QED BY <1>0, <1>1, <2>4 DEF Begin, TypeOK, Goto, Steps
<1>2. CASE AdmitLock(p)
  BY <1>0, <1>2 DEF AdmitLock, TypeOK, Goto, Steps
<1>3. CASE AdmitReceipts(p)
  <2>1. Bytes(Receipts) \in Nat /\ Cardinality(Receipts) \in Nat
    BY <1>0, BytesNatural, FS_CardinalityType DEF Typed, Finite, Receipts
  <2> DEFINE r == [req[p] EXCEPT !.bytes = Bytes(Receipts), !.count = Cardinality(Receipts)]
  <2>3. r \in Request BY <1>0, <2>1 DEF TypeOK, Request
  <2>4. req' = [req EXCEPT ![p] = r] BY <1>0, <1>3 DEF AdmitReceipts, TypeOK, Request
  <2>2. req' \in [Proc -> Request]
    <3> HIDE DEF r
    <3> QED BY <1>0, <2>3, <2>4 DEF TypeOK
  <2> QED BY <1>0, <1>3, <2>2 DEF AdmitReceipts, TypeOK, Goto, Steps
<1>4. CASE AdmitSessions(p)
  <2> DEFINE r == [req[p] EXCEPT !.bytes = 0, !.count = 0]
  <2>3. r \in Request BY <1>0 DEF TypeOK, Request
  <2>4. req' = [req EXCEPT ![p] = r] BY <1>0, <1>4 DEF AdmitSessions, TypeOK, Request
  <2>1. req' \in [Proc -> Request]
    <3> HIDE DEF r
    <3> QED BY <1>0, <2>3, <2>4 DEF TypeOK
  <2> QED BY <1>0, <1>4, <2>1 DEF AdmitSessions, TypeOK, Goto, Steps
<1>5. CASE Refuse(p)
  BY <1>0, <1>5, ReplyTyped DEF Refuse, TypeOK
<1> QED BY <1>1, <1>2, <1>3, <1>4, <1>5 DEF Admit

LEMMA NameTyped ==
  ASSUME Typed, NEW p \in Proc, FreeName(p)
  PROVE  TypeOK'
<1> USE DEF table, folder
<1>0. TypeOK BY DEF Typed
<1>1. CASE NameRows(p)
  <2>1. {meta[s].name : s \in open} \subseteq Name BY <1>0 DEF TypeOK, Meta
  <2>2. req' \in [Proc -> Request] BY <1>0, <1>1, <2>1 DEF NameRows, TypeOK, Request
  <2> QED BY <1>0, <1>1, <2>2 DEF NameRows, TypeOK, Goto, Steps
<1>2. CASE NameDisk(p)
  <2>1. Min(FreeNames(p)) \in Name BY <1>2, LeastName DEF NameDisk, FreeNames
  <2> DEFINE r == [req[p] EXCEPT !.want = Min(FreeNames(p)), !.taken = {}]
  <2>3. r \in Request BY <1>0, <2>1 DEF TypeOK, Request
  <2>4. req' = [req EXCEPT ![p] = r] BY <1>0, <1>2 DEF NameDisk, TypeOK, Request
  <2>2. req' \in [Proc -> Request]
    <3> HIDE DEF r
    <3> QED BY <1>0, <2>3, <2>4 DEF TypeOK
  <2> QED BY <1>0, <1>2, <2>2 DEF NameDisk, TypeOK, Goto, Steps
<1> QED BY <1>1, <1>2 DEF FreeName

LEMMA CreateTyped ==
  ASSUME TypeOK, NEW p \in Proc, Create(p)
  PROVE  TypeOK'
<1> USE DEF table, folder
<1>0. req[p].sid \in Sid /\ MetaOf(p) \in Meta BY DEF TypeOK, Request, MetaOf, Meta
<1>1. CASE CreateInsert(p)
  <2>1. CASE Reply(p) /\ UNCHANGED <<open, meta, loose>>
    BY <1>1, <2>1, ReplyTyped DEF CreateInsert, TypeOK
  <2>2. CASE /\ open' = open \cup {req[p].sid}
             /\ meta' = [meta EXCEPT ![req[p].sid] = MetaOf(p)]
             /\ loose' = loose \ {req[p].sid}
             /\ Goto(p, "c_part") /\ UNCHANGED req
    BY <1>0, <1>1, <2>2 DEF CreateInsert, TypeOK, Goto, Steps
  <2> QED BY <1>1, <2>1, <2>2 DEF CreateInsert
<1>2. CASE CreatePart(p)
  BY <1>0, <1>2, ReplyTyped DEF CreatePart, TypeOK, Goto, Steps
<1>3. CASE CreateUndo(p)
  BY <1>0, <1>3, ReplyTyped DEF CreateUndo, RowGone, TypeOK
<1> QED BY <1>1, <1>2, <1>3 DEF Create

LEMMA PublishTyped ==
  ASSUME TypeOK, NEW p \in Proc, Publish(p)
  PROVE  TypeOK'
<1> USE DEF table, folder
<1>0. /\ req[p].sid \in Sid /\ MetaOf(p) \in Meta /\ req[p].want \in Name
      /\ req[p].tries \in 0 .. Tries - 1 /\ Tries \in Nat
  BY LimitsAreNatural DEF TypeOK, Request, MetaOf, Meta
<1>1. CASE PublishLock(p)
  BY <1>1 DEF PublishLock, TypeOK, Goto, Steps
<1>2. CASE PublishLink(p)
  <2>1. CASE file[req[p].want] = Absent
    BY <1>0, <1>2, <2>1 DEF PublishLink, TypeOK, Goto, Steps
  <2>2. CASE file[req[p].want] # Absent /\ TriesLeft(p)
    <3>1. req[p].tries + 1 \in 0 .. Tries - 1 BY <1>0, <2>2 DEF TriesLeft
    <3>2. req' \in [Proc -> Request] BY <1>2, <2>2, <3>1 DEF PublishLink, TypeOK, Request
    <3> QED BY <1>2, <2>2, <3>2 DEF PublishLink, TypeOK, Goto, Steps
  <2>3. CASE file[req[p].want] # Absent /\ ~TriesLeft(p)
    BY <1>2, <2>3, ReplyTyped DEF PublishLink, TypeOK
  <2> QED BY <2>1, <2>2, <2>3
<1>3. CASE Book(p)
  <2>1. booked' \in [Sid -> Nat] BY <1>0, <1>3 DEF Book, TypeOK
  <2> QED BY <1>3, <2>1, ReplyTyped DEF Book, TypeOK
<1> QED BY <1>1, <1>2, <1>3 DEF Publish

LEMMA CompleteTyped ==
  ASSUME TypeOK, NEW p \in Proc, Complete(p) \/ Abort(p)
  PROVE  TypeOK'
<1> USE DEF table, folder
<1>0. req[p].sid \in Sid /\ meta[req[p].sid].name \in Name BY DEF TypeOK, Request, Meta
<1>a. ASSUME NEW s \in open PROVE [NoRequest EXCEPT !.who = meta[s].who, !.sid = s] \in Request
  BY DefaultsTyped DEF TypeOK, Request, Meta
<1>1. CASE CompleteBegin(p)
  <2>1. req' \in [Proc -> Request] BY <1>a, <1>1 DEF CompleteBegin, TypeOK
  <2> QED BY <1>1, <2>1 DEF CompleteBegin, TypeOK, Goto, Steps
<1>2. CASE CompleteEnter(p)
  BY <1>2, ReplyTyped DEF CompleteEnter, TypeOK, Goto, Steps
<1>3. CASE CompleteLink(p)
  <2>1. CASE Goto(p, "f_unlink") /\ UNCHANGED req
    BY <1>0, <1>3, <2>1 DEF CompleteLink, TypeOK, Goto, Steps
  <2>2. CASE Reply(p) /\ UNCHANGED <<file, shown, late>>
    BY <1>3, <2>2, ReplyTyped DEF CompleteLink, TypeOK
  <2> QED BY <1>3, <2>1, <2>2 DEF CompleteLink
<1>4. CASE CompleteUnlink(p)
  BY <1>4, ReplyTyped DEF CompleteUnlink, TypeOK, Goto, Steps
<1>5. CASE CompleteDelete(p)
  BY <1>0, <1>5 DEF CompleteDelete, TypeOK, Goto, Steps
<1>6. CASE CompleteStat(p)
  BY <1>6, ReplyTyped DEF CompleteStat, TypeOK, Goto, Steps
<1>7. CASE AbortBegin(p)
  <2>1. req' \in [Proc -> Request] BY <1>a, <1>7 DEF AbortBegin, TypeOK
  <2> QED BY <1>7, <2>1 DEF AbortBegin, TypeOK, Goto, Steps
<1>8. CASE AbortPart(p)
  BY <1>0, <1>8 DEF AbortPart, TypeOK, Goto, Steps
<1>9. CASE AbortDelete(p)
  BY <1>9, ReplyTyped DEF AbortDelete, RowGone, TypeOK
<1> QED BY <1>1, <1>2, <1>3, <1>4, <1>5, <1>6, <1>7, <1>8, <1>9 DEF Complete, Abort

LEMMA ReapTyped ==
  ASSUME TypeOK, NEW r \in Reapers, Reap(r)
  PROVE  TypeOK'
<1> USE DEF table, folder
<1>0. reaper[r] \in Reaper /\ NoReaper \in Reaper /\ AnySid \in Sid BY DefaultsTyped DEF TypeOK
<1>1. CASE ReapList(r)
  <2>1. ASSUME NEW S \in SUBSET open PROVE [NoReaper EXCEPT !.pc = "part", !.todo = S] \in Reaper
    BY <1>0 DEF Reaper, TypeOK
  <2>2. PICK S \in SUBSET open : reaper' = [reaper EXCEPT ![r] = [NoReaper EXCEPT !.pc = "part", !.todo = S]]
    BY <1>1 DEF ReapList
  <2> QED BY <1>1, <2>1, <2>2 DEF ReapList, TypeOK
<1>2. CASE ReapPart(r)
  <2>1. PICK s \in reaper[r].todo :
          /\ parts' = parts \ {s}
          /\ reaper' = [reaper EXCEPT ![r] = [pc |-> "row", todo |-> reaper[r].todo \ {s}, cur |-> s]]
    BY <1>2 DEF ReapPart, TypeOK
  <2>2. [pc |-> "row", todo |-> reaper[r].todo \ {s}, cur |-> s] \in Reaper
    BY <1>0 DEF Reaper
  <2> QED BY <1>2, <2>1, <2>2 DEF ReapPart, TypeOK
<1>3. CASE ReapRow(r)
  <2>1. reaper' \in [Reapers -> Reaper] BY <1>0, <1>3 DEF ReapRow, TypeOK, Reaper
  <2>2. reaper[r].cur \in Sid BY <1>0 DEF Reaper
  <2> QED BY <1>3, <2>1, <2>2 DEF ReapRow, TypeOK
<1>4. CASE ReapEnd(r)
  BY <1>0, <1>4 DEF ReapEnd, TypeOK
<1> QED BY <1>1, <1>2, <1>3, <1>4 DEF Reap

LEMMA StepTyped == Typed /\ [Next]_vars => TypeOK'
<1> SUFFICES ASSUME Typed, [Next]_vars PROVE TypeOK'
  OBVIOUS
<1> USE DEF table, folder
<1>0. TypeOK BY DEF Typed
<1>1. CASE UNCHANGED vars BY <1>0, <1>1 DEF vars, TypeOK
<1>2. ASSUME NEW n \in Name, OwnerWrites(n) PROVE TypeOK'
  BY <1>0, <1>2 DEF OwnerWrites, TypeOK
<1>3. CASE Crash BY <1>0, <1>3, DefaultsTyped DEF Crash, TypeOK, Steps
<1> QED BY <1>0, <1>1, <1>2, <1>3, AdmitTyped, NameTyped, CreateTyped, PublishTyped,
           CompleteTyped, ReapTyped DEF Next

-----------------------------------------------------------------------------
(* What a step does to one handler, as far as the invariants depend on it. *)

\* The handlers whose id is theirs alone, and those past the removal of a part.
Mine == {"a_lock", "a_receipts", "a_sessions", "n_rows", "n_disk", "c_insert", "t_copy", "l_link"}
Ended == {"f_delete", "f_stat", "book"}

\* A session that admission let through and that has no row yet.
Admitted(p) == pc[p] \in {"n_rows", "n_disk", "c_insert"} /\ ~req[p].put

\* Only a single request transfers before it publishes; only a session has a row.
Kinds ==
  \A p \in Proc :
    /\ pc[p] \in {"t_copy", "l_link"} => req[p].put
    /\ pc[p] = "c_insert" => ~req[p].put

Keeps(q) == req'[q].sid = req[q].sid

MovesAt(q) ==
  /\ pc'[q] \in Mine =>
       \/ pc[q] \in Mine /\ Keeps(q)
       \/ pc[q] = "idle" /\ req'[q].sid \in Fresh /\ UNCHANGED <<open, parts, shown, booked>>
  /\ pc'[q] # "idle" =>
       \/ pc[q] # "idle" /\ Keeps(q)
       \/ pc'[q] = "a_lock" /\ req'[q].sid \in Fresh
       \/ pc'[q] \in {"f_lock", "b_part"} /\ req'[q].sid \in open
  /\ pc'[q] = "c_part" => pc[q] \in {"c_insert", "c_part"}
  /\ pc'[q] = "f_unlink" =>
       \/ pc[q] = "f_unlink"
       \/ pc[q] = "f_link" /\ req[q].sid \in parts /\ req[q].sid \in shown'
  /\ pc'[q] \in Ended =>
       \/ pc[q] \in Ended
       \/ /\ pc[q] = "f_unlink" /\ UNCHANGED booked
          /\ req[q].sid \in parts /\ req[q].sid \notin parts'
       \/ pc[q] = "l_link" /\ req[q].sid \in shown' /\ UNCHANGED <<parts, booked>>

\* Under the mutex of the link.
HoldsAt(q) ==
  /\ pc'[q] \in Locked => pc[q] \in Locked \/ MuFree
  /\ pc'[q] = "n_disk" =>
       \/ pc[q] = "n_disk" /\ req'[q].taken = req[q].taken
       \/ req'[q].taken = {meta[s].name : s \in open} /\ UNCHANGED <<open, meta>>
  /\ pc'[q] \in {"c_insert", "l_link"} =>
       \/ pc[q] = pc'[q] /\ req'[q].want = req[q].want
       \/ /\ pc[q] = "n_disk" /\ UNCHANGED <<open, meta, file, late>>
          /\ req'[q].want \notin req[q].taken /\ file[req'[q].want] = Absent
  /\ pc'[q] \in {"t_copy", "l_link"} =>
       req'[q].put \/ (pc[q] \in {"t_copy", "l_link"} /\ req'[q].put = req[q].put)
  /\ pc'[q] = "c_insert" =>
       ~req'[q].put \/ (pc[q] = "c_insert" /\ req'[q].put = req[q].put)
  /\ Admitted(q)' =>
       /\ req'[q].size = req[q].size /\ req'[q].who = req[q].who
       /\ \/ Admitted(q)
          \/ pc[q] = "a_sessions" /\ Fits(q) /\ UNCHANGED <<open, meta>>

\* A step of one handler, of a task or of the owner, as the tables see it.
Inserts(q) ==
  /\ pc[q] = "c_insert" /\ pc'[q] = "c_part"
  /\ open' = open \cup {req[q].sid}
  /\ meta' = [meta EXCEPT ![req[q].sid] = MetaOf(q)]
  /\ \A s \in open : meta[s].name # req[q].want
  /\ UNCHANGED <<file, late>>

Links(q) ==
  /\ pc[q] = "l_link" /\ pc'[q] = "book"
  /\ shown' = shown \cup {req[q].sid}
  /\ file' = [file EXCEPT ![req[q].want] = req[q].sid]
  /\ meta' = [meta EXCEPT ![req[q].sid] = MetaOf(q)]
  /\ late' = late /\ open' = open

Publishes(q) ==
  LET s == req[q].sid
  IN
  /\ pc[q] = "f_link" /\ s \in parts
  /\ shown' = shown \cup {s}
  /\ file' = [file EXCEPT ![meta[s].name] = s]
  /\ late \subseteq late' /\ (s \in open \/ s \in late')
  /\ UNCHANGED <<open, meta>>

Shares ==
  /\ open' \subseteq open \/ \E q \in Proc : Inserts(q)
  /\ UNCHANGED meta \/ \E q \in Proc : Inserts(q) \/ Links(q)
  /\ UNCHANGED shown \/ \E q \in Proc : Links(q) \/ Publishes(q)
  /\ \/ \A n \in Name : file'[n] = file[n] \/ file'[n] \in {Absent, Foreign}
     \/ \E q \in Proc : Links(q) \/ Publishes(q)
  /\ late \subseteq late'
  /\ \/ parts' \subseteq parts
     \/ \E q \in Proc : pc[q] = "c_part" /\ pc'[q] = "idle" /\ parts' = parts \cup {req[q].sid}
  /\ \/ UNCHANGED booked
     \/ \E q \in Proc : /\ pc[q] = "book" /\ pc'[q] = "idle"
                        /\ booked' = [booked EXCEPT ![req[q].sid] = @ + 1]

LEMMA AdmitMoves ==
  ASSUME TypeOK, Kinds, NEW p \in Proc, Admit(p) \/ FreeName(p)
  PROVE  MovesAt(p) /\ HoldsAt(p) /\ Shares
<1> USE DEF TypeOK, Request, Kinds, MovesAt, HoldsAt, Keeps, Shares, Mine, Ended, Locked, Admitted,
            Goto, Reply, table, folder
<1>1. CASE Begin(p)
  BY <1>1 DEF Begin
<1>2. CASE AdmitLock(p)
  BY <1>2 DEF AdmitLock
<1>3. CASE AdmitReceipts(p)
  BY <1>3 DEF AdmitReceipts
<1>4. CASE AdmitSessions(p)
  BY <1>4 DEF AdmitSessions
<1>5. CASE Refuse(p)
  BY <1>5 DEF Refuse
<1>6. CASE NameRows(p)
  BY <1>6 DEF NameRows
<1>7. CASE NameDisk(p)
  <2>1. Min(FreeNames(p)) \in FreeNames(p) BY <1>7, LeastName DEF NameDisk, FreeNames
  <2>2. /\ pc[p] = "n_disk" /\ pc' = [pc EXCEPT ![p] = IF req[p].put THEN "l_link" ELSE "c_insert"]
        /\ UNCHANGED <<open, meta, parts, shown, late, file, booked>>
    BY <1>7 DEF NameDisk
  <2> DEFINE n == Min(FreeNames(p))
             r == [req[p] EXCEPT !.want = n, !.taken = {}]
  <2>3. req' = [req EXCEPT ![p] = r] BY <1>7 DEF NameDisk
  <2>4. n \notin req[p].taken /\ file[n] = Absent BY <2>1 DEF FreeNames
  <2>5. /\ r.want = n /\ r.put = req[p].put /\ r.sid = req[p].sid
        /\ r.size = req[p].size /\ r.who = req[p].who
    OBVIOUS
  <2> HIDE DEF n, r
  <2> QED BY <2>2, <2>3, <2>4, <2>5
<1> QED BY <1>1, <1>2, <1>3, <1>4, <1>5, <1>6, <1>7 DEF Admit, FreeName

LEMMA CreateMoves ==
  ASSUME TypeOK, Kinds, NEW p \in Proc, Create(p) \/ Publish(p)
  PROVE  MovesAt(p) /\ HoldsAt(p) /\ Shares
<1> USE DEF TypeOK, Request, Kinds, MovesAt, HoldsAt, Keeps, Shares, Inserts, Links, Mine, Ended,
            Locked, Admitted, Goto, Reply, table, folder
<1>1. CASE CreateInsert(p)
  BY <1>1 DEF CreateInsert
<1>2. CASE CreatePart(p)
  BY <1>2 DEF CreatePart
<1>3. CASE CreateUndo(p)
  BY <1>3 DEF CreateUndo, RowGone
<1>4. CASE PublishLock(p)
  BY <1>4 DEF PublishLock
<1>5. CASE PublishLink(p)
  <2>1. CASE file[req[p].want] = Absent
    <3>1. Links(p) BY <1>5, <2>1 DEF PublishLink
    <3> QED BY <1>5, <2>1, <3>1 DEF PublishLink
  <2>2. CASE file[req[p].want] # Absent /\ TriesLeft(p)
    BY <1>5, <2>2 DEF PublishLink
  <2>3. CASE file[req[p].want] # Absent /\ ~TriesLeft(p)
    BY <1>5, <2>3 DEF PublishLink
  <2> QED BY <2>1, <2>2, <2>3
<1>6. CASE Book(p)
  BY <1>6 DEF Book
<1> QED BY <1>1, <1>2, <1>3, <1>4, <1>5, <1>6 DEF Create, Publish

LEMMA CompleteMoves ==
  ASSUME TypeOK, Kinds, NEW p \in Proc, Complete(p) \/ Abort(p)
  PROVE  MovesAt(p) /\ HoldsAt(p) /\ Shares
<1> USE DEF TypeOK, Request, Kinds, MovesAt, HoldsAt, Keeps, Shares, Publishes, Mine, Ended,
            Locked, Admitted, Goto, Reply, table, folder
<1>1. CASE CompleteBegin(p)
  BY <1>1 DEF CompleteBegin
<1>2. CASE CompleteEnter(p)
  BY <1>2 DEF CompleteEnter
<1>3. CASE CompleteLink(p)
  BY <1>3 DEF CompleteLink
<1>4. CASE CompleteUnlink(p)
  BY <1>4 DEF CompleteUnlink
<1>5. CASE CompleteDelete(p)
  BY <1>5 DEF CompleteDelete
<1>6. CASE CompleteStat(p)
  BY <1>6 DEF CompleteStat
<1>7. CASE AbortBegin(p)
  BY <1>7 DEF AbortBegin
<1>8. CASE AbortPart(p)
  BY <1>8 DEF AbortPart
<1>9. CASE AbortDelete(p)
  BY <1>9 DEF AbortDelete, RowGone
<1> QED BY <1>1, <1>2, <1>3, <1>4, <1>5, <1>6, <1>7, <1>8, <1>9 DEF Complete, Abort

Handles(p) == Admit(p) \/ FreeName(p) \/ Create(p) \/ Publish(p) \/ Complete(p) \/ Abort(p)

\* A handler steps alone.
LEMMA OthersRest ==
  ASSUME TypeOK, NEW p \in Proc, Handles(p), NEW q \in Proc \ {p}
  PROVE  pc'[q] = pc[q] /\ req'[q] = req[q]
<1> USE DEF TypeOK, Goto, Reply
<1>1. CASE Admit(p)
  BY <1>1 DEF Admit, Begin, AdmitLock, AdmitReceipts, AdmitSessions, Refuse
<1>2. CASE FreeName(p) \/ Create(p) \/ Publish(p)
  BY <1>2 DEF FreeName, NameRows, NameDisk, Create, CreateInsert, CreatePart, CreateUndo,
              Publish, PublishLock, PublishLink, Book
<1>3. CASE Complete(p) \/ Abort(p)
  BY <1>3 DEF Complete, CompleteBegin, CompleteEnter, CompleteLink, CompleteUnlink, CompleteDelete,
              CompleteStat, Abort, AbortBegin, AbortPart, AbortDelete
<1> QED BY <1>1, <1>2, <1>3 DEF Handles

Alone ==
  \/ \A q \in Proc : pc'[q] = "idle"
  \/ \E p \in Proc : \A q \in Proc \ {p} : pc'[q] = pc[q] /\ req'[q] = req[q]
  \/ UNCHANGED <<pc, req>>

LEMMA StepMoves ==
  ASSUME TypeOK, Kinds, [Next]_vars
  PROVE  (\A q \in Proc : MovesAt(q) /\ HoldsAt(q)) /\ Shares /\ Alone
<1> USE DEF table, folder
<1>1. CASE \E p \in Proc : Handles(p)
  <2>1. PICK p \in Proc : Handles(p) BY <1>1
  <2>2. MovesAt(p) /\ HoldsAt(p) /\ Shares
    BY <2>1, AdmitMoves, CreateMoves, CompleteMoves DEF Handles
  <2>3. \A q \in Proc \ {p} : pc'[q] = pc[q] /\ req'[q] = req[q] BY <2>1, OthersRest
  <2>4. ASSUME NEW q \in Proc \ {p} PROVE MovesAt(q) /\ HoldsAt(q)
    BY <2>3 DEF MovesAt, HoldsAt, Keeps, Kinds, Admitted
  <2> QED BY <2>2, <2>3, <2>4 DEF Alone
<1>2. CASE Crash
  BY <1>2 DEF Crash, MovesAt, HoldsAt, Keeps, Shares, Alone, Mine, Ended, Locked, Admitted
<1>3. CASE UNCHANGED vars \/ (\E r \in Reapers : Reap(r)) \/ (\E n \in Name : OwnerWrites(n))
  <2>1. UNCHANGED <<pc, req>>
    BY <1>3 DEF vars, Reap, ReapList, ReapPart, ReapRow, ReapEnd, OwnerWrites
  <2>2. ASSUME NEW q \in Proc PROVE MovesAt(q) /\ HoldsAt(q)
    BY <2>1 DEF MovesAt, HoldsAt, Keeps, Kinds, Admitted
  <2>3. Shares
    BY <1>3 DEF Shares, TypeOK, vars, Reap, ReapList, ReapPart, ReapRow, ReapEnd, OwnerWrites
  <2> QED BY <2>1, <2>2, <2>3 DEF Alone
<1> QED BY <1>1, <1>2, <1>3 DEF Next, Handles

-----------------------------------------------------------------------------
(* The invariant. An id belongs to its creation alone until the part is    *)
(* made; whoever removes the part published it and is the only one to book *)
(* it; and under the mutex what was read of names and of sessions holds.   *)

OwnIds ==
  \A p \in Proc : pc[p] \in Mine =>
    /\ req[p].sid \notin open
    /\ \A q \in Proc \ {p} : pc[q] # "idle" => req[q].sid # req[p].sid

Unmade ==
  \A p \in Proc : pc[p] \in Mine \cup {"c_part"} =>
    /\ req[p].sid \notin parts \cup shown /\ booked[req[p].sid] = 0
    /\ \A q \in Proc \ {p} : req[q].sid = req[p].sid => pc[q] \notin {"c_part", "f_unlink"} \cup Ended

BookedOnce ==
  /\ \A p \in Proc : pc[p] \in {"f_unlink"} \cup Ended => req[p].sid \in shown
  /\ \A p \in Proc : pc[p] \in Ended =>
       /\ req[p].sid \notin parts /\ booked[req[p].sid] = 0
       /\ \A q \in Proc \ {p} : req[q].sid = req[p].sid => pc[q] \notin Ended
  /\ \A s \in parts : booked[s] = 0

Exclusive == \A p, q \in Proc : pc[p] \in Locked /\ pc[q] \in Locked => p = q

Named ==
  /\ \A s, t \in open : meta[s].name = meta[t].name => s = t
  /\ \A p \in Proc : pc[p] = "n_disk" => \A s \in open : meta[s].name \in req[p].taken
  /\ \A p \in Proc : pc[p] \in {"c_insert", "l_link"} => \A s \in open : meta[s].name # req[p].want
  /\ \A p \in Proc : pc[p] = "c_insert" => file[req[p].want] \in {Absent, Foreign} \cup late

Stepped == (\A q \in Proc : MovesAt(q) /\ HoldsAt(q)) /\ Shares /\ Alone

LEMMA KindsKept ==
  ASSUME Kinds, Stepped PROVE Kinds'
  BY DEF Kinds, Stepped, HoldsAt

LEMMA ExclusiveKept ==
  ASSUME Exclusive, Stepped PROVE Exclusive'
<1> SUFFICES ASSUME NEW p \in Proc, NEW q \in Proc, pc'[p] \in Locked, pc'[q] \in Locked, p # q
             PROVE  FALSE
  BY DEF Exclusive
<1>1. (pc[p] \in Locked \/ MuFree) /\ (pc[q] \in Locked \/ MuFree) BY DEF Stepped, HoldsAt
<1>2. pc'[p] = pc[p] \/ pc'[q] = pc[q] BY DEF Stepped, Alone, Locked
<1> QED BY <1>1, <1>2 DEF Exclusive, MuFree

\* What is already in the table keeps its name, its size and its sender.
LEMMA MetaKept ==
  ASSUME TypeOK, OwnIds, Stepped, NEW s \in open
  PROVE  meta'[s] = meta[s]
  BY DEF TypeOK, OwnIds, Mine, Stepped, Shares, Inserts, Links

LEMMA OwnIdsKept ==
  ASSUME TypeOK, OwnIds, Stepped PROVE OwnIds'
<1> SUFFICES ASSUME NEW p \in Proc, pc'[p] \in Mine
             PROVE  /\ req'[p].sid \notin open'
                    /\ \A q \in Proc \ {p} : pc'[q] # "idle" => req'[q].sid # req'[p].sid
  BY DEF OwnIds
<1>1. CASE pc[p] \in Mine /\ Keeps(p)
  <2>1. req[p].sid \notin open' BY <1>1 DEF OwnIds, Stepped, Shares, Inserts, Mine
  <2>2. ASSUME NEW q \in Proc \ {p}, pc'[q] # "idle" PROVE req'[q].sid # req'[p].sid
    <3>1. CASE pc[q] # "idle" /\ Keeps(q) BY <1>1, <3>1 DEF OwnIds, Keeps
    <3>2. CASE req'[q].sid \in Fresh BY <1>1, <3>2 DEF Fresh, Keeps, Mine
    <3>3. CASE req'[q].sid \in open BY <1>1, <3>3 DEF OwnIds, Keeps
    <3> QED BY <2>2, <3>1, <3>2, <3>3 DEF Stepped, MovesAt
  <2> QED BY <1>1, <2>1, <2>2 DEF Keeps
<1>2. CASE pc[p] = "idle" /\ req'[p].sid \in Fresh /\ UNCHANGED open
  <2>1. ASSUME NEW q \in Proc \ {p}, pc'[q] # "idle"
        PROVE  pc[q] # "idle" /\ Keeps(q)
    BY <1>2, <2>1 DEF Stepped, Alone, Keeps, Mine
  <2> QED BY <1>2, <2>1 DEF Fresh, Keeps
<1> QED BY <1>1, <1>2 DEF Stepped, MovesAt

LEMMA UnmadeKept ==
  ASSUME TypeOK, OwnIds, Unmade, BookedOnce, Stepped PROVE Unmade'
<1> SUFFICES ASSUME NEW p \in Proc, pc'[p] \in Mine \cup {"c_part"}
             PROVE  /\ req'[p].sid \notin parts' \cup shown' /\ booked'[req'[p].sid] = 0
                    /\ \A q \in Proc \ {p} : req'[q].sid = req'[p].sid =>
                         pc'[q] \notin {"c_part", "f_unlink"} \cup Ended
  BY DEF Unmade
<1>1. CASE pc[p] \in Mine \cup {"c_part"} /\ Keeps(p)
  <2> DEFINE s == req[p].sid
  <2>0. /\ s \in Sid /\ s \notin parts \cup shown /\ booked[s] = 0 /\ pc[p] # "idle"
        /\ \A q \in Proc \ {p} : req[q].sid = s => pc[q] \notin {"c_part", "f_unlink"} \cup Ended
    BY <1>1 DEF Unmade, TypeOK, Request, Mine
  <2>1. s \notin parts' BY <1>1, <2>0 DEF Stepped, Shares, Mine
  <2>2. s \notin shown'
    BY <1>1, <2>0 DEF Stepped, Shares, Links, Publishes, OwnIds, Mine
  <2>3. booked'[s] = 0 BY <2>0 DEF Stepped, Shares, Ended, TypeOK, Mine
  <2>4. ASSUME NEW q \in Proc \ {p}, req'[q].sid = s, pc'[q] \in {"c_part", "f_unlink"} \cup Ended
        PROVE  FALSE
    <3>1. pc[q] # "idle" /\ req[q].sid = s BY <2>4 DEF Stepped, MovesAt, Keeps, Ended
    <3>2. pc[q] \notin Mine BY <2>0, <3>1 DEF OwnIds
    <3>3. pc[q] \notin {"c_part", "f_unlink"} \cup Ended BY <2>0, <3>1
    <3>4. ~(pc[q] = "f_link" /\ s \in parts) BY <2>0
    <3> QED BY <2>4, <3>1, <3>2, <3>3, <3>4 DEF Stepped, MovesAt, Mine, Ended
  <2> QED BY <1>1, <2>1, <2>2, <2>3, <2>4 DEF Keeps
<1>2. CASE pc[p] = "idle" /\ req'[p].sid \in Fresh /\ UNCHANGED <<parts, shown, booked>>
  <2>1. req'[p].sid \notin parts \cup shown /\ booked[req'[p].sid] = 0
    BY <1>2 DEF Fresh, Receipts, TypeOK
  <2>2. ASSUME NEW q \in Proc \ {p}, pc'[q] # "idle" PROVE pc[q] # "idle" /\ Keeps(q)
    BY <1>2, <2>2 DEF Stepped, Alone, Keeps, Mine
  <2> QED BY <1>2, <2>1, <2>2 DEF Fresh, Keeps, Ended
<1>3. CASE pc'[p] = "c_part" /\ pc[p] \in Mine \cup {"c_part"}
  BY <1>1, <1>3 DEF Stepped, MovesAt, Mine
<1> QED BY <1>1, <1>2, <1>3 DEF Stepped, MovesAt, Mine

LEMMA BookedOnceKept ==
  ASSUME TypeOK, OwnIds, Unmade, BookedOnce, Stepped PROVE BookedOnce'
<1>0. shown \subseteq shown' BY DEF Stepped, Shares, Links, Publishes
<1>1. ASSUME NEW p \in Proc, pc'[p] \in {"f_unlink"} \cup Ended PROVE req'[p].sid \in shown'
  <2>1. pc[p] # "idle" /\ Keeps(p) BY <1>1 DEF Stepped, MovesAt, Ended
  <2> QED BY <1>0, <1>1, <2>1 DEF BookedOnce, Stepped, MovesAt, Keeps, Ended
<1>2. ASSUME NEW p \in Proc, pc'[p] \in Ended
      PROVE  /\ req'[p].sid \notin parts' /\ booked'[req'[p].sid] = 0
             /\ \A q \in Proc \ {p} : req'[q].sid = req'[p].sid => pc'[q] \notin Ended
  <2> DEFINE s == req[p].sid
  <2>1. pc[p] # "idle" /\ req'[p].sid = s /\ s \in Sid
    BY <1>2 DEF Stepped, MovesAt, Ended, Keeps, TypeOK, Request
  <2>2. ASSUME NEW q \in Proc \ {p}, req'[q].sid = s, pc'[q] \in Ended
        PROVE  /\ pc[q] # "idle" /\ req[q].sid = s
               /\ \/ pc[q] \in Ended
                  \/ pc[q] = "f_unlink" /\ s \in parts
                  \/ pc[q] = "l_link"
    BY <2>2 DEF Stepped, MovesAt, Ended, Keeps
  <2>3. CASE pc[p] \in Ended
    <3>0. s \notin parts /\ booked[s] = 0 BY <2>3 DEF BookedOnce
    <3>1. s \notin parts' BY <2>1, <2>3, <3>0 DEF Stepped, Shares, Unmade, Ended, Mine
    <3>2. booked'[s] = 0
      <4>1. ASSUME NEW q \in Proc, pc[q] = "book", pc'[q] = "idle", req[q].sid = s PROVE FALSE
        BY <1>2, <2>1, <2>3, <4>1 DEF BookedOnce, Ended
      <4> QED BY <2>1, <3>0, <4>1 DEF Stepped, Shares, TypeOK
    <3>3. ASSUME NEW q \in Proc \ {p}, req'[q].sid = s, pc'[q] \in Ended PROVE FALSE
      BY <2>1, <2>2, <2>3, <3>0, <3>3 DEF BookedOnce, OwnIds, Mine
    <3> QED BY <2>1, <3>1, <3>2, <3>3
  <2>4. CASE pc[p] = "f_unlink" /\ UNCHANGED booked /\ s \in parts /\ s \notin parts'
    <3>1. booked[s] = 0 BY <2>4 DEF BookedOnce
    <3>2. ASSUME NEW q \in Proc \ {p}, req'[q].sid = s, pc'[q] \in Ended PROVE FALSE
      <4>1. pc[q] # "f_unlink" BY <1>2, <2>4, <3>2 DEF Stepped, Alone, Ended
      <4> QED BY <2>1, <2>2, <2>4, <3>2, <4>1 DEF BookedOnce, OwnIds, Mine
    <3> QED BY <2>1, <2>4, <3>1, <3>2
  <2>5. CASE pc[p] = "l_link" /\ UNCHANGED <<parts, booked>>
    <3>1. s \notin parts /\ booked[s] = 0 BY <2>5 DEF Unmade, Mine
    <3>2. ASSUME NEW q \in Proc \ {p}, req'[q].sid = s, pc'[q] \in Ended PROVE FALSE
      BY <2>1, <2>2, <2>5, <3>2 DEF OwnIds, Mine
    <3> QED BY <2>1, <2>5, <3>1, <3>2
  <2> QED BY <1>2, <2>3, <2>4, <2>5 DEF Stepped, MovesAt
<1>3. ASSUME NEW s \in parts' PROVE booked'[s] = 0
  <2>0. s \in Sid /\ booked \in [Sid -> Nat] BY DEF Stepped, Shares, TypeOK, Request
  <2>1. booked[s] = 0 /\ \A q \in Proc : pc[q] = "book" => req[q].sid # s
    <3>1. CASE s \in parts BY <3>1 DEF BookedOnce, Ended
    <3>2. CASE s \notin parts
      <4>1. PICK q \in Proc : pc[q] = "c_part" /\ req[q].sid = s
        BY <3>2 DEF Stepped, Shares
      <4> QED BY <4>1 DEF Unmade, Ended
    <3> QED BY <3>1, <3>2
  <2> QED BY <2>0, <2>1 DEF Stepped, Shares
<1> QED BY <1>1, <1>2, <1>3 DEF BookedOnce

LEMMA ReceiptsKept ==
  ASSUME TypeOK, BookedOnce, ReceiptsTrue, Stepped PROVE ReceiptsTrue'
<1> SUFFICES ASSUME NEW s \in Sid PROVE booked'[s] <= 1 /\ (booked'[s] > 0 => s \in shown')
  BY DEF ReceiptsTrue
<1>1. shown \subseteq shown' BY DEF Stepped, Shares, Links, Publishes
<1>2. CASE UNCHANGED booked BY <1>1, <1>2 DEF ReceiptsTrue
<1>3. ASSUME NEW q \in Proc, pc[q] = "book", booked' = [booked EXCEPT ![req[q].sid] = @ + 1]
      PROVE  booked'[s] <= 1 /\ (booked'[s] > 0 => s \in shown')
  <2>1. booked[req[q].sid] = 0 /\ req[q].sid \in shown BY <1>3 DEF BookedOnce, Ended
  <2>2. booked \in [Sid -> Nat] BY DEF TypeOK
  <2>3. CASE s = req[q].sid BY <1>1, <1>3, <2>1, <2>2, <2>3
  <2>4. CASE s # req[q].sid BY <1>1, <1>3, <2>2, <2>4 DEF ReceiptsTrue
  <2> QED BY <2>3, <2>4
<1> QED BY <1>2, <1>3 DEF Stepped, Shares

\* Nobody else inserts a row while a handler is inside the mutex.
LEMMA InsideAlone ==
  ASSUME Exclusive, Stepped, NEW p \in Proc, pc[p] \in Locked, pc'[p] # "c_part", pc'[p] # "book"
  PROVE  /\ open' \subseteq open
         /\ \A q \in Proc : ~Inserts(q) /\ ~Links(q)
  BY DEF Exclusive, Stepped, Shares, Inserts, Links, Locked

LEMMA NamedKept ==
  ASSUME TypeOK, OwnIds, Exclusive, Named, Stepped PROVE Named'
<1>0. \A s \in open : meta'[s] = meta[s] BY MetaKept
<1>1. ASSUME NEW s \in open', NEW t \in open', meta'[s].name = meta'[t].name PROVE s = t
  <2>1. CASE open' \subseteq open BY <1>0, <1>1, <2>1 DEF Named
  <2>2. ASSUME NEW q \in Proc, Inserts(q) PROVE s = t
    <3>1. /\ req[q].sid \in Sid /\ meta' = [meta EXCEPT ![req[q].sid] = MetaOf(q)]
          /\ open' = open \cup {req[q].sid} /\ \A u \in open : meta[u].name # req[q].want
      BY <2>2 DEF Inserts, TypeOK, Request
    <3>2. meta'[req[q].sid].name = req[q].want BY <3>1 DEF MetaOf, TypeOK
    <3> QED BY <1>0, <1>1, <3>1, <3>2 DEF Named
  <2> QED BY <2>1, <2>2 DEF Stepped, Shares
<1>2. ASSUME NEW p \in Proc, pc'[p] = "n_disk" PROVE \A s \in open' : meta'[s].name \in req'[p].taken
  <2>1. CASE pc[p] = "n_disk" /\ req'[p].taken = req[p].taken
    <3>1. open' \subseteq open BY <1>2, <2>1, InsideAlone DEF Locked
    <3> QED BY <1>0, <2>1, <3>1 DEF Named
  <2>2. CASE req'[p].taken = {meta[s].name : s \in open} /\ UNCHANGED <<open, meta>>
    BY <2>2
  <2> QED BY <1>2, <2>1, <2>2 DEF Stepped, HoldsAt
<1>3. ASSUME NEW p \in Proc, pc'[p] \in {"c_insert", "l_link"}
      PROVE  /\ \A s \in open' : meta'[s].name # req'[p].want
             /\ pc'[p] = "c_insert" => file'[req'[p].want] \in {Absent, Foreign} \cup late'
  <2>1. CASE pc[p] = pc'[p] /\ req'[p].want = req[p].want
    <3>1. open' \subseteq open /\ \A q \in Proc : ~Inserts(q) /\ ~Links(q)
      BY <1>3, <2>1, InsideAlone DEF Locked
    <3>2. \A s \in open' : meta'[s].name # req'[p].want BY <1>0, <1>3, <2>1, <3>1 DEF Named
    <3>3. late \subseteq late' BY DEF Stepped, Shares
    <3>4. ASSUME pc'[p] = "c_insert" PROVE file'[req'[p].want] \in {Absent, Foreign} \cup late'
      <4> DEFINE n == req[p].want
      <4>0. n \in Name /\ file[n] \in {Absent, Foreign} \cup late BY <2>1, <3>4 DEF Named, TypeOK, Request
      <4>1. CASE file'[n] = file[n] \/ file'[n] \in {Absent, Foreign}
        BY <2>1, <3>3, <4>0, <4>1
      <4>2. ASSUME NEW q \in Proc, Publishes(q) PROVE file'[n] \in {Absent, Foreign} \cup late'
        <5>1. CASE meta[req[q].sid].name = n
          <6>1. req[q].sid \notin open BY <2>1, <3>4, <5>1 DEF Named
          <6>2. file'[n] = req[q].sid BY <4>0, <4>2, <5>1 DEF Publishes, TypeOK
          <6> QED BY <4>2, <6>1, <6>2 DEF Publishes
        <5>2. CASE meta[req[q].sid].name # n
          BY <3>3, <4>0, <4>2, <5>2 DEF Publishes, TypeOK
        <5> QED BY <5>1, <5>2
      <4> QED BY <2>1, <3>1, <4>0, <4>1, <4>2 DEF Stepped, Shares
    <3> QED BY <3>2, <3>4
  <2>2. CASE /\ pc[p] = "n_disk" /\ UNCHANGED <<open, meta, file, late>>
             /\ req'[p].want \notin req[p].taken /\ file[req'[p].want] = Absent
    BY <2>2 DEF Named
  <2> QED BY <1>3, <2>1, <2>2 DEF Stepped, HoldsAt
<1> QED BY <1>1, <1>2, <1>3 DEF Named

LEMMA VisitorsKept ==
  ASSUME TypeOK, OwnIds, Exclusive, Named, VisitorsNeverCollide, Stepped
  PROVE  VisitorsNeverCollide'
<1>0. \A s \in open : meta'[s] = meta[s] BY MetaKept
<1>1. Named' BY NamedKept
<1>2. ASSUME NEW s \in open' PROVE file'[meta'[s].name] \in {s, Absent, Foreign} \cup late'
  <2>0. late \subseteq late' BY DEF Stepped, Shares
  <2>1. CASE s \in open
    <3> DEFINE n == meta[s].name
    <3>0. n \in Name /\ meta'[s].name = n /\ file[n] \in {s, Absent, Foreign} \cup late
      BY <1>0, <2>1 DEF VisitorsNeverCollide, TypeOK, Meta
    <3>1. CASE file'[n] = file[n] \/ file'[n] \in {Absent, Foreign} BY <2>0, <3>0, <3>1
    <3>2. ASSUME NEW q \in Proc, Publishes(q) PROVE file'[n] \in {s, Absent, Foreign} \cup late'
      <4>1. CASE meta[req[q].sid].name = n
        <5>1. req[q].sid \in open => req[q].sid = s BY <2>1, <4>1 DEF Named
        <5>2. file'[n] = req[q].sid BY <3>0, <3>2, <4>1 DEF Publishes, TypeOK
        <5> QED BY <3>2, <5>1, <5>2 DEF Publishes
      <4>2. CASE meta[req[q].sid].name # n
        BY <2>0, <3>0, <3>2, <4>2 DEF Publishes, TypeOK
      <4> QED BY <4>1, <4>2
    <3>3. ASSUME NEW q \in Proc, Links(q) PROVE file'[n] = file[n]
      BY <2>1, <3>0, <3>3 DEF Links, Named, TypeOK
    <3> QED BY <2>0, <3>0, <3>1, <3>2, <3>3 DEF Stepped, Shares
  <2>2. CASE s \notin open
    <3>1. PICK q \in Proc : Inserts(q) BY <2>2 DEF Stepped, Shares
    <3>2. s = req[q].sid /\ s \in Sid BY <2>2, <3>1 DEF Inserts, TypeOK, Request
    <3>3. meta'[s].name = req[q].want BY <3>1, <3>2 DEF Inserts, MetaOf, TypeOK
    <3> QED BY <3>1, <3>3 DEF Inserts, Named
  <2> QED BY <2>1, <2>2
<1> QED BY <1>1, <1>2 DEF VisitorsNeverCollide, Named

-----------------------------------------------------------------------------
(* The sums and the counts of admission.                                   *)

Total == SumOver(Sizes, open)

\* Fewer rows of the same sizes.
LEMMA RowsShrink ==
  ASSUME TypeOK, TypeOK', IsFiniteSet(open), open' \subseteq open, \A s \in open : meta'[s] = meta[s]
  PROVE  /\ Total' <= Total /\ Total' \in Nat /\ Total \in Nat
         /\ Cardinality(open') <= Cardinality(open)
         /\ Cardinality(open') \in Nat /\ Cardinality(open) \in Nat
         /\ \A w \in Sender : /\ Cardinality(OpenOf(w)') <= Cardinality(OpenOf(w))
                              /\ Cardinality(OpenOf(w)') \in Nat /\ Cardinality(OpenOf(w)) \in Nat
<1>1. open \in SUBSET Sid /\ open' \in SUBSET open BY DEF TypeOK
<1>2. IsFiniteSet(open') /\ Cardinality(open') <= Cardinality(open) BY <1>1, FS_Subset
<1>3. \A s \in open : Sizes[s] = Sizes'[s] /\ Sizes[s] \in Nat
  BY <1>1, SizesNatural DEF Sizes
<1>4. Total \in Nat /\ Total = SumOver(Sizes', open) BY <1>3, SumNat, SumAgree DEF Total
<1>5. Total' <= Total /\ Total' \in Nat BY <1>1, <1>2, <1>3, <1>4, SumSubset, SumNat DEF Total
<1>6. ASSUME NEW w \in Sender
      PROVE  /\ Cardinality(OpenOf(w)') <= Cardinality(OpenOf(w))
             /\ Cardinality(OpenOf(w)') \in Nat /\ Cardinality(OpenOf(w)) \in Nat
  <2>1. OpenOf(w)' \subseteq OpenOf(w) /\ OpenOf(w) \subseteq open BY <1>1 DEF OpenOf
  <2>2. IsFiniteSet(OpenOf(w)) BY <2>1, FS_Subset
  <2> QED BY <2>1, <2>2, FS_Subset, FS_CardinalityType
<1> QED BY <1>2, <1>4, <1>5, <1>6, FS_CardinalityType

\* One more row, of the size that was declared.
LEMMA RowsGrow ==
  ASSUME TypeOK, TypeOK', OwnIds, Stepped, IsFiniteSet(open), NEW q \in Proc, Inserts(q)
  PROVE  /\ Total' = Total + req[q].size /\ Total \in Nat
         /\ Cardinality(open') = Cardinality(open) + 1
         /\ \A w \in Sender : IF w = req[q].who
                              THEN Cardinality(OpenOf(w)') = Cardinality(OpenOf(w)) + 1
                              ELSE Cardinality(OpenOf(w)') = Cardinality(OpenOf(w))
<1> DEFINE s == req[q].sid
<1>1. /\ s \in Sid \ open /\ open \subseteq Sid /\ req[q].size \in Nat
  BY SizesAreNatural DEF Inserts, OwnIds, Mine, TypeOK, Request
<1>2. open' = open \cup {s} /\ meta' = [meta EXCEPT ![s] = MetaOf(q)] BY DEF Inserts
<1>3. \A t \in open : meta'[t] = meta[t] BY MetaKept
<1>4. meta'[s] = MetaOf(q) BY <1>1, <1>2 DEF TypeOK
<1>5. /\ \A t \in open : Sizes[t] = Sizes'[t] /\ Sizes[t] \in Nat
      /\ Sizes'[s] = req[q].size
  BY <1>1, <1>3, <1>4, SizesNatural DEF Sizes, MetaOf
<1>6. Total \in Nat /\ Total = SumOver(Sizes', open) BY <1>5, SumNat, SumAgree DEF Total
<1>7. SumOver(Sizes', open \cup {s}) = Sizes'[s] + SumOver(Sizes', open)
  <2>1. \A t \in open \cup {s} : Sizes'[t] \in Nat BY <1>1, <1>5
  <2> QED BY <1>1, <2>1, SumAdd
<1>8. Total' = Total + req[q].size BY <1>1, <1>2, <1>5, <1>6, <1>7 DEF Total
<1>9. ASSUME NEW w \in Sender
      PROVE  IF w = req[q].who THEN Cardinality(OpenOf(w)') = Cardinality(OpenOf(w)) + 1
             ELSE Cardinality(OpenOf(w)') = Cardinality(OpenOf(w))
  <2>1. IsFiniteSet(OpenOf(w)) /\ s \notin OpenOf(w) BY <1>1, FS_Subset DEF OpenOf
  <2>2. OpenOf(w)' = IF w = req[q].who THEN OpenOf(w) \cup {s} ELSE OpenOf(w)
    BY <1>1, <1>2, <1>3, <1>4 DEF OpenOf, MetaOf
  <2> QED BY <2>1, <2>2, FS_AddElement
<1> QED BY <1>1, <1>2, <1>6, <1>8, <1>9, FS_AddElement

LEMMA FiniteKept ==
  ASSUME Typed, Stepped PROVE Finite'
<1>1. IsFiniteSet(open')
  <2>1. CASE open' \subseteq open BY <2>1, FS_Subset DEF Typed, Finite
  <2>2. CASE \E q \in Proc : Inserts(q) BY <2>2, FS_AddElement DEF Inserts, Typed, Finite
  <2> QED BY <2>1, <2>2 DEF Stepped, Shares
<1>2. IsFiniteSet(Receipts')
  <2>1. \E x : Receipts' \subseteq Receipts \cup {x}
    BY DEF Stepped, Shares, Receipts, Typed, TypeOK
  <2> QED BY <2>1, FS_AddElement, FS_Subset DEF Typed, Finite
<1> QED BY <1>1, <1>2 DEF Finite

\* Under the mutex there is room for the session that was let through.
RoomFor(p) ==
  /\ Cardinality(open) < MaxFiles
  /\ Total + req[p].size <= Quota
  /\ Cardinality(OpenOf(req[p].who)) < PerSender

Room == \A p \in Proc : Admitted(p) => RoomFor(p)

Fitting ==
  /\ Total <= Quota
  /\ Cardinality(open) <= MaxFiles
  /\ \A who \in Sender : Cardinality(OpenOf(who)) <= PerSender

LEMMA RoomKept ==
  ASSUME Typed, TypeOK', OwnIds, Exclusive, Room, Stepped PROVE Room'
<1>0. /\ TypeOK /\ IsFiniteSet(open) /\ \A s \in open : meta'[s] = meta[s]
      /\ Quota \in Nat /\ MaxFiles \in Nat /\ PerSender \in Nat
  BY MetaKept, LimitsAreNatural DEF Typed, Finite
<1> SUFFICES ASSUME NEW p \in Proc, Admitted(p)' PROVE RoomFor(p)'
  BY DEF Room
<1>1. /\ req'[p].size = req[p].size /\ req'[p].who = req[p].who
      /\ req[p].size \in Nat /\ req[p].who \in Sender
  BY <1>0, SizesAreNatural DEF Stepped, HoldsAt, TypeOK, Request
<1>2. RoomFor(p) /\ open' \subseteq open
  <2>1. CASE Admitted(p)
    <3>1. pc[p] \in Locked /\ pc'[p] # "c_part" /\ pc'[p] # "book" BY <2>1 DEF Admitted, Locked
    <3> QED BY <2>1, <3>1, InsideAlone DEF Room
  <2>2. CASE Fits(p) /\ UNCHANGED <<open, meta>>
    <3>1. Bytes(open) = Total /\ Total \in Nat
      BY <1>0, BytesIsSum, BytesNatural DEF Total, TypeOK
    <3>2. req[p].bytes \in Nat /\ req[p].count \in Nat BY <1>0 DEF TypeOK, Request
    <3>3. Cardinality(open) \in Nat BY <1>0, FS_CardinalityType
    <3> QED BY <1>0, <1>1, <2>2, <3>1, <3>2, <3>3 DEF Fits, RoomFor
  <2> QED BY <2>1, <2>2 DEF Stepped, HoldsAt
<1> QED BY <1>0, <1>1, <1>2, RowsShrink DEF RoomFor

LEMMA FittingKept ==
  ASSUME Typed, TypeOK', Kinds, OwnIds, Room, Fitting, Stepped PROVE Fitting'
<1>0. /\ TypeOK /\ IsFiniteSet(open) /\ \A s \in open : meta'[s] = meta[s]
      /\ Quota \in Nat /\ MaxFiles \in Nat /\ PerSender \in Nat
  BY MetaKept, LimitsAreNatural DEF Typed, Finite
<1>1. CASE open' \subseteq open BY <1>0, <1>1, RowsShrink DEF Fitting
<1>2. ASSUME NEW q \in Proc, Inserts(q) PROVE Fitting'
  <2>1. RoomFor(q) BY <1>2 DEF Inserts, Kinds, Admitted, Room
  <2>2. Cardinality(open) \in Nat /\ \A w \in Sender : Cardinality(OpenOf(w)) \in Nat
    BY <1>0, FS_Subset, FS_CardinalityType DEF OpenOf
  <2> QED BY <1>0, <1>2, <2>1, <2>2, RowsGrow DEF RoomFor, Fitting
<1> QED BY <1>1, <1>2 DEF Stepped, Shares

-----------------------------------------------------------------------------
(* Together.                                                               *)

IInv ==
  /\ Typed /\ Kinds /\ OwnIds /\ Unmade /\ BookedOnce
  /\ Exclusive /\ Named /\ Room /\ Fitting
  /\ VisitorsNeverCollide /\ ReceiptsTrue

LEMMA InitTyped == Init => Typed
<1> SUFFICES ASSUME Init PROVE Typed OBVIOUS
<1>1. TypeOK BY DefaultsTyped DEF Init, TypeOK, Steps
<1>2. open = {} /\ Receipts = {} BY DEF Init, Receipts
<1> QED BY <1>1, <1>2, FS_EmptySet DEF Typed, Finite

LEMMA InitHolds == Init => IInv
<1> SUFFICES ASSUME Init PROVE IInv OBVIOUS
<1>1. /\ \A p \in Proc : pc[p] = "idle"
      /\ open = {} /\ parts = {} /\ \A s \in Sid : booked[s] = 0
  BY DEF Init
<1>2. Kinds /\ OwnIds /\ Unmade /\ BookedOnce /\ Exclusive /\ Named /\ Room
  BY <1>1, InitTyped DEF Kinds, OwnIds, Unmade, BookedOnce, Exclusive, Named, Room, Admitted, Mine,
     Ended, Locked, Typed, TypeOK
<1>3. Fitting
  <2>1. Total = 0 BY <1>1, SumEmpty DEF Total
  <2>2. Cardinality(open) = 0 /\ \A w \in Sender : Cardinality(OpenOf(w)) = 0
    BY <1>1, FS_EmptySet DEF OpenOf
  <2> QED BY <2>1, <2>2, LimitsAreNatural DEF Fitting
<1> QED BY <1>1, <1>2, <1>3, InitTyped DEF IInv, VisitorsNeverCollide, ReceiptsTrue

LEMMA IInvKept == IInv /\ [Next]_vars => IInv'
<1> SUFFICES ASSUME IInv, [Next]_vars PROVE IInv' OBVIOUS
<1>1. TypeOK /\ TypeOK' BY StepTyped DEF IInv, Typed
<1>2. Stepped BY <1>1, StepMoves DEF IInv, Stepped
<1>3. Finite' BY <1>2, FiniteKept DEF IInv
<1>4. Kinds' /\ OwnIds' /\ Unmade' /\ BookedOnce' /\ Exclusive'
  BY <1>1, <1>2, KindsKept, OwnIdsKept, UnmadeKept, BookedOnceKept, ExclusiveKept DEF IInv
<1>5. Named' /\ VisitorsNeverCollide' /\ ReceiptsTrue'
  BY <1>1, <1>2, NamedKept, VisitorsKept, ReceiptsKept DEF IInv
<1>6. Room' /\ Fitting' BY <1>1, <1>2, RoomKept, FittingKept DEF IInv
<1> QED BY <1>1, <1>3, <1>4, <1>5, <1>6 DEF IInv, Typed

\* What open sessions reserve never exceeds the quota, the number of files or the
\* sessions of one sender, for any number of visitors (ReservationsFit; admit
\* keeps dropMu until the row is there).
THEOREM ReservationsAlwaysFit == Spec => []ReservationsFit
<1>1. IInv => ReservationsFit
  BY BytesIsSum DEF IInv, Typed, Finite, Fitting, Total, TypeOK, ReservationsFit
<1> QED BY <1>1, InitHolds, IInvKept, PTL DEF Spec

\* No creation meets the name of another visitor's session, and no completion a
\* file of another visitor (VisitorsNeverCollide).
THEOREM NamesAreTheirOwn == Spec => []VisitorsNeverCollide
<1>1. IInv => VisitorsNeverCollide BY DEF IInv
<1> QED BY <1>1, InitHolds, IInvKept, PTL DEF Spec

\* A receipt is written at most once, and only for what was published
\* (ReceiptsTrue).
THEOREM ReceiptsAreTrue == Spec => []ReceiptsTrue
<1>1. IInv => ReceiptsTrue BY DEF IInv
<1> QED BY <1>1, InitHolds, IInvKept, PTL DEF Spec

=============================================================================
