--------------------------- MODULE AccountsProofs ---------------------------
(***************************************************************************)
(* Theorems about Accounts, for any number of users and of concurrent      *)
(* requests, any budget of requests and any length of time.                *)
(***************************************************************************)
EXTENDS Accounts, FiniteSetTheorems, TLAPS

-----------------------------------------------------------------------------
(* Types.                                                                  *)

Steps == {"idle", "login", "code", "session", "disable", "clear", "recover", "renew", "change",
          "enable", "count", "others", "ask", "write", "revoke", "remove"}
\* A request at one of these has read the row of its user; at some of them it
\* had a second factor.
WithRow == {"login", "code", "session", "disable", "clear", "recover", "renew", "change",
            "enable", "count"}
Enrolled == {"code", "session", "disable", "clear", "recover", "renew"}

Session == [id : Nat, user : Users, pw : Nat, late : BOOLEAN,
            factor : {"password", "trusted", "totp", "own"}]
Waiting == [id : Nat, user : Users]
Asked == [pc : Steps \ {"idle"}, u : Users, row : Row \cup {None} \cup [old : Row, new : Row],
          sid : Nat \cup {None}, id : Nat, late : BOOLEAN]
Used == Code \cup ({"interval"} \X (Nat \cup {None}) \X Nat)

Types ==
  /\ user \in [Users -> Row \cup {None}]
  /\ session \subseteq Session
  /\ pending \subseteq Waiting
  /\ setup \in [Users -> Nat \cup {None}]
  /\ trust \subseteq Users \X Nat
  /\ clock \in 1..MaxClock /\ left \in 0..Budget
  /\ req \in [Requests -> Asked \cup {Idle}]
  /\ taken \in [Users -> SUBSET Used]
  /\ twice \in BOOLEAN /\ lost \subseteq Users

\* What a request holds depends on where it is, and sessions have an account.
Held ==
  /\ \A s \in session : Exists(s.user)
  /\ \A r \in Requests :
       /\ req[r].pc \in WithRow => req[r].row \in Row
       /\ req[r].pc \in Enrolled => req[r].row.totp # None
       /\ req[r].pc = "write" => req[r].row \in [old : Row, new : Row]

Typed == Types /\ Held

\* A request that takes a step, one that ends, and the others.
Rest(r) == \A q \in Requests \ {r} : req'[q] = req[q]
Kept(q) ==
  /\ req'[q].u = req[q].u /\ req'[q].row = req[q].row /\ req'[q].sid = req[q].sid
  /\ req'[q].id = req[q].id

LEMMA IdleOrAsked ==
  ASSUME Types, NEW r \in Requests
  PROVE  /\ req[r] = Idle <=> req[r].pc = "idle"
         /\ req[r].pc # "idle" => req[r] \in Asked
<1>1. req[r] \in Asked \cup {Idle} BY DEF Types
<1>2. Idle.pc = "idle" BY DEF Idle
<1>3. \A q \in Asked : q.pc # "idle" BY DEF Asked
<1> QED BY <1>1, <1>2, <1>3

LEMMA Goes ==
  ASSUME Types, NEW r \in Requests, req[r].pc # "idle", NEW pc \in Steps \ {"idle"}, Goto(r, pc)
  PROVE  /\ req' \in [Requests -> Asked \cup {Idle}]
         /\ req'[r].pc = pc /\ Kept(r) /\ req'[r].late = req[r].late
         /\ Rest(r)
<1>1. req[r] \in Asked BY IdleOrAsked
<1> DEFINE q == [req[r] EXCEPT !.pc = pc]
<1>2. /\ q \in Asked /\ q.pc = pc /\ q.u = req[r].u /\ q.row = req[r].row
      /\ q.sid = req[r].sid /\ q.id = req[r].id /\ q.late = req[r].late
  BY <1>1 DEF Asked
<1>3. req' = [req EXCEPT ![r] = q] BY DEF Goto
<1> HIDE DEF q
<1> QED BY <1>2, <1>3 DEF Types, Kept, Rest

LEMMA Ends ==
  ASSUME Types, NEW r \in Requests, End(r)
  PROVE  /\ req' \in [Requests -> Asked \cup {Idle}]
         /\ req'[r].pc = "idle" /\ Rest(r)
  BY DEF Types, End, Idle, Rest

\* A request begins: with a session or a waiting login, or with neither.
LEMMA Begins ==
  ASSUME Types, NEW r \in Requests, NEW pc \in Steps \ {"idle"}, NEW u \in Users,
         NEW sid \in Nat \cup {None}, user[u] \in Row,
         Begin(r, Request(pc, u, sid))
  PROVE  /\ req' \in [Requests -> Asked \cup {Idle}]
         /\ req[r].pc = "idle" /\ req'[r].pc = pc /\ req'[r].u = u /\ req'[r].row = user[u]
         /\ req'[r].sid = sid /\ req'[r].id = left /\ req'[r].late = FALSE
         /\ Rest(r) /\ left > 0 /\ left' = left - 1 /\ left' \in 0..Budget
<1> DEFINE q == Request(pc, u, sid)
<1>1. left \in Nat /\ Budget \in Nat /\ left \in 0..Budget BY NumbersAssumption DEF Types
<1>2. /\ q \in Asked /\ q.pc = pc /\ q.u = u /\ q.row = user[u] /\ q.sid = sid
      /\ q.id = left /\ q.late = FALSE
  BY <1>1 DEF Asked, Request
<1>3. req' = [req EXCEPT ![r] = q] /\ req[r] = Idle /\ left > 0 /\ left' = left - 1
  BY DEF Begin
<1> HIDE DEF q
<1> QED BY <1>1, <1>2, <1>3 DEF Types, Idle, Rest

LEMMA MarksLate ==
  ASSUME Types, NEW r \in Requests, NEW u, MarkLate(r, u)
  PROVE  /\ req' \in [Requests -> Asked \cup {Idle}]
         /\ req'[r].pc = "idle"
         /\ \A q \in Requests \ {r} :
              /\ req'[q].pc = req[q].pc
              /\ req[q].pc # "idle" =>
                   /\ Kept(q)
                   /\ req[q].late => req'[q].late
                   /\ req[q].u = u => req'[q].late
<1>1. req'[r] = Idle BY DEF MarkLate
<1>2. ASSUME NEW q \in Requests \ {r}
      PROVE  /\ req'[q] \in Asked \cup {Idle}
             /\ req'[q].pc = req[q].pc
             /\ req[q].pc # "idle" =>
                  /\ Kept(q)
                  /\ req[q].late => req'[q].late
                  /\ req[q].u = u => req'[q].late
  <2>1. CASE req[q] # Idle /\ req[q].u = u
    <3> DEFINE n == [req[q] EXCEPT !.late = TRUE]
    <3>1. req[q] \in Asked BY <2>1 DEF Types
    <3>2. /\ n \in Asked /\ n.pc = req[q].pc /\ n.u = req[q].u /\ n.row = req[q].row
          /\ n.sid = req[q].sid /\ n.id = req[q].id /\ n.late = TRUE
      BY <3>1 DEF Asked
    <3>3. req'[q] = n BY <2>1 DEF MarkLate
    <3> HIDE DEF n
    <3> QED BY <3>2, <3>3 DEF Kept
  <2>2. CASE ~(req[q] # Idle /\ req[q].u = u)
    <3>1. req'[q] = req[q] BY <2>2 DEF MarkLate
    <3> QED BY <2>2, <3>1, IdleOrAsked DEF Kept, Types
  <2> QED BY <2>1, <2>2
<1>3. req' = [q \in Requests |-> req'[q]] BY DEF MarkLate
<1> QED BY <1>1, <1>2, <1>3 DEF Idle

\* A row that exists is a row, and a row exists.
LEMMA Rows ==
  ASSUME Types, NEW u \in Users
  PROVE  /\ Exists(u) <=> user[u] \in Row
         /\ Enabled(u) => Exists(u)
  BY NoneAssumption DEF Types, Exists, Enabled

LEMMA UpdateTyped ==
  ASSUME Types, NEW u \in Users, NEW row, Exists(u) => row \in Row, Update(u, row)
  PROVE  /\ user' \in [Users -> Row \cup {None}]
         /\ \A v \in Users : Exists(v)' <=> Exists(v)
         /\ \A v \in Users \ {u} : user'[v] = user[v]
         /\ user'[u] = IF Exists(u) THEN row ELSE user[u]
  BY NoneAssumption DEF Types, Exists, Update

\* What the steps of a request leave to be shown: the types of what they write.
LEMMA HeldAfter ==
  ASSUME Typed, NEW r \in Requests, Rest(r),
         \A u \in Users : Exists(u)' <=> Exists(u),
         \A s \in session' : s.user \in Users /\ Exists(s.user),
         /\ req'[r].pc \in WithRow => req'[r].row \in Row
         /\ req'[r].pc \in Enrolled => req'[r].row.totp # None
         /\ req'[r].pc = "write" => req'[r].row \in [old : Row, new : Row]
  PROVE  Held'
  BY DEF Typed, Held, Rest

\* The steps that begin a request change nothing else.
LEMMA BeginTyped ==
  ASSUME Typed, NEW r \in Requests,
         Login(r) \/ Second(r) \/ ChangeStart(r) \/ EnableStart(r) \/ DisableStart(r) \/ RecoverStart(r)
  PROVE  /\ Typed'
         /\ \E pc \in {"login", "code", "change", "enable", "disable", "recover"}, u \in Users, sid \in Nat \cup {None} :
              /\ req[r].pc = "idle" /\ req'[r].pc = pc /\ req'[r].u = u /\ req'[r].row = user[u]
              /\ user[u] \in Row /\ Exists(u)
              /\ req'[r].sid = sid /\ req'[r].id = left /\ req'[r].late = FALSE
              /\ sid \in {None} \cup {s.id : s \in session} \cup {p.id : p \in pending}
              /\ Rest(r) /\ left > 0 /\ left' = left - 1
         /\ UNCHANGED <<user, session, pending, setup, trust, clock, taken, twice, lost>>
<1>0. Types BY DEF Typed
<1>1. UNCHANGED <<user, session, pending, setup, trust, clock, taken, twice, lost>>
  BY DEF Login, Second, ChangeStart, EnableStart, DisableStart, RecoverStart, Own
<1>2. PICK pc \in {"login", "code", "change", "enable", "disable", "recover"}, u \in Users, sid \in Nat \cup {None} :
        /\ Begin(r, Request(pc, u, sid)) /\ Enabled(u)
        /\ pc \in Enrolled => user[u].totp # None
        /\ sid \in {None} \cup {s.id : s \in session} \cup {p.id : p \in pending}
  <2>1. CASE Login(r) BY <2>1 DEF Login, Enrolled
  <2>2. CASE Second(r) BY <1>0, <2>2 DEF Second, Types, Waiting, Enrolled
  <2>3. ASSUME NEW pc, Own(r, pc, {TRUE})
        PROVE  \E u \in Users, sid \in Nat \cup {None} :
                 /\ Begin(r, Request(pc, u, sid)) /\ Enabled(u)
                 /\ user[u].totp # None
                 /\ sid \in {None} \cup {s.id : s \in session} \cup {p.id : p \in pending}
    <3>1. PICK s \in session : /\ Enabled(s.user) /\ (user[s.user].totp # None) \in {TRUE}
                               /\ Begin(r, Request(pc, s.user, s.id))
      BY <2>3, Zenon DEF Own
    <3>2. user[s.user].totp # None BY <3>1, Zenon
    <3> QED BY <1>0, <3>1, <3>2 DEF Types, Session
  <2>4. CASE ChangeStart(r) BY <1>0, <2>4 DEF ChangeStart, Own, Types, Session, Enrolled
  <2>5. CASE EnableStart(r) BY <1>0, <2>5 DEF EnableStart, Own, Types, Session, Enrolled
  <2>6. CASE DisableStart(r) BY <2>3, <2>6 DEF DisableStart
  <2>7. CASE RecoverStart(r) BY <2>3, <2>7 DEF RecoverStart
  <2> QED BY <2>1, <2>2, <2>4, <2>5, <2>6, <2>7
<1>3. user[u] \in Row /\ Exists(u) BY <1>0, <1>2, Rows
<1>4. pc \in Steps \ {"idle"} /\ pc # "write" BY DEF Steps
<1>5. /\ req' \in [Requests -> Asked \cup {Idle}]
      /\ req[r].pc = "idle" /\ req'[r].pc = pc /\ req'[r].u = u /\ req'[r].row = user[u]
      /\ req'[r].sid = sid /\ req'[r].id = left /\ req'[r].late = FALSE
      /\ Rest(r) /\ left > 0 /\ left' = left - 1 /\ left' \in 0..Budget
  BY <1>0, <1>2, <1>3, <1>4, Begins
<1>6. Types' BY <1>0, <1>1, <1>5 DEF Types
<1>7. Held' BY <1>1, <1>2, <1>3, <1>4, <1>5, HeldAfter DEF Typed, Held, Exists, Types, Session
<1> QED BY <1>1, <1>2, <1>3, <1>5, <1>6, <1>7 DEF Typed

-----------------------------------------------------------------------------
(* What a step does, as far as the invariants depend on it.                *)

\* Requests that will make a session, and those that will end others of their
\* user because of a factor, and because of a password.
Signing == {"login", "code", "session"}
OverFactor == {"count", "others"}
OverPassword == {"others", "revoke"}
Locks == {"write", "remove", "revoke"}

Governs(row) == row.role = "admin" /\ ~row.disabled
Another(u) == \E v \in Admins : v # u

\* A request ends the other sessions of its user.
Clears(q) ==
  /\ session' = {s \in session : s.user # req[q].u \/ s.id = req[q].sid}
  /\ \A p \in Requests : req'[p].pc # "idle" /\ req'[p].u = req[q].u => req'[p].late
  /\ UNCHANGED <<user, lost>>

MovesAt(q) ==
  /\ req'[q].pc # "idle" =>
       \/ req[q].pc # "idle" /\ req'[q].id = req[q].id /\ req'[q].sid \in {req[q].sid, None}
       \/ /\ req[q].pc = "idle" /\ req'[q].id = left /\ left > 0 /\ left' = left - 1
          /\ req'[q].sid \in {None} \cup {s.id : s \in session} \cup {p.id : p \in pending}
          /\ UNCHANGED <<user, session, pending, taken, lost>>
  /\ req'[q].pc \in {"recover", "renew"} => req[q].pc \in {"recover", "renew", "idle"}
  /\ req'[q].pc \in Locks => req[q].pc \in Locks \/ AdminFree
  /\ req'[q].pc = "write" =>
       \/ req[q].pc = "write" /\ Kept(q)
       \/ /\ UNCHANGED <<user, lost>>
          /\ Governs(req'[q].row.old) /\ ~Governs(req'[q].row.new) => Another(req'[q].u)
  /\ req'[q].pc = "remove" =>
       \/ req[q].pc = "remove" /\ Kept(q)
       \/ UNCHANGED <<user, lost>> /\ (req'[q].u \in Admins => Another(req'[q].u))
  /\ req'[q].pc \in Signing /\ ~req'[q].late =>
       \/ /\ req[q].pc \in Signing /\ ~req[q].late /\ Kept(q)
          /\ req'[q].pc = "login" => req[q].pc = "login"
       \/ req[q].pc = "idle" /\ Exists(req'[q].u) /\ req'[q].row = user[req'[q].u]
  /\ req[q].pc \in OverFactor => Clears(q) \/ (req'[q].pc \in OverFactor /\ Kept(q))
  /\ req[q].pc \in OverPassword => Clears(q) \/ (req'[q].pc \in OverPassword /\ Kept(q))

Stays(q) ==
  /\ req'[q].pc = req[q].pc
  /\ req[q].pc # "idle" => Kept(q) /\ (req[q].late => req'[q].late)

Alone ==
  \/ \A q \in Requests : Stays(q)
  \/ \E r \in Requests : \A q \in Requests \ {r} : Stays(q)

LEMMA StaysMoves == ASSUME NEW q, Stays(q) PROVE MovesAt(q)
  BY DEF Stays, MovesAt, Kept, Locks, Signing, OverFactor, OverPassword

\* Codes: what was spent, what is left, and the counter.
Spends(u, code) ==
  /\ Exists(u)
  /\ taken' = [taken EXCEPT ![u] = @ \cup {code}]
  /\ twice' = (twice \/ code \in taken[u])
  /\ \/ /\ code[1] = "interval" /\ user[u].counter < code[3]
        /\ user'[u].counter = code[3] /\ user'[u].codes = user[u].codes
     \/ /\ code \in user[u].codes
        /\ user'[u].codes = user[u].codes \ {code} /\ user'[u].counter = user[u].counter
  /\ \A v \in Users \ {u} : user'[v] = user[v]

NoneSpent(u) ==
  \/ /\ taken'[u] = taken[u]
     /\ Exists(u)' => /\ Exists(u) /\ user'[u].codes = user[u].codes
                      /\ user'[u].counter >= user[u].counter
  \/ /\ taken'[u] = {}
     /\ Exists(u)' => \/ user'[u].codes = {}
                      \/ \E r \in Requests : /\ req[r].pc = "enable" /\ req'[r].pc = "count"
                                             /\ user'[u].codes = NewCodes(req[r].id)
  \/ /\ taken'[u] = taken[u]
     /\ \E r \in Requests :
          /\ req[r].pc = "renew" /\ req'[r].pc = "idle" /\ req[r].u = u
          /\ Exists(u)' => /\ Exists(u) /\ user'[u].codes = NewCodes(req[r].id)
                           /\ user'[u].counter = user[u].counter

CodesMove ==
  \/ twice' = twice /\ \A u \in Users : NoneSpent(u)
  \/ \E u \in Users, code \in Used : Spends(u, code)

AdminsMove ==
  /\ lost \subseteq lost'
  /\ lost' = {} =>
       \/ Admins \subseteq Admins'
       \/ \E r \in Requests :
            /\ req[r].pc = "write" /\ req'[r].pc # "write" /\ Admins \ {req[r].u} \subseteq Admins'
            /\ req[r].u \in Admins \ Admins' => Governs(req[r].row.old) /\ ~Governs(req[r].row.new)
       \/ \E r \in Requests :
            req[r].pc = "remove" /\ req'[r].pc # "remove" /\ Admins \ {req[r].u} \subseteq Admins'

\* Sessions: where they come from, and what a change of the row asks of them.
Signs(s) ==
  \E r \in Requests :
    /\ req[r].pc \in Signing /\ req'[r].pc = "idle" /\ Exists(req[r].u) /\ UNCHANGED <<user, lost>>
    /\ s.id = req[r].id /\ s.user = req[r].u /\ s.pw = req[r].row.pw /\ s.late = req[r].late
    /\ s.factor = "password" => req[r].pc = "login" /\ req[r].row.totp = None
Rewrites(s) ==
  \E t \in session :
    /\ t.id = s.id /\ t.user = s.user /\ t.late = s.late
    /\ \/ s.factor = t.factor /\ s.pw = user'[s.user].pw
       \/ s.factor = "own" /\ s.pw = t.pw

SessionsMove ==
  /\ \A s \in session' : s \in session \/ Signs(s) \/ Rewrites(s)
  /\ \A p \in pending' : \/ p \in pending
                        \/ \E r \in Requests : req[r].pc = "login" /\ req'[r].pc = "idle" /\ p.id = req[r].id

RowsMove ==
  \A u \in Users : Exists(u) =>
    IF Exists(u)'
    THEN /\ user'[u].totp # None /\ user[u].totp = None =>
              \E r \in Requests :
                /\ req'[r].pc = "count" /\ req'[r].u = u
                /\ \A s \in session' : s.user = u /\ s.id = req'[r].sid => s.factor = "own"
         /\ user'[u].pw # user[u].pw /\ u \notin lost' =>
              \E r \in Requests :
                /\ req'[r].pc \in OverPassword /\ req'[r].u = u
                /\ \A s \in session' : s.user = u /\ s.id = req'[r].sid => s.pw = user'[u].pw
    ELSE \A q \in Requests : req'[q].pc \in Signing /\ req'[q].u = u => req'[q].late

Moves == Alone /\ left' \in {left, left - 1}
Shares == CodesMove /\ AdminsMove /\ SessionsMove /\ RowsMove

LEMMA CodesRest ==
  ASSUME Types, UNCHANGED <<user, taken, twice>> PROVE CodesMove
  BY DEF CodesMove, NoneSpent, Exists, Types, Row

LEMMA RowsRest ==
  ASSUME Types, UNCHANGED <<user, lost>> PROVE AdminsMove /\ RowsMove
  BY DEF AdminsMove, RowsMove, Admins, Enabled, Exists

LEMMA AllRest ==
  ASSUME Types, UNCHANGED <<user, session, pending, taken, twice, lost>>
  PROVE  Shares
  BY CodesRest, RowsRest DEF Shares, SessionsMove

LEMMA RestAlone ==
  ASSUME NEW r \in Requests, Rest(r), MovesAt(r), left' \in {left, left - 1}
  PROVE  Moves /\ \A q \in Requests : MovesAt(q)
<1>1. \A q \in Requests \ {r} : Stays(q) BY DEF Rest, Stays, Kept
<1> QED BY <1>1, StaysMoves DEF Moves, Alone

LEMMA BeginMoves ==
  ASSUME Typed, NEW r \in Requests,
         Login(r) \/ Second(r) \/ ChangeStart(r) \/ EnableStart(r) \/ DisableStart(r) \/ RecoverStart(r)
  PROVE  Typed' /\ (\A p \in Requests : MovesAt(p)) /\ Shares /\ Moves
<1>1. PICK pc \in {"login", "code", "change", "enable", "disable", "recover"}, u \in Users, sid \in Nat \cup {None} :
        /\ req[r].pc = "idle" /\ req'[r].pc = pc /\ req'[r].u = u /\ req'[r].row = user[u]
        /\ user[u] \in Row /\ Exists(u)
        /\ req'[r].sid = sid /\ req'[r].id = left /\ req'[r].late = FALSE
        /\ sid \in {None} \cup {s.id : s \in session} \cup {p.id : p \in pending}
        /\ Rest(r) /\ left > 0 /\ left' = left - 1
  BY BeginTyped
<1>2. Typed' /\ UNCHANGED <<user, session, pending, setup, trust, clock, taken, twice, lost>>
  BY BeginTyped
<1>3. MovesAt(r) BY <1>1, <1>2 DEF MovesAt, Locks, Signing, OverFactor, OverPassword
<1> QED BY <1>1, <1>2, <1>3, AllRest, RestAlone DEF Typed

\* The end of a login: a session, or one that waits for a code.
LEMMA LoginEndMoves ==
  ASSUME Typed, NEW r \in Requests, LoginEnd(r)
  PROVE  Typed' /\ (\A p \in Requests : MovesAt(p)) /\ Shares /\ Moves
<1> DEFINE q == req[r]
<1>0. Types /\ Held /\ q.pc = "login" /\ End(r) BY DEF Typed, LoginEnd
<1>1. /\ q \in Asked /\ q.u \in Users /\ q.id \in Nat /\ q.row \in Row /\ q.late \in BOOLEAN
  BY <1>0, IdleOrAsked DEF Held, WithRow, Asked
<1>2. /\ req' \in [Requests -> Asked \cup {Idle}] /\ req'[r].pc = "idle" /\ Rest(r)
  BY <1>0, Ends
<1>3. UNCHANGED <<user, setup, trust, clock, left, taken, twice, lost>> BY DEF LoginEnd
<1>4. /\ \A s \in session' : s \in session \/ (Signs(s) /\ s \in Session /\ Exists(s.user))
      /\ \A p \in pending' : p \in pending \/ p = [id |-> q.id, user |-> q.u]
  <2>1. CASE UNCHANGED session BY <2>1 DEF LoginEnd
  <2>2. ASSUME NEW factor \in {"password", "trusted"}, factor = "password" => q.row.totp = None,
               NewSession(r, factor), UNCHANGED pending
        PROVE  /\ \A s \in session' : s \in session \/ (Signs(s) /\ s \in Session /\ Exists(s.user))
               /\ \A p \in pending' : p \in pending \/ p = [id |-> q.id, user |-> q.u]
    <3> DEFINE n == SessionOf(q, factor)
    <3>1. /\ n \in Session /\ n.id = q.id /\ n.user = q.u /\ n.pw = q.row.pw /\ n.late = q.late
          /\ n.factor = factor
      BY <1>1 DEF SessionOf, Session, Row
    <3>2. session' = IF Exists(q.u) THEN session \cup {n} ELSE session
      BY <2>2 DEF NewSession
    <3> HIDE DEF n
    <3>3. Exists(q.u) => Signs(n)
      BY <1>0, <1>2, <1>3, <2>2, <3>1 DEF Signs, Signing
    <3> QED BY <2>2, <3>1, <3>2, <3>3
  <2>3. CASE UNCHANGED pending /\ NewSession(r, IF q.row.totp = None THEN "password" ELSE "trusted")
    BY <2>2, <2>3
  <2> QED BY <2>1, <2>3 DEF LoginEnd
<1>5. pending' \subseteq Waiting BY <1>0, <1>1, <1>4 DEF Types, Waiting
<1>6. Types' BY <1>0, <1>2, <1>3, <1>4, <1>5 DEF Types
<1>7. Held'
  BY <1>0, <1>2, <1>3, <1>4, HeldAfter DEF Held, Exists, WithRow, Enrolled, Session, Types
<1>8. MovesAt(r) BY <1>0, <1>2 DEF MovesAt, Locks, Signing, OverFactor, OverPassword
<1>9. SessionsMove BY <1>0, <1>2, <1>4 DEF SessionsMove
<1> QED BY <1>0, <1>2, <1>3, <1>6, <1>7, <1>8, <1>9, CodesRest, RowsRest, RestAlone DEF Shares, Typed

\* The end of a login with a second factor.
LEMMA SecondEndMoves ==
  ASSUME Typed, NEW r \in Requests, SecondEnd(r)
  PROVE  Typed' /\ (\A p \in Requests : MovesAt(p)) /\ Shares /\ Moves
<1> DEFINE q == req[r]
           n == SessionOf(q, "totp")
<1>0. Types /\ Held /\ q.pc = "session" /\ End(r) BY DEF Typed, SecondEnd
<1>1. /\ q \in Asked /\ q.u \in Users /\ q.id \in Nat /\ q.row \in Row /\ q.late \in BOOLEAN
      /\ q.row.totp \in Nat
  BY <1>0, IdleOrAsked DEF Held, WithRow, Enrolled, Asked, Row
<1>2. /\ req' \in [Requests -> Asked \cup {Idle}] /\ req'[r].pc = "idle" /\ Rest(r)
  BY <1>0, Ends
<1>3. UNCHANGED <<user, setup, clock, left, taken, twice, lost>> BY DEF SecondEnd
<1>4. /\ n \in Session /\ n.id = q.id /\ n.user = q.u /\ n.pw = q.row.pw /\ n.late = q.late
      /\ n.factor = "totp"
  BY <1>1 DEF SessionOf, Session, Row
<1>5. session' = IF Exists(q.u) THEN session \cup {n} ELSE session BY DEF SecondEnd, NewSession
<1>a. /\ pending' \subseteq pending
      /\ trust' \in {trust, trust \cup {<<q.u, q.row.totp>>}}
  BY DEF SecondEnd
<1> HIDE DEF n
<1>6. Exists(q.u) => Signs(n) BY <1>0, <1>2, <1>3, <1>4 DEF Signs, Signing
<1>7. Types' BY <1>0, <1>1, <1>2, <1>3, <1>4, <1>5, <1>a DEF Types
<1>8. Held'
  <2>1. \A s \in session' : s.user \in Users /\ Exists(s.user)
    BY <1>0, <1>1, <1>4, <1>5 DEF Types, Held, Session
  <2> QED BY <1>2, <1>3, <2>1, HeldAfter DEF Exists, WithRow, Enrolled
<1>9. MovesAt(r) BY <1>0, <1>2 DEF MovesAt, Locks, Signing, OverFactor, OverPassword
<1>b. SessionsMove BY <1>5, <1>6, <1>a DEF SessionsMove
<1> QED BY <1>0, <1>2, <1>3, <1>7, <1>8, <1>9, <1>b, CodesRest, RowsRest, RestAlone DEF Shares, Typed

\* A code that is compared, and taken.
LEMMA VerifyMoves ==
  ASSUME Typed, NEW r \in Requests, Verify(r)
  PROVE  Typed' /\ (\A p \in Requests : MovesAt(p)) /\ Shares /\ Moves
<1> DEFINE q == req[r]
           u == q.u
<1>0. Types /\ Held /\ q.pc \in {"code", "disable", "recover"} BY DEF Typed, Verify, After
<1>1. /\ q \in Asked /\ u \in Users /\ q.row \in Row /\ q.row.totp \in Nat
  BY <1>0, IdleOrAsked DEF Held, WithRow, Enrolled, Asked, Row
<1>2. UNCHANGED <<session, pending, setup, trust, clock, left, lost>> BY DEF Verify
<1>3. CASE Refused(r)
  <2>1. /\ req' \in [Requests -> Asked \cup {Idle}] /\ req'[r].pc = "idle" /\ Rest(r)
        /\ UNCHANGED <<user, taken, twice>>
    BY <1>0, <1>3, Ends DEF Refused
  <2>2. Types' BY <1>0, <1>2, <2>1 DEF Types
  <2>3. Held' BY <1>0, <1>2, <2>1, HeldAfter DEF Held, Exists, WithRow, Enrolled, Types, Session
  <2>4. MovesAt(r) BY <1>0, <2>1 DEF MovesAt, Locks, Signing, OverFactor, OverPassword
  <2> QED BY <1>0, <1>2, <2>1, <2>2, <2>3, <2>4, AllRest, RestAlone DEF Typed
<1>4. ASSUME NEW code \in Used, NEW row \in Row, Exists(u), Update(u, row), Take(u, code),
             Goto(r, After[q.pc]),
             row.pw = user[u].pw, row.role = user[u].role, row.disabled = user[u].disabled,
             row.totp = user[u].totp,
             \/ /\ code[1] = "interval" /\ user[u].counter < code[3]
                /\ row.counter = code[3] /\ row.codes = user[u].codes
             \/ /\ code \in user[u].codes
                /\ row.codes = user[u].codes \ {code} /\ row.counter = user[u].counter
      PROVE  Typed' /\ (\A p \in Requests : MovesAt(p)) /\ Shares /\ Moves
  <2> DEFINE pc == After[q.pc]
  <2>1. /\ pc = IF q.pc = "code" THEN "session" ELSE IF q.pc = "disable" THEN "clear" ELSE "renew"
        /\ pc \in {"session", "clear", "renew"} /\ pc \in Steps \ {"idle"}
    BY <1>0 DEF After, Steps
  <2>2. /\ req' \in [Requests -> Asked \cup {Idle}] /\ req'[r].pc = pc /\ Kept(r)
        /\ req'[r].late = req[r].late /\ Rest(r)
    BY <1>0, <1>4, <2>1, Goes
  <2>3. /\ user' \in [Users -> Row \cup {None}] /\ \A v \in Users : Exists(v)' <=> Exists(v)
        /\ \A v \in Users \ {u} : user'[v] = user[v]
        /\ user'[u] = row
    BY <1>0, <1>1, <1>4, UpdateTyped
  <2>4. /\ taken' = [taken EXCEPT ![u] = @ \cup {code}] /\ twice' = (twice \/ code \in taken[u])
    BY <1>4 DEF Take
  <2>5. taken' \in [Users -> SUBSET Used] /\ twice' \in BOOLEAN
    BY <1>0, <1>1, <2>4 DEF Types
  <2>6. Types' BY <1>0, <1>2, <2>2, <2>3, <2>5 DEF Types
  <2>7. Held'
    BY <1>0, <1>2, <2>1, <2>2, <2>3, HeldAfter DEF Held, Kept, WithRow, Enrolled, Types, Session
  <2>8. MovesAt(r)
    BY <1>0, <2>1, <2>2 DEF MovesAt, Kept, Locks, Signing, OverFactor, OverPassword
  <2>9. Spends(u, code) BY <1>4, <2>3, <2>4 DEF Spends
  <2>a. AdminsMove BY <1>1, <1>2, <1>4, <2>3 DEF AdminsMove, Admins, Enabled
  <2>b. RowsMove BY <1>1, <1>2, <1>4, <2>3 DEF RowsMove
  <2>c. SessionsMove BY <1>2 DEF SessionsMove
  <2> QED BY <1>0, <1>1, <1>2, <2>2, <2>6, <2>7, <2>8, <2>9, <2>a, <2>b, <2>c, RestAlone
          DEF Shares, CodesMove, Typed
<1>5. ASSUME NEW c \in Window, CounterMoves(u, c), TakeInterval(r, c)
      PROVE  Typed' /\ (\A p \in Requests : MovesAt(p)) /\ Shares /\ Moves
  <2> DEFINE row == [user[u] EXCEPT !.counter = c]
             code == <<"interval", q.row.totp, c>>
  <2>1. Exists(u) /\ user[u].counter < c BY <1>5 DEF CounterMoves
  <2>2. user[u] \in Row /\ c \in Nat BY <1>0, <1>1, <2>1, Rows DEF Window, Types
  <2>3. /\ row \in Row /\ row.pw = user[u].pw /\ row.role = user[u].role /\ row.totp = user[u].totp
        /\ row.disabled = user[u].disabled /\ row.counter = c /\ row.codes = user[u].codes
    BY <2>2 DEF Row
  <2>4. code \in Used /\ code[1] = "interval" /\ code[3] = c BY <1>1, <2>2 DEF Used
  <2>5. Update(u, row) /\ Take(u, code) /\ Goto(r, After[q.pc]) BY <1>5 DEF TakeInterval
  <2> HIDE DEF row, code
  <2> QED BY <1>4, <2>1, <2>3, <2>4, <2>5
<1>6. ASSUME NEW code \in q.row.codes, ListIsSame(u, q.row.codes), TakeRecovery(r, code)
      PROVE  Typed' /\ (\A p \in Requests : MovesAt(p)) /\ Shares /\ Moves
  <2> DEFINE row == [user[u] EXCEPT !.codes = q.row.codes \ {code}]
  <2>1. Exists(u) /\ user[u].codes = q.row.codes BY <1>6 DEF ListIsSame
  <2>2. user[u] \in Row BY <1>0, <1>1, <2>1, Rows
  <2>3. /\ row \in Row /\ row.pw = user[u].pw /\ row.role = user[u].role /\ row.totp = user[u].totp
        /\ row.disabled = user[u].disabled /\ row.counter = user[u].counter
        /\ row.codes = user[u].codes \ {code}
    BY <2>1, <2>2 DEF Row
  <2>4. code \in Used /\ code \in user[u].codes BY <1>1, <1>6, <2>1 DEF Used, Row
  <2>5. Update(u, row) /\ Take(u, code) /\ Goto(r, After[q.pc]) BY <1>6 DEF TakeRecovery
  <2> HIDE DEF row
  <2> QED BY <1>4, <2>1, <2>3, <2>4, <2>5
<1> QED BY <1>3, <1>5, <1>6 DEF Verify, TakeInterval, TakeRecovery

LEMMA ChangeMoves ==
  ASSUME Typed, NEW r \in Requests, Change(r)
  PROVE  Typed' /\ (\A p \in Requests : MovesAt(p)) /\ Shares /\ Moves
<1> DEFINE q == req[r]
           u == q.u
           row == [user[u] EXCEPT !.pw = q.id, !.must = FALSE,
                                  !.role = q.row.role, !.disabled = q.row.disabled]
           f(s) == IF Mine(s, q) THEN [s EXCEPT !.pw = q.id] ELSE s
<1>0. Types /\ Held /\ q.pc = "change" BY DEF Typed, Change
<1>1. /\ q \in Asked /\ u \in Users /\ q.row \in Row /\ q.id \in Nat
  BY <1>0, IdleOrAsked DEF Held, WithRow, Asked
<1>2. /\ req' \in [Requests -> Asked \cup {Idle}] /\ req'[r].pc = "others" /\ Kept(r)
      /\ req'[r].late = req[r].late /\ Rest(r)
  <2>1. "others" \in Steps \ {"idle"} /\ Goto(r, "others") BY DEF Steps, Change
  <2> QED BY <1>0, <2>1, Goes
<1>3. UNCHANGED <<pending, setup, trust, clock, left, taken, twice>> BY DEF Change
<1>4. Exists(u) => /\ user[u] \in Row /\ row \in Row /\ row.pw = q.id /\ row.role = q.row.role
                   /\ row.disabled = q.row.disabled /\ row.totp = user[u].totp
                   /\ row.codes = user[u].codes /\ row.counter = user[u].counter
  BY <1>0, <1>1, Rows DEF Row
<1>5. Exists(u) => Update(u, row)
  BY <1>1 DEF Change, Row
<1>6. ~Exists(u) => UNCHANGED user BY DEF Change, Update
<1> HIDE DEF row
<1>7. /\ user' \in [Users -> Row \cup {None}] /\ \A v \in Users : Exists(v)' <=> Exists(v)
      /\ \A v \in Users \ {u} : user'[v] = user[v]
      /\ user'[u] = IF Exists(u) THEN row ELSE user[u]
  <2>1. CASE Exists(u) BY <1>0, <1>1, <1>4, <1>5, <2>1, UpdateTyped
  <2>2. CASE ~Exists(u) BY <1>0, <1>6, <2>2 DEF Types, Exists
  <2> QED BY <2>1, <2>2
<1>8. lost' = Undone(u, q.row) /\ session' = {f(s) : s \in session} BY DEF Change
<1>9. \A s \in session : /\ f(s) \in Session /\ f(s).user = s.user /\ f(s).id = s.id
                         /\ f(s).factor = s.factor /\ f(s).late = s.late
                         /\ f(s).pw = IF Mine(s, q) THEN q.id ELSE s.pw
                         /\ ~Mine(s, q) => f(s) = s
  BY <1>0, <1>1 DEF Types, Session
<1>a. session' \subseteq Session /\ \A s \in session' : s.user \in Users /\ Exists(s.user)
  BY <1>0, <1>8, <1>9 DEF Types, Held, Session
<1> HIDE DEF f
<1>b. lost' \subseteq Users /\ lost \subseteq lost' BY <1>0, <1>1, <1>8 DEF Undone, Types
<1>c. Types' BY <1>0, <1>2, <1>3, <1>7, <1>a, <1>b DEF Types
<1>d. Held' BY <1>2, <1>7, <1>a, HeldAfter DEF WithRow, Enrolled
<1>e. MovesAt(r) BY <1>0, <1>2 DEF MovesAt, Kept, Locks, Signing, OverFactor, OverPassword
<1>f. CodesMove
  <2>1. ASSUME NEW v \in Users, Exists(v) PROVE user'[v].codes = user[v].codes /\ user'[v].counter >= user[v].counter
    <3>1. user[v] \in Row BY <1>0, <2>1, Rows
    <3> QED BY <1>4, <1>7, <2>1, <3>1 DEF Row
  <2> QED BY <1>3, <1>7, <2>1 DEF CodesMove, NoneSpent
<1>g. AdminsMove
  <2>1. u \notin lost' /\ Exists(u) => user[u].role = q.row.role /\ user[u].disabled = q.row.disabled
    BY <1>8 DEF Undone
  <2>2. lost' = {} => Admins \subseteq Admins'
    BY <1>4, <1>7, <2>1 DEF Admins, Enabled, Exists
  <2> QED BY <1>b, <2>2 DEF AdminsMove
<1>h. SessionsMove
  <2>1. ASSUME NEW s \in session' PROVE s \in session \/ Rewrites(s)
    <3>1. PICK t \in session : s = f(t) BY <1>8
    <3>2. CASE Mine(t, q)
      <4>1. t.user = u /\ Exists(u) BY <1>0, <3>2 DEF Mine, Held
      <4> QED BY <1>4, <1>7, <1>9, <3>1, <3>2, <4>1 DEF Rewrites
    <3> QED BY <1>9, <3>1, <3>2
  <2> QED BY <1>3, <2>1 DEF SessionsMove
<1>i. RowsMove
  <2>1. \A v \in Users : Exists(v) => user'[v].totp = user[v].totp BY <1>4, <1>7
  <2>2. \A s \in session' : s.user = u /\ s.id = q.sid => s.pw = q.id
    BY <1>8, <1>9 DEF Mine
  <2>3. Exists(u) => user'[u].pw = q.id BY <1>4, <1>7
  <2> QED BY <1>2, <1>7, <2>1, <2>2, <2>3 DEF RowsMove, Kept, OverPassword
<1> QED BY <1>2, <1>3, <1>c, <1>d, <1>e, <1>f, <1>g, <1>h, <1>i, RestAlone DEF Shares, Typed

\* SetTOTP, with the codes of an enrolment or with none.
LEMMA SetTyped ==
  ASSUME Types, NEW u \in Users, NEW secret \in Nat \cup {None}, NEW codes \in SUBSET Code,
         SetTOTP(u, secret, codes)
  PROVE  /\ user' \in [Users -> Row \cup {None}] /\ \A v \in Users : Exists(v)' <=> Exists(v)
         /\ \A v \in Users \ {u} : user'[v] = user[v]
         /\ Exists(u) => /\ user'[u].totp = secret /\ user'[u].codes = codes
                         /\ user'[u].pw = user[u].pw /\ user'[u].role = user[u].role
                         /\ user'[u].disabled = user[u].disabled
         /\ taken' \in [Users -> SUBSET Used] /\ taken'[u] = {}
         /\ \A v \in Users \ {u} : taken'[v] = taken[v]
<1> DEFINE row == [user[u] EXCEPT !.totp = secret, !.counter = 0, !.codes = codes]
<1>1. /\ taken' \in [Users -> SUBSET Used] /\ taken'[u] = {}
      /\ \A v \in Users \ {u} : taken'[v] = taken[v]
  BY DEF SetTOTP, Types
<1>2. CASE Exists(u)
  <2>1. user[u] \in Row BY <1>2, Rows
  <2>2. /\ row \in Row /\ row.totp = secret /\ row.codes = codes /\ row.pw = user[u].pw
        /\ row.role = user[u].role /\ row.disabled = user[u].disabled
    BY <2>1 DEF Row
  <2>3. Update(u, row) BY <1>2 DEF SetTOTP
  <2> HIDE DEF row
  <2> QED BY <1>1, <1>2, <2>2, <2>3, UpdateTyped
<1>3. CASE ~Exists(u) BY <1>1, <1>3 DEF SetTOTP, Update, Types, Exists
<1> QED BY <1>2, <1>3

\* Roles, states and passwords stay, and nobody gets a second factor.
LEMMA RowsStay ==
  ASSUME Types, UNCHANGED <<session, lost>>, user' \in [Users -> Row \cup {None}],
         \A v \in Users : Exists(v)' <=> Exists(v),
         \A v \in Users : Exists(v) => /\ user'[v].pw = user[v].pw
                                       /\ user'[v].role = user[v].role
                                       /\ user'[v].disabled = user[v].disabled
  PROVE  /\ AdminsMove
         /\ (\A v \in Users : Exists(v) => user'[v].totp = user[v].totp \/ user'[v].totp = None) => RowsMove
  BY DEF AdminsMove, RowsMove, Admins, Enabled

LEMMA DisableMoves ==
  ASSUME Typed, NEW r \in Requests, Disable(r)
  PROVE  Typed' /\ (\A p \in Requests : MovesAt(p)) /\ Shares /\ Moves
<1> DEFINE u == req[r].u
<1>0. Types /\ Held /\ req[r].pc = "clear" BY DEF Typed, Disable
<1>1. u \in Users BY <1>0, IdleOrAsked DEF Asked
<1>2. SetTOTP(u, None, {}) /\ End(r) /\ UNCHANGED <<session, pending, setup, trust, clock, left, twice, lost>>
  BY DEF Disable
<1>3. /\ user' \in [Users -> Row \cup {None}] /\ \A v \in Users : Exists(v)' <=> Exists(v)
      /\ \A v \in Users \ {u} : user'[v] = user[v]
      /\ Exists(u) => /\ user'[u].totp = None /\ user'[u].codes = {}
                      /\ user'[u].pw = user[u].pw /\ user'[u].role = user[u].role
                      /\ user'[u].disabled = user[u].disabled
      /\ taken' \in [Users -> SUBSET Used] /\ taken'[u] = {}
      /\ \A v \in Users \ {u} : taken'[v] = taken[v]
  BY <1>0, <1>1, <1>2, SetTyped
<1>4. req' \in [Requests -> Asked \cup {Idle}] /\ req'[r].pc = "idle" /\ Rest(r)
  BY <1>0, <1>2, Ends
<1>5. Types' BY <1>0, <1>2, <1>3, <1>4 DEF Types
<1>6. Held' BY <1>0, <1>2, <1>3, <1>4, HeldAfter DEF Held, Types, Session, WithRow, Enrolled
<1>7. MovesAt(r) BY <1>0, <1>4 DEF MovesAt, Locks, Signing, OverFactor, OverPassword
<1>8. CodesMove
  <2>1. ASSUME NEW v \in Users PROVE NoneSpent(v)
    <3>1. Exists(v) => user[v].counter \in Nat BY <1>0, Rows DEF Row
    <3> QED BY <1>3, <3>1 DEF NoneSpent
  <2> QED BY <1>2, <2>1 DEF CodesMove
<1>9. AdminsMove /\ RowsMove
  <2>1. \A v \in Users : Exists(v) => /\ user'[v].pw = user[v].pw
                                      /\ user'[v].role = user[v].role
                                      /\ user'[v].disabled = user[v].disabled
                                      /\ user'[v].totp = user[v].totp \/ user'[v].totp = None
    BY <1>3
  <2> QED BY <1>0, <1>2, <1>3, <2>1, RowsStay
<1> QED BY <1>2, <1>4, <1>5, <1>6, <1>7, <1>8, <1>9, RestAlone DEF Shares, SessionsMove, Typed

LEMMA NewCodesTyped == ASSUME NEW n \in Nat PROVE NewCodes(n) \in SUBSET Code
  BY DEF NewCodes, Code

LEMMA RecoverMoves ==
  ASSUME Typed, NEW r \in Requests, Recover(r)
  PROVE  Typed' /\ (\A p \in Requests : MovesAt(p)) /\ Shares /\ Moves
<1> DEFINE q == req[r]
           u == q.u
           row == [user[u] EXCEPT !.codes = NewCodes(q.id)]
<1>0. Types /\ Held /\ q.pc = "renew" BY DEF Typed, Recover
<1>1. u \in Users /\ q.id \in Nat BY <1>0, IdleOrAsked DEF Asked
<1>2. End(r) /\ UNCHANGED <<session, pending, setup, trust, clock, left, taken, twice, lost>>
  BY DEF Recover
<1>3. /\ user' \in [Users -> Row \cup {None}] /\ \A v \in Users : Exists(v)' <=> Exists(v)
      /\ \A v \in Users \ {u} : user'[v] = user[v]
      /\ Exists(u) => /\ user'[u].codes = NewCodes(q.id) /\ user'[u].counter = user[u].counter
                      /\ user'[u].totp = user[u].totp
                      /\ user'[u].pw = user[u].pw /\ user'[u].role = user[u].role
                      /\ user'[u].disabled = user[u].disabled
  <2>1. CASE Exists(u)
    <3>1. user[u] \in Row BY <1>0, <1>1, <2>1, Rows
    <3>2. /\ row \in Row /\ row.codes = NewCodes(q.id) /\ row.pw = user[u].pw
          /\ row.role = user[u].role /\ row.disabled = user[u].disabled
          /\ row.totp = user[u].totp /\ row.counter = user[u].counter
      BY <1>1, <3>1, NewCodesTyped DEF Row
    <3>3. Update(u, row) BY <2>1 DEF Recover
    <3> HIDE DEF row
    <3> QED BY <1>0, <1>1, <2>1, <3>2, <3>3, UpdateTyped
  <2>2. CASE ~Exists(u) BY <1>0, <2>2 DEF Recover, Update, Types, Exists
  <2> QED BY <2>1, <2>2
<1>4. req' \in [Requests -> Asked \cup {Idle}] /\ req'[r].pc = "idle" /\ Rest(r)
  BY <1>0, <1>2, Ends
<1>5. Types' BY <1>0, <1>2, <1>3, <1>4 DEF Types
<1>6. Held' BY <1>0, <1>2, <1>3, <1>4, HeldAfter DEF Held, Types, Session, WithRow, Enrolled
<1>7. MovesAt(r) BY <1>0, <1>4 DEF MovesAt, Locks, Signing, OverFactor, OverPassword
<1>8. CodesMove
  <2>1. ASSUME NEW v \in Users, v = u PROVE NoneSpent(v)
    BY <1>0, <1>2, <1>3, <1>4, <2>1 DEF NoneSpent
  <2>2. ASSUME NEW v \in Users \ {u} PROVE NoneSpent(v)
    <3>1. Exists(v) => user[v].counter \in Nat BY <1>0, Rows DEF Row
    <3> QED BY <1>2, <1>3, <3>1 DEF NoneSpent
  <2> QED BY <1>2, <2>1, <2>2 DEF CodesMove
<1>9. AdminsMove /\ RowsMove
  <2>1. \A v \in Users : Exists(v) => /\ user'[v].pw = user[v].pw
                                      /\ user'[v].role = user[v].role
                                      /\ user'[v].disabled = user[v].disabled
                                      /\ user'[v].totp = user[v].totp \/ user'[v].totp = None
    BY <1>3
  <2> QED BY <1>0, <1>2, <1>3, <2>1, RowsStay
<1> QED BY <1>2, <1>4, <1>5, <1>6, <1>7, <1>8, <1>9, RestAlone DEF Shares, SessionsMove, Typed

\* The steps that only sessions, setups or the clock see.
LEMMA AsideMoves ==
  ASSUME Typed, Logout \/ Tick \/ (\E r \in Requests : Setup(r))
  PROVE  Typed' /\ (\A p \in Requests : MovesAt(p)) /\ Shares /\ Moves
<1>0. Types /\ Held /\ left \in Nat BY NumbersAssumption DEF Typed, Types
<1>1. /\ UNCHANGED <<user, pending, trust, req, taken, twice, lost>>
      /\ session' \subseteq session /\ left' \in {left, left - 1}
  BY DEF Logout, Tick, Setup
<1>2. Types'
  <2>1. CASE Logout BY <1>0, <1>1, <2>1 DEF Logout, Types
  <2>2. CASE Tick BY <1>0, <1>1, <2>2, NumbersAssumption DEF Tick, Types
  <2>3. CASE \E r \in Requests : Setup(r)
    BY <1>0, <1>1, <2>3, NumbersAssumption DEF Setup, Types, Session
  <2> QED BY <2>1, <2>2, <2>3
<1>3. Held' BY <1>0, <1>1 DEF Held, Exists
<1>4. \A q \in Requests : Stays(q) BY <1>1 DEF Stays, Kept
<1>5. SessionsMove BY <1>1 DEF SessionsMove
<1> QED BY <1>0, <1>1, <1>2, <1>3, <1>4, <1>5, StaysMoves, CodesRest, RowsRest
        DEF Moves, Alone, Shares, Typed

LEMMA EnableMoves ==
  ASSUME Typed, NEW r \in Requests, Enable(r)
  PROVE  Typed' /\ (\A p \in Requests : MovesAt(p)) /\ Shares /\ Moves
<1> DEFINE q == req[r]
           u == q.u
           f(s) == IF Mine(s, q) THEN [s EXCEPT !.factor = "own"] ELSE s
<1>0. Types /\ Held /\ q.pc = "enable" BY DEF Typed, Enable
<1>1. q \in Asked /\ u \in Users /\ q.id \in Nat /\ q.row \in Row
  BY <1>0, IdleOrAsked DEF Asked, Held, WithRow
<1>2. UNCHANGED <<pending, setup, trust, clock, left, twice, lost>> BY DEF Enable
<1>3. CASE setup[u] = None
  <2>1. End(r) /\ UNCHANGED <<user, session, taken>> BY <1>3 DEF Enable
  <2>2. req' \in [Requests -> Asked \cup {Idle}] /\ req'[r].pc = "idle" /\ Rest(r)
    BY <1>0, <2>1, Ends
  <2>3. Types' BY <1>0, <1>2, <2>1, <2>2 DEF Types
  <2>4. Held' BY <1>0, <1>2, <2>1, <2>2, HeldAfter DEF Held, Exists, WithRow, Enrolled, Types, Session
  <2>5. MovesAt(r) BY <1>0, <2>2 DEF MovesAt, Locks, Signing, OverFactor, OverPassword
  <2> QED BY <1>0, <1>2, <2>1, <2>2, <2>3, <2>4, <2>5, AllRest, RestAlone DEF Typed
<1>4. CASE setup[u] # None
  <2>1. PICK c \in Window :
          /\ SetTOTP(u, setup[u], NewCodes(q.id))
          /\ session' = {f(s) : s \in session}
          /\ req' = [req EXCEPT ![r].pc = "count", ![r].row.counter = c]
    BY <1>4 DEF Enable
  <2>2. c \in Nat BY <1>0 DEF Window, Types
  <2> DEFINE n == [[req[r] EXCEPT !.pc = "count"] EXCEPT !.row = [req[r].row EXCEPT !.counter = c]]
  <2>3. /\ n \in Asked /\ n.pc = "count" /\ n.u = u /\ n.sid = q.sid /\ n.id = q.id /\ n.row \in Row
    <3>1. [req[r].row EXCEPT !.counter = c] \in Row BY <1>1, <2>2 DEF Row
    <3> QED BY <1>1, <3>1 DEF Asked, Steps
  <2>4. req' = [req EXCEPT ![r] = n] BY <1>0, <1>1, <2>1 DEF Types, Asked
  <2> HIDE DEF n
  <2>5. /\ req' \in [Requests -> Asked \cup {Idle}] /\ req'[r].pc = "count" /\ req'[r].u = u
        /\ req'[r].sid = q.sid /\ req'[r].id = q.id /\ req'[r].row \in Row /\ Rest(r)
    BY <1>0, <2>3, <2>4 DEF Types, Rest
  <2>6. setup[u] \in Nat \cup {None} /\ NewCodes(q.id) \in SUBSET Code
    BY <1>0, <1>1, NewCodesTyped DEF Types
  <2>7. /\ user' \in [Users -> Row \cup {None}] /\ \A v \in Users : Exists(v)' <=> Exists(v)
        /\ \A v \in Users \ {u} : user'[v] = user[v]
        /\ Exists(u) => /\ user'[u].totp = setup[u] /\ user'[u].codes = NewCodes(q.id)
                        /\ user'[u].pw = user[u].pw /\ user'[u].role = user[u].role
                        /\ user'[u].disabled = user[u].disabled
        /\ taken' \in [Users -> SUBSET Used] /\ taken'[u] = {}
        /\ \A v \in Users \ {u} : taken'[v] = taken[v]
    BY <1>0, <1>1, <2>1, <2>6, SetTyped
  <2>8. \A s \in session : /\ f(s) \in Session /\ f(s).user = s.user /\ f(s).id = s.id
                           /\ f(s).pw = s.pw /\ f(s).late = s.late
                           /\ Mine(s, q) => f(s).factor = "own"
                           /\ ~Mine(s, q) => f(s) = s
    BY <1>0 DEF Types, Session
  <2>9. session' \subseteq Session /\ \A s \in session' : s.user \in Users /\ Exists(s.user)
    BY <1>0, <2>1, <2>8 DEF Types, Held, Session
  <2> HIDE DEF f
  <2>a. Types' BY <1>0, <1>2, <2>5, <2>7, <2>9 DEF Types
  <2>b. Held' BY <2>5, <2>7, <2>9, HeldAfter DEF Enrolled
  <2>c. MovesAt(r) BY <1>0, <2>5 DEF MovesAt, Locks, Signing, OverFactor, OverPassword
  <2>d. CodesMove
    <3>1. ASSUME NEW v \in Users, v = u PROVE NoneSpent(v)
      BY <1>0, <2>5, <2>7, <3>1 DEF NoneSpent
    <3>2. ASSUME NEW v \in Users \ {u} PROVE NoneSpent(v)
      <4>1. Exists(v) => user[v].counter \in Nat BY <1>0, Rows DEF Row
      <4> QED BY <2>7, <4>1 DEF NoneSpent
    <3> QED BY <1>2, <3>1, <3>2 DEF CodesMove
  <2>e. AdminsMove BY <1>2, <2>7 DEF AdminsMove, Admins, Enabled
  <2>f. SessionsMove
    <3>1. ASSUME NEW s \in session' PROVE s \in session \/ Rewrites(s)
      BY <2>1, <2>8 DEF Rewrites
    <3> QED BY <1>2, <3>1 DEF SessionsMove
  <2>g. RowsMove
    <3>1. \A s \in session' : s.user = u /\ s.id = q.sid => s.factor = "own"
      BY <2>1, <2>8 DEF Mine
    <3>2. \A v \in Users : Exists(v) => user'[v].pw = user[v].pw BY <2>7
    <3>3. \A v \in Users \ {u} : user'[v].totp = user[v].totp BY <2>7
    <3> QED BY <2>5, <2>7, <3>1, <3>2, <3>3 DEF RowsMove
  <2> QED BY <1>2, <2>5, <2>a, <2>b, <2>c, <2>d, <2>e, <2>f, <2>g, RestAlone DEF Shares, Typed
<1> QED BY <1>3, <1>4

LEMMA EnableCountMoves ==
  ASSUME Typed, NEW r \in Requests, EnableCount(r)
  PROVE  Typed' /\ (\A p \in Requests : MovesAt(p)) /\ Shares /\ Moves
<1> DEFINE q == req[r]
           u == q.u
           c == q.row.counter
           row == [user[u] EXCEPT !.counter = c]
<1>0. Types /\ Held /\ q.pc = "count" BY DEF Typed, EnableCount
<1>1. q \in Asked /\ u \in Users /\ q.row \in Row /\ c \in Nat
  BY <1>0, IdleOrAsked DEF Asked, Held, WithRow, Row
<1>2. UNCHANGED <<session, pending, trust, clock, left, taken, twice, lost>> BY DEF EnableCount
<1>3. /\ req' \in [Requests -> Asked \cup {Idle}] /\ req'[r].pc = "others" /\ Kept(r)
      /\ req'[r].late = req[r].late /\ Rest(r)
  <2>1. "others" \in Steps \ {"idle"} /\ Goto(r, "others") BY DEF Steps, EnableCount
  <2> QED BY <1>0, <2>1, Goes
<1>4. /\ user' \in [Users -> Row \cup {None}] /\ \A v \in Users : Exists(v)' <=> Exists(v)
      /\ \A v \in Users : Exists(v) =>
           /\ user'[v].totp = user[v].totp /\ user'[v].codes = user[v].codes
           /\ user'[v].pw = user[v].pw /\ user'[v].role = user[v].role
           /\ user'[v].disabled = user[v].disabled /\ user'[v].counter >= user[v].counter
  <2>1. \A v \in Users : Exists(v) => user[v].counter \in Nat BY <1>0, Rows DEF Row
  <2>2. CASE CounterMoves(u, c)
    <3>1. Exists(u) /\ user[u].counter < c /\ user' = [user EXCEPT ![u].counter = c]
      BY <2>2 DEF CounterMoves, EnableCount
    <3>2. user[u] \in Row BY <1>0, <1>1, <3>1, Rows
    <3>3. /\ row \in Row /\ row.codes = user[u].codes /\ row.pw = user[u].pw
          /\ row.role = user[u].role /\ row.disabled = user[u].disabled
          /\ row.totp = user[u].totp /\ row.counter = c
      BY <1>1, <3>2 DEF Row
    <3>4. Update(u, row) BY <3>1 DEF Update
    <3> HIDE DEF row
    <3>5. /\ user' \in [Users -> Row \cup {None}] /\ \A v \in Users : Exists(v)' <=> Exists(v)
          /\ \A v \in Users \ {u} : user'[v] = user[v]
          /\ user'[u] = row
      BY <1>0, <1>1, <3>1, <3>3, <3>4, UpdateTyped
    <3>6. ASSUME NEW v \in Users \ {u}, Exists(v)
          PROVE  user'[v] = user[v] /\ user'[v].counter >= user[v].counter
      BY <2>1, <3>5, <3>6
    <3> QED BY <1>1, <2>1, <3>1, <3>3, <3>5, <3>6
  <2>3. CASE ~CounterMoves(u, c)
    BY <1>0, <2>1, <2>3 DEF EnableCount, Types, Exists
  <2> QED BY <2>2, <2>3
<1>5. setup' \in [Users -> Nat \cup {None}] BY <1>0, <1>1 DEF EnableCount, Types
<1>6. Types' BY <1>0, <1>2, <1>3, <1>4, <1>5 DEF Types
<1>7. Held' BY <1>0, <1>2, <1>3, <1>4, HeldAfter DEF Held, Types, Session, WithRow, Enrolled
<1>8. MovesAt(r) BY <1>0, <1>3 DEF MovesAt, Kept, Locks, Signing, OverFactor, OverPassword
<1>9. CodesMove BY <1>2, <1>4 DEF CodesMove, NoneSpent
<1>a. AdminsMove /\ RowsMove BY <1>0, <1>2, <1>4, RowsStay
<1> QED BY <1>2, <1>3, <1>6, <1>7, <1>8, <1>9, <1>a, RestAlone DEF Shares, SessionsMove, Typed

LEMMA OthersMoves ==
  ASSUME Typed, NEW r \in Requests, Others(r)
  PROVE  Typed' /\ (\A p \in Requests : MovesAt(p)) /\ Shares /\ Moves
<1> DEFINE u == req[r].u
<1>0. Types /\ Held /\ req[r].pc \in {"others", "revoke"} BY DEF Typed, Others
<1>1. /\ UNCHANGED <<user, pending, setup, trust, clock, left, taken, twice, lost>>
      /\ session' = {s \in session : s.user # u \/ s.id = req[r].sid}
      /\ MarkLate(r, u)
  BY DEF Others, Deleted
<1>2. /\ req' \in [Requests -> Asked \cup {Idle}]
      /\ req'[r].pc = "idle"
      /\ \A q \in Requests \ {r} :
           /\ req'[q].pc = req[q].pc
           /\ req[q].pc # "idle" =>
                /\ Kept(q)
                /\ req[q].late => req'[q].late
                /\ req[q].u = u => req'[q].late
  BY <1>0, <1>1, MarksLate
<1>3. Types' BY <1>0, <1>1, <1>2 DEF Types
<1>4. Held' BY <1>0, <1>1, <1>2 DEF Held, Exists, Kept, WithRow, Enrolled
<1>5. \A q \in Requests \ {r} : Stays(q) BY <1>2 DEF Stays
<1>6. Clears(r) BY <1>1, <1>2 DEF Clears, Kept
<1>7. MovesAt(r) BY <1>0, <1>2, <1>6 DEF MovesAt, Locks, Signing, OverFactor, OverPassword
<1>8. SessionsMove BY <1>1 DEF SessionsMove
<1> QED BY <1>0, <1>1, <1>3, <1>4, <1>5, <1>7, <1>8, StaysMoves, CodesRest, RowsRest
        DEF Moves, Alone, Shares, Typed

-----------------------------------------------------------------------------
(* The steps of administrators.                                            *)

LEMMA AdminAskMoves ==
  ASSUME Typed, NEW r \in Requests, AdminAsk(r)
  PROVE  Typed' /\ (\A p \in Requests : MovesAt(p)) /\ Shares /\ Moves
<1>0. Types /\ Held /\ left \in Nat /\ left \in 0..Budget /\ Budget \in Nat
  BY NumbersAssumption DEF Typed, Types
<1>1. UNCHANGED <<user, session, pending, setup, trust, clock, taken, twice, lost>> BY DEF AdminAsk
<1>2. PICK s \in session :
        Begin(r, [pc |-> "ask", u |-> s.user, row |-> None, sid |-> s.id, id |-> left, late |-> FALSE])
  BY DEF AdminAsk
<1> DEFINE n == [pc |-> "ask", u |-> s.user, row |-> None, sid |-> s.id, id |-> left, late |-> FALSE]
<1>3. s.user \in Users /\ s.id \in Nat BY <1>0 DEF Types, Session
<1>4. n \in Asked /\ n.pc = "ask" /\ n.sid = s.id /\ n.id = left
  BY <1>0, <1>3 DEF Asked, Steps
<1>5. req' = [req EXCEPT ![r] = n] /\ req[r] = Idle /\ left > 0 /\ left' = left - 1
  BY <1>2 DEF Begin
<1> HIDE DEF n
<1>6. /\ req' \in [Requests -> Asked \cup {Idle}] /\ req[r].pc = "idle" /\ req'[r].pc = "ask"
      /\ req'[r].sid = s.id /\ req'[r].id = left /\ Rest(r) /\ left' \in 0..Budget
  BY <1>0, <1>4, <1>5 DEF Types, Idle, Rest
<1>7. Types' BY <1>0, <1>1, <1>6 DEF Types
<1>8. Held' BY <1>0, <1>1, <1>6, HeldAfter DEF Held, Exists, WithRow, Enrolled, Types, Session
<1>9. MovesAt(r) BY <1>1, <1>5, <1>6 DEF MovesAt, Locks, Signing, OverFactor, OverPassword
<1> QED BY <1>0, <1>1, <1>5, <1>6, <1>7, <1>8, <1>9, AllRest, RestAlone DEF Typed

LEMMA Turns ==
  ASSUME Types, NEW r \in Requests, req[r].pc = "ask", NEW pc \in {"write", "remove"},
         NEW u \in Users, NEW row \in Row \cup {None} \cup [old : Row, new : Row], Turn(r, pc, u, row)
  PROVE  /\ req' \in [Requests -> Asked \cup {Idle}]
         /\ req'[r].pc = pc /\ req'[r].u = u /\ req'[r].row = row
         /\ req'[r].id = req[r].id /\ req'[r].sid \in {req[r].sid, None}
         /\ Rest(r)
<1> DEFINE q == req[r]
           n == [q EXCEPT !.pc = pc, !.u = u, !.row = row, !.late = FALSE,
                          !.sid = IF q.u = u THEN q.sid ELSE None]
<1>1. q \in Asked BY IdleOrAsked
<1>2. /\ n \in Asked /\ n.pc = pc /\ n.u = u /\ n.row = row /\ n.id = q.id
      /\ n.sid \in {q.sid, None}
  BY <1>1 DEF Asked, Steps
<1>3. req' = [req EXCEPT ![r] = n] BY DEF Turn
<1> HIDE DEF n
<1> QED BY <1>2, <1>3 DEF Types, Rest

\* Where there are two administrators, there is one that is not u.
LEMMA TwoAdmins ==
  ASSUME NEW u, ~(Cardinality(Admins) <= 1)
  PROVE  Another(u)
<1> SUFFICES ASSUME ~Another(u) PROVE FALSE OBVIOUS
<1>1. Admins \subseteq {u} BY DEF Another
<1>2. IsFiniteSet({u}) /\ Cardinality({u}) = 1 BY FS_Singleton
<1>3. Cardinality(Admins) \in Nat /\ Cardinality(Admins) <= Cardinality({u})
  BY <1>1, <1>2, FS_Subset, FS_CardinalityType
<1> QED BY <1>2, <1>3

\* The row that is asked for, and that the last administrator does not ask for it.
LEMMA ChangedGoverns ==
  ASSUME NEW row \in Row, NEW ch \in Changes, NEW fresh \in Nat, ~Refuses(row, ch)
  PROVE  /\ Changed(row, ch, fresh) \in Row
         /\ Governs(row) /\ ~Governs(Changed(row, ch, fresh)) => ~(Cardinality(Admins) <= 1)
<1> DEFINE new == Changed(row, ch, fresh)
<1>1. ch \in [role : {"admin", "user", None}, disabled : {TRUE, FALSE, None},
              must : {TRUE, FALSE, None}, pw : BOOLEAN]
  BY ChangesAssumption
<1>2. /\ new.role = (IF ch.role = None THEN row.role ELSE ch.role)
      /\ new.disabled = (IF ch.disabled = None THEN row.disabled ELSE ch.disabled)
      /\ new.must = (IF ch.must = None THEN row.must ELSE ch.must)
      /\ new.pw = (IF ch.pw THEN fresh ELSE row.pw)
      /\ new \in Row
  BY <1>1 DEF Changed, Row, Roles
<1> HIDE DEF new
<1>3. ASSUME Governs(row), ~Governs(new) PROVE ~(Cardinality(Admins) <= 1)
  <2>1. row.role = "admin" /\ ~row.disabled BY <1>3 DEF Governs
  <2>2. CASE ch.role \notin {None, row.role} BY <2>1, <2>2 DEF Refuses, LastAdmin
  <2>3. CASE ch.role \in {None, row.role}
    <3>1. new.role = "admin" BY <1>2, <2>1, <2>3
    <3>2. new.disabled BY <1>3, <3>1 DEF Governs
    <3>3. ch.disabled # None BY <1>2, <2>1, <3>2
    <3>4. ch.disabled = TRUE
      <4>1. ch.disabled \in {TRUE, FALSE, None} BY <1>1
      <4>2. new.disabled = ch.disabled BY <1>2, <3>3
      <4> QED BY <3>2, <3>3, <4>1, <4>2, Zenon
    <3> DEFINE as == [row EXCEPT !.role = IF ch.role = None THEN @ ELSE ch.role]
    <3>5. as.role = "admin" BY <1>2, <3>1 DEF Row
    <3>6. ~LastAdmin(as) BY <2>1, <3>4, Zenon DEF Refuses
    <3> QED BY <3>5, <3>6 DEF LastAdmin
  <2> QED BY <2>2, <2>3
<1> QED BY <1>2, <1>3 DEF new

LEMMA AdminUpdateMoves ==
  ASSUME Typed, NEW r \in Requests, AdminUpdate(r)
  PROVE  Typed' /\ (\A p \in Requests : MovesAt(p)) /\ Shares /\ Moves
<1>0. Types /\ Held /\ req[r].pc = "ask" /\ AdminFree BY DEF Typed, AdminUpdate
<1>1. UNCHANGED <<user, session, pending, setup, trust, clock, left, taken, twice, lost>> BY DEF AdminUpdate
<1>2. req[r].id \in Nat BY <1>0, IdleOrAsked DEF Asked
<1>3. PICK u \in Users, ch \in Changes :
        /\ Exists(u) /\ ~Refuses(user[u], ch)
        /\ Turn(r, "write", u, [old |-> user[u], new |-> Changed(user[u], ch, req[r].id)])
  BY DEF AdminUpdate
<1> DEFINE new == Changed(user[u], ch, req[r].id)
           row == [old |-> user[u], new |-> new]
<1>4. user[u] \in Row BY <1>0, <1>3, Rows
<1>5. new \in Row /\ (Governs(user[u]) /\ ~Governs(new) => Another(u))
  BY <1>2, <1>3, <1>4, ChangedGoverns, TwoAdmins
<1> HIDE DEF new
<1>6. row \in [old : Row, new : Row] /\ row.old = user[u] /\ row.new = new BY <1>4, <1>5
<1>7. Turn(r, "write", u, row) BY <1>3 DEF new
<1> HIDE DEF row
<1>8. /\ req' \in [Requests -> Asked \cup {Idle}]
      /\ req'[r].pc = "write" /\ req'[r].u = u /\ req'[r].row = row
      /\ req'[r].id = req[r].id /\ req'[r].sid \in {req[r].sid, None} /\ Rest(r)
  BY <1>0, <1>6, <1>7, Turns
<1>9. Types' BY <1>0, <1>1, <1>8 DEF Types
<1>a. Held' BY <1>0, <1>1, <1>6, <1>8, HeldAfter DEF Held, Exists, WithRow, Enrolled, Types, Session
<1>b. MovesAt(r)
  BY <1>0, <1>1, <1>5, <1>6, <1>8 DEF MovesAt, Locks, Signing, OverFactor, OverPassword
<1> QED BY <1>0, <1>1, <1>8, <1>9, <1>a, <1>b, AllRest, RestAlone DEF Typed

LEMMA AdminDeleteMoves ==
  ASSUME Typed, NEW r \in Requests, AdminDelete(r)
  PROVE  Typed' /\ (\A p \in Requests : MovesAt(p)) /\ Shares /\ Moves
<1>0. Types /\ Held /\ req[r].pc = "ask" /\ AdminFree BY DEF Typed, AdminDelete
<1>1. UNCHANGED <<user, session, pending, setup, trust, clock, left, taken, twice, lost>> BY DEF AdminDelete
<1>2. PICK u \in Users : /\ Exists(u) /\ ~(LastAdmin(user[u]) /\ ~user[u].disabled)
                         /\ Turn(r, "remove", u, None)
  BY DEF AdminDelete
<1>3. /\ req' \in [Requests -> Asked \cup {Idle}]
      /\ req'[r].pc = "remove" /\ req'[r].u = u
      /\ req'[r].id = req[r].id /\ req'[r].sid \in {req[r].sid, None} /\ Rest(r)
  BY <1>0, <1>2, Turns
<1>4. u \in Admins => Another(u)
  <2>1. u \in Admins => user[u].role = "admin" /\ ~user[u].disabled BY DEF Admins, Enabled
  <2> QED BY <1>2, <2>1, TwoAdmins DEF LastAdmin
<1>5. Types' BY <1>0, <1>1, <1>3 DEF Types
<1>6. Held' BY <1>0, <1>1, <1>3, HeldAfter DEF Held, Exists, WithRow, Enrolled, Types, Session
<1>7. MovesAt(r)
  BY <1>0, <1>1, <1>3, <1>4 DEF MovesAt, Locks, Signing, OverFactor, OverPassword
<1> QED BY <1>0, <1>1, <1>3, <1>5, <1>6, <1>7, AllRest, RestAlone DEF Typed

LEMMA IsAdmin ==
  ASSUME NEW u \in Users
  PROVE  /\ u \in Admins <=> Exists(u) /\ user[u].role = "admin" /\ ~user[u].disabled
         /\ u \in Admins' <=> Exists(u)' /\ user'[u].role = "admin" /\ ~user'[u].disabled
<1>1. u \in Admins <=> Exists(u) /\ user[u].role = "admin" /\ ~user[u].disabled
  BY Zenon DEF Admins, Enabled
<1>2. u \in Admins' <=> Exists(u)' /\ user'[u].role = "admin" /\ ~user'[u].disabled
  BY Zenon DEF Admins, Enabled, Exists
<1> QED BY <1>1, <1>2

LEMMA AdminWriteMoves ==
  ASSUME Typed, NEW r \in Requests, AdminWrite(r)
  PROVE  Typed' /\ (\A p \in Requests : MovesAt(p)) /\ Shares /\ Moves
<1> DEFINE q == req[r]
           u == q.u
           old == q.row.old
           new == q.row.new
           revoke == [new EXCEPT !.must = old.must] # old
           row == [user[u] EXCEPT !.pw = new.pw, !.must = new.must,
                                  !.role = new.role, !.disabled = new.disabled]
           f(s) == IF Mine(s, q) THEN [s EXCEPT !.pw = new.pw] ELSE s
<1>0. Types /\ Held /\ q.pc = "write" BY DEF Typed, AdminWrite
<1>1. /\ q \in Asked /\ u \in Users /\ old \in Row /\ new \in Row
      /\ new.pw \in Nat
  <2>1. q.row \in [old : Row, new : Row] BY <1>0 DEF Held
  <2> QED BY <1>0, <2>1, IdleOrAsked DEF Asked, Row
<1>2. /\ req' \in [Requests -> Asked \cup {Idle}] /\ Rest(r)
      /\ req'[r].pc \in {"revoke", "idle"}
      /\ req'[r].pc = "revoke" => Kept(r)
      /\ revoke => req'[r].pc = "revoke"
  <2>1. IF revoke THEN Goto(r, "revoke") ELSE End(r) BY DEF AdminWrite
  <2>2. CASE Goto(r, "revoke")
    <3>1. "revoke" \in Steps \ {"idle"} BY DEF Steps
    <3> QED BY <1>0, <2>2, <3>1, Goes
  <2>3. CASE ~revoke /\ End(r) BY <1>0, <2>3, Ends
  <2> QED BY <2>1, <2>2, <2>3
<1>3. UNCHANGED <<pending, setup, trust, clock, left, taken, twice>> BY DEF AdminWrite
<1>4. Exists(u) => /\ user[u] \in Row /\ row \in Row /\ row.pw = new.pw /\ row.role = new.role
                   /\ row.disabled = new.disabled /\ row.totp = user[u].totp
                   /\ row.codes = user[u].codes /\ row.counter = user[u].counter
  BY <1>0, <1>1, Rows DEF Row
<1>5. Exists(u) => Update(u, row) BY DEF AdminWrite
<1>6. ~Exists(u) => UNCHANGED user BY DEF AdminWrite, Update
<1>7. lost' = Undone(u, old) /\ session' = {f(s) : s \in session} BY DEF AdminWrite
<1> HIDE DEF row
<1>8. /\ user' \in [Users -> Row \cup {None}] /\ \A v \in Users : Exists(v)' <=> Exists(v)
      /\ \A v \in Users \ {u} : user'[v] = user[v]
      /\ user'[u] = IF Exists(u) THEN row ELSE user[u]
  <2>1. CASE Exists(u) BY <1>0, <1>1, <1>4, <1>5, <2>1, UpdateTyped
  <2>2. CASE ~Exists(u) BY <1>0, <1>6, <2>2 DEF Types, Exists
  <2> QED BY <2>1, <2>2
<1>9. \A s \in session : /\ f(s) \in Session /\ f(s).user = s.user /\ f(s).id = s.id
                         /\ f(s).factor = s.factor /\ f(s).late = s.late
                         /\ f(s).pw = IF Mine(s, q) THEN new.pw ELSE s.pw
                         /\ ~Mine(s, q) => f(s) = s
  BY <1>0, <1>1 DEF Types, Session
<1>a. session' \subseteq Session /\ \A s \in session' : s.user \in Users /\ Exists(s.user)
  BY <1>0, <1>7, <1>9 DEF Types, Held, Session
<1> HIDE DEF f
<1>b. lost' \subseteq Users /\ lost \subseteq lost' BY <1>0, <1>1, <1>7 DEF Undone, Types
<1>c. Types' BY <1>0, <1>2, <1>3, <1>8, <1>a, <1>b DEF Types
<1>d. Held' BY <1>2, <1>8, <1>a, HeldAfter DEF WithRow, Enrolled
<1>e. MovesAt(r) BY <1>0, <1>2 DEF MovesAt, Kept, Locks, Signing, OverFactor, OverPassword
<1>f. CodesMove
  <2>1. ASSUME NEW v \in Users, Exists(v)
        PROVE  user'[v].codes = user[v].codes /\ user'[v].counter >= user[v].counter
    <3>1. user[v] \in Row BY <1>0, <2>1, Rows
    <3> QED BY <1>4, <1>8, <2>1, <3>1 DEF Row
  <2> QED BY <1>3, <1>8, <2>1 DEF CodesMove, NoneSpent
<1>0a. u \notin lost' /\ Exists(u) =>
         user[u].role = old.role /\ user[u].disabled = old.disabled /\ user[u].pw = old.pw
  BY <1>7 DEF Undone
<1>g. AdminsMove
  <2>1. Admins \ {u} \subseteq Admins' BY <1>8 DEF Admins, Enabled, Exists
  <2>2. ASSUME lost' = {}, u \in Admins, u \notin Admins' PROVE Governs(old) /\ ~Governs(new)
    <3>1. Exists(u) /\ user[u].role = "admin" /\ ~user[u].disabled
      BY <1>1, <2>2, IsAdmin, Zenon
    <3>2. user'[u].role = new.role /\ user'[u].disabled = new.disabled
      BY <1>1, <1>4, <1>8, <3>1
    <3>3. ASSUME NEW v \in Users, v = u PROVE ~(user'[v].role = "admin" /\ ~user'[v].disabled)
      <4>1. v \notin Admins' /\ Exists(v)' BY <1>8, <2>2, <3>1, <3>3
      <4> QED BY <4>1, IsAdmin, Zenon
    <3> QED BY <1>1, <1>0a, <2>2, <3>1, <3>2, <3>3 DEF Governs
  <2>3. req[r].pc = "write" /\ req'[r].pc # "write" BY <1>0, <1>2
  <2> QED BY <1>b, <2>1, <2>2, <2>3 DEF AdminsMove
<1>h. SessionsMove
  <2>1. ASSUME NEW s \in session' PROVE s \in session \/ Rewrites(s)
    <3>1. PICK t \in session : s = f(t) BY <1>7
    <3>2. CASE Mine(t, q)
      <4>1. t.user = u /\ Exists(u) BY <1>0, <3>2 DEF Mine, Held
      <4> QED BY <1>4, <1>8, <1>9, <3>1, <3>2, <4>1 DEF Rewrites
    <3> QED BY <1>9, <3>1, <3>2
  <2> QED BY <1>3, <2>1 DEF SessionsMove
<1>i. RowsMove
  <2>1. \A v \in Users : Exists(v) => user'[v].totp = user[v].totp BY <1>4, <1>8
  <2>2. \A s \in session' : s.user = u /\ s.id = q.sid => s.pw = new.pw
    BY <1>7, <1>9 DEF Mine
  <2>3. Exists(u) => user'[u].pw = new.pw BY <1>4, <1>8
  <2>4. Exists(u) /\ u \notin lost' /\ user'[u].pw # user[u].pw => req'[r].pc = "revoke"
    <3>1. [new EXCEPT !.must = old.must].pw = new.pw BY <1>1 DEF Row
    <3> QED BY <1>0a, <1>2, <2>3, <3>1
  <2> QED BY <1>2, <1>8, <2>1, <2>2, <2>3, <2>4 DEF RowsMove, Kept, OverPassword
<1> QED BY <1>2, <1>3, <1>c, <1>d, <1>e, <1>f, <1>g, <1>h, <1>i, RestAlone DEF Shares, Typed

LEMMA AdminRemoveMoves ==
  ASSUME Typed, NEW r \in Requests, AdminRemove(r)
  PROVE  Typed' /\ (\A p \in Requests : MovesAt(p)) /\ Shares /\ Moves
<1> DEFINE u == req[r].u
<1>0. Types /\ Held /\ req[r].pc = "remove" BY DEF Typed, AdminRemove
<1>1. /\ UNCHANGED <<pending, setup, trust, clock, left, taken, twice, lost>>
      /\ user' = [user EXCEPT ![u] = None]
      /\ session' = {s \in session : s.user # u}
      /\ MarkLate(r, u)
  BY DEF AdminRemove
<1>2. /\ req' \in [Requests -> Asked \cup {Idle}]
      /\ req'[r].pc = "idle"
      /\ \A q \in Requests \ {r} :
           /\ req'[q].pc = req[q].pc
           /\ req[q].pc # "idle" =>
                /\ Kept(q)
                /\ req[q].late => req'[q].late
                /\ req[q].u = u => req'[q].late
  BY <1>0, <1>1, MarksLate
<1>3. u \in Users BY <1>0, IdleOrAsked DEF Asked
<1>4. /\ user' \in [Users -> Row \cup {None}] /\ user'[u] = None
      /\ \A v \in Users \ {u} : user'[v] = user[v]
  BY <1>0, <1>1, <1>3 DEF Types
<1>5. Types' BY <1>0, <1>1, <1>2, <1>4 DEF Types
<1>6. Held'
  <2>1. \A s \in session' : Exists(s.user)' BY <1>0, <1>1, <1>4 DEF Held, Exists, Types, Session
  <2> QED BY <1>0, <1>2, <2>1 DEF Held, Kept, WithRow, Enrolled
<1>7. \A q \in Requests \ {r} : Stays(q) BY <1>2 DEF Stays
<1>8. MovesAt(r) BY <1>0, <1>2 DEF MovesAt, Locks, Signing, OverFactor, OverPassword
<1>9. CodesMove
  <2>1. ASSUME NEW v \in Users PROVE NoneSpent(v)
    <3>1. Exists(v) => user[v].counter \in Nat BY <1>0, Rows DEF Row
    <3> QED BY <1>1, <1>4, <3>1 DEF NoneSpent, Exists
  <2> QED BY <1>1, <2>1 DEF CodesMove
<1>a. AdminsMove
  <2>1. Admins \ {u} \subseteq Admins' BY <1>4 DEF Admins, Enabled, Exists
  <2> QED BY <1>0, <1>1, <1>2, <2>1 DEF AdminsMove
<1>b. SessionsMove BY <1>1 DEF SessionsMove
<1>c. RowsMove
  <2>1. \A q \in Requests : req'[q].pc \in Signing /\ req'[q].u = u => req'[q].late
    BY <1>2 DEF Signing, Kept
  <2>2. ASSUME NEW v \in Users, v = u, Exists(v)'
        PROVE  FALSE
    BY <1>4, <2>2 DEF Exists
  <2>3. \A v \in Users \ {u} : user'[v] = user[v] BY <1>4
  <2>4. \A v \in Users \ {u} : Exists(v) <=> Exists(v)' BY <1>4 DEF Exists
  <2> QED BY <2>1, <2>2, <2>3, <2>4 DEF RowsMove
<1> QED BY <1>1, <1>5, <1>6, <1>7, <1>8, <1>9, <1>a, <1>b, <1>c, StaysMoves
        DEF Moves, Alone, Shares, Typed

LEMMA AdminResetMoves ==
  ASSUME Typed, NEW r \in Requests, AdminReset(r)
  PROVE  Typed' /\ (\A p \in Requests : MovesAt(p)) /\ Shares /\ Moves
<1>0. Types /\ Held /\ req[r].pc = "ask" BY DEF Typed, AdminReset
<1>1. UNCHANGED <<session, pending, setup, trust, clock, left, twice, lost>> BY DEF AdminReset
<1>2. PICK u \in Users :
        /\ SetTOTP(u, None, {})
        /\ req' = [req EXCEPT ![r].pc = "others", ![r].u = u, ![r].sid = None]
  BY DEF AdminReset
<1> DEFINE n == [req[r] EXCEPT !.pc = "others", !.u = u, !.sid = None]
<1>3. req[r] \in Asked BY <1>0, IdleOrAsked
<1>4. /\ n \in Asked /\ n.pc = "others" /\ n.id = req[r].id /\ n.sid = None
  BY <1>3 DEF Asked, Steps
<1>5. req' = [req EXCEPT ![r] = n] BY <1>0, <1>2, <1>3 DEF Types, Asked
<1> HIDE DEF n
<1>6. /\ req' \in [Requests -> Asked \cup {Idle}]
      /\ req'[r].pc = "others" /\ req'[r].id = req[r].id /\ req'[r].sid = None /\ Rest(r)
  BY <1>0, <1>4, <1>5 DEF Types, Rest
<1>7. /\ user' \in [Users -> Row \cup {None}] /\ \A v \in Users : Exists(v)' <=> Exists(v)
      /\ \A v \in Users \ {u} : user'[v] = user[v]
      /\ Exists(u) => /\ user'[u].totp = None /\ user'[u].codes = {}
                      /\ user'[u].pw = user[u].pw /\ user'[u].role = user[u].role
                      /\ user'[u].disabled = user[u].disabled
      /\ taken' \in [Users -> SUBSET Used] /\ taken'[u] = {}
      /\ \A v \in Users \ {u} : taken'[v] = taken[v]
  BY <1>0, <1>2, SetTyped
<1>8. Types' BY <1>0, <1>1, <1>6, <1>7 DEF Types
<1>9. Held' BY <1>0, <1>1, <1>6, <1>7, HeldAfter DEF Held, Types, Session, WithRow, Enrolled
<1>a. MovesAt(r) BY <1>0, <1>6 DEF MovesAt, Locks, Signing, OverFactor, OverPassword
<1>b. CodesMove
  <2>1. ASSUME NEW v \in Users PROVE NoneSpent(v)
    <3>1. Exists(v) => user[v].counter \in Nat BY <1>0, Rows DEF Row
    <3> QED BY <1>7, <3>1 DEF NoneSpent
  <2> QED BY <1>1, <2>1 DEF CodesMove
<1>c. AdminsMove /\ RowsMove
  <2>1. \A v \in Users : Exists(v) => /\ user'[v].pw = user[v].pw
                                      /\ user'[v].role = user[v].role
                                      /\ user'[v].disabled = user[v].disabled
                                      /\ user'[v].totp = user[v].totp \/ user'[v].totp = None
    BY <1>7
  <2> QED BY <1>0, <1>1, <1>7, <2>1, RowsStay
<1> QED BY <1>1, <1>6, <1>8, <1>9, <1>a, <1>b, <1>c, RestAlone DEF Shares, SessionsMove, Typed

LEMMA AdminCreateMoves ==
  ASSUME Typed, NEW r \in Requests, AdminCreate(r)
  PROVE  Typed' /\ (\A p \in Requests : MovesAt(p)) /\ Shares /\ Moves
<1>0. Types /\ Held /\ req[r].pc = "ask" BY DEF Typed, AdminCreate
<1>1. End(r) /\ UNCHANGED <<session, pending, setup, trust, clock, left, twice, lost>> BY DEF AdminCreate
<1>2. PICK u \in Users, role \in Roles :
        /\ ~Exists(u)
        /\ user' = [user EXCEPT ![u] = NewRow(req[r].id, role)]
        /\ taken' = [taken EXCEPT ![u] = {}]
  BY DEF AdminCreate
<1>3. /\ req' \in [Requests -> Asked \cup {Idle}] /\ req'[r].pc = "idle" /\ Rest(r)
  BY <1>0, <1>1, Ends
<1>4. NewRow(req[r].id, role) \in Row /\ NewRow(req[r].id, role).codes = {}
  <2>1. req[r].id \in Nat BY <1>0, IdleOrAsked DEF Asked
  <2> QED BY <2>1 DEF NewRow, Row
<1>5. /\ user' \in [Users -> Row \cup {None}] /\ user'[u].codes = {}
      /\ \A v \in Users \ {u} : user'[v] = user[v]
      /\ taken' \in [Users -> SUBSET Used] /\ taken'[u] = {}
      /\ \A v \in Users \ {u} : taken'[v] = taken[v]
      /\ \A v \in Users : Exists(v) => v # u /\ Exists(v)'
  BY <1>0, <1>2, <1>4 DEF Types, Exists
<1>6. Types' BY <1>0, <1>1, <1>3, <1>5 DEF Types
<1>7. Held'
  BY <1>0, <1>1, <1>3, <1>5 DEF Held, Types, Session, Rest, WithRow, Enrolled
<1>8. MovesAt(r) BY <1>0, <1>3 DEF MovesAt, Locks, Signing, OverFactor, OverPassword
<1>9. CodesMove
  <2>1. ASSUME NEW v \in Users PROVE NoneSpent(v)
    <3>1. Exists(v) => user[v].counter \in Nat BY <1>0, Rows DEF Row
    <3>2. v # u => (Exists(v)' <=> Exists(v)) BY <1>5 DEF Exists
    <3> QED BY <1>5, <3>1, <3>2 DEF NoneSpent
  <2> QED BY <1>1, <2>1 DEF CodesMove
<1>a. AdminsMove BY <1>1, <1>5 DEF AdminsMove, Admins, Enabled
<1>b. RowsMove BY <1>5 DEF RowsMove
<1> QED BY <1>1, <1>3, <1>6, <1>7, <1>8, <1>9, <1>a, <1>b, RestAlone DEF Shares, SessionsMove, Typed

\* Every step is one of these, and a request that is not its own stays.
LEMMA StepMoves ==
  ASSUME Typed, [Next]_vars
  PROVE  Typed' /\ (\A p \in Requests : MovesAt(p)) /\ Shares /\ Moves
<1>1. CASE UNCHANGED vars
  <2>1. UNCHANGED <<user, session, pending, setup, trust, clock, req, left, taken, twice, lost>>
    BY <1>1 DEF vars
  <2>2. Typed' BY <2>1 DEF Typed, Types, Held, Exists
  <2>3. \A q \in Requests : Stays(q) BY <2>1 DEF Stays, Kept
  <2> QED BY <2>1, <2>2, <2>3, AllRest, StaysMoves DEF Moves, Alone, Typed
<1>2. CASE Logout \/ Tick BY <1>2, AsideMoves
<1>3. ASSUME NEW r \in Requests,
             \/ Login(r) \/ LoginEnd(r) \/ Second(r) \/ Verify(r) \/ SecondEnd(r)
             \/ ChangeStart(r) \/ EnableStart(r) \/ DisableStart(r) \/ RecoverStart(r)
             \/ Change(r) \/ Setup(r) \/ Enable(r) \/ EnableCount(r)
             \/ Others(r) \/ Disable(r) \/ Recover(r)
             \/ AdminAsk(r) \/ AdminUpdate(r) \/ AdminWrite(r) \/ AdminDelete(r)
             \/ AdminRemove(r) \/ AdminReset(r) \/ AdminCreate(r)
      PROVE  Typed' /\ (\A p \in Requests : MovesAt(p)) /\ Shares /\ Moves
  BY <1>3, BeginMoves, LoginEndMoves, VerifyMoves, SecondEndMoves, ChangeMoves, AsideMoves,
     EnableMoves, EnableCountMoves, OthersMoves, DisableMoves, RecoverMoves, AdminAskMoves,
     AdminUpdateMoves, AdminWriteMoves, AdminDeleteMoves, AdminRemoveMoves, AdminResetMoves,
     AdminCreateMoves
<1> QED BY <1>1, <1>2, <1>3 DEF Next

-----------------------------------------------------------------------------
(* The inductive invariant.                                                *)

Active(r) == req[r].pc # "idle"

\* Requests have ids of their own, and what is not a request has another one.
Fresh(n) == n = 0 \/ n > left
Ids ==
  /\ \A r \in Requests : Active(r) =>
       /\ req[r].id > left
       /\ req[r].sid # None => Fresh(req[r].sid)
       /\ \A q \in Requests : Active(q) =>
            /\ req[r].sid # req[q].id
            /\ q # r => req[r].id # req[q].id
  /\ \A s \in session \cup pending :
       Fresh(s.id) /\ \A r \in Requests : Active(r) => req[r].id # s.id

\* A counter is past the intervals that were spent, a recovery code that was
\* spent is in no list, and the list that a request may write is a new one.
Of(code, list) == code[1] = "recovery" /\ code[2] = list
Lists(u) == taken[u] \cup (IF Exists(u) THEN user[u].codes ELSE {})
Codes ==
  /\ ~twice
  /\ \A u \in Users :
       /\ \A code \in taken[u] :
            Exists(u) /\ code[1] = "interval" => code[3] <= user[u].counter
       /\ \A code \in taken[u] : Exists(u) => code \notin user[u].codes
       /\ \A code \in Lists(u) :
            /\ code[1] = "recovery" => Fresh(code[2])
            /\ \A r \in Requests : req[r].pc \in {"recover", "renew"} => ~Of(code, req[r].id)

\* One administrator at a time, who was seen not to be the last one.
OneAtATime ==
  \A r, q \in Requests : req[r].pc \in Locks /\ req[q].pc \in Locks => r = q
Spared ==
  lost = {} => \A r \in Requests :
    /\ req[r].pc = "write" =>
         (Governs(req[r].row.old) /\ ~Governs(req[r].row.new) => Another(req[r].u))
    /\ req[r].pc = "remove" => Another(req[r].u)

\* Somebody is about to end the sessions of u, but for its own.
Ending(steps, u) == \E r \in Requests : req[r].pc \in steps /\ req[r].u = u
EndsOf(steps, s) ==
  \E r \in Requests : req[r].pc \in steps /\ req[r].u = s.user /\ req[r].sid # s.id
Earned ==
  \A s \in session : ~s.late =>
    /\ user[s.user].totp # None /\ s.factor = "password" => EndsOf(OverFactor, s)
    /\ s.user \notin lost /\ s.pw # user[s.user].pw => EndsOf(OverPassword, s)
\* What holds of a session that a request has not made yet.
Earning ==
  \A r \in Requests : req[r].pc \in Signing /\ ~req[r].late =>
    LET u == req[r].u IN
    /\ Exists(u)
    /\ req[r].pc = "login" /\ req[r].row.totp = None /\ user[u].totp # None =>
         Ending(OverFactor, u)
    /\ u \notin lost /\ req[r].row.pw # user[u].pw => Ending(OverPassword, u)

IInv ==
  /\ Typed /\ Ids /\ Codes /\ OneAtATime /\ Spared /\ AnAdminRemains
  /\ Earned /\ Earning

-----------------------------------------------------------------------------
(* Every step keeps it.                                                    *)

LEMMA ActiveTyped ==
  ASSUME Types, NEW r \in Requests, Active(r)
  PROVE  /\ req[r].id \in Nat /\ req[r].u \in Users
         /\ req[r].sid \in Nat \cup {None}
  BY IdleOrAsked DEF Active, Asked

\* A request that is active after a step was it before, or took the id left.
LEMMA OldOrNew ==
  ASSUME Typed, NEW r \in Requests, MovesAt(r), Active(r)'
  PROVE  \/ Active(r) /\ req'[r].id = req[r].id /\ req'[r].sid \in {req[r].sid, None}
         \/ /\ ~Active(r) /\ req'[r].id = left /\ left > 0 /\ left' = left - 1
            /\ req'[r].sid \in {None} \cup {s.id : s \in session} \cup {p.id : p \in pending}
            /\ UNCHANGED <<user, session, pending, taken, lost>>
  BY DEF MovesAt, Active

LEMMA IdsStep ==
  ASSUME Typed, Ids, \A q \in Requests : MovesAt(q), Moves, SessionsMove
  PROVE  Ids'
<1>0. Types /\ left \in Nat /\ left' \in {left, left - 1} /\ None \notin Nat
  BY NoneAssumption, NumbersAssumption DEF Typed, Types, Moves
<1>1. \A q \in Requests : Active(q) =>
        req[q].id \in Nat /\ req[q].sid \in Nat \cup {None} /\ req[q].id > left
        /\ (req[q].sid # None => Fresh(req[q].sid))
  BY <1>0, ActiveTyped DEF Ids
<1> DEFINE Old(q) == Active(q) /\ req'[q].id = req[q].id /\ req'[q].sid \in {req[q].sid, None}
           New(q) == /\ ~Active(q) /\ req'[q].id = left /\ left > 0 /\ left' = left - 1
                     /\ req'[q].sid \in {None} \cup {s.id : s \in session} \cup {p.id : p \in pending}
                     /\ UNCHANGED <<session, pending>>
<1>2. \A q \in Requests : Active(q)' => Old(q) \/ New(q)
  BY OldOrNew
<1>3. \A p, q \in Requests : Active(p)' /\ Active(q)' /\ New(p) /\ New(q) => p = q
  BY DEF Moves, Alone, Stays, Active
<1>4. \A s \in session \cup pending :
        s.id \in Nat /\ Fresh(s.id) /\ \A q \in Requests : Active(q) => req[q].id # s.id
  BY <1>0 DEF Ids, Types, Session, Waiting
<1>5. ASSUME NEW n \in Nat, Fresh(n) PROVE Fresh(n)' /\ (left > 0 => n # left)
  BY <1>0, <1>5 DEF Fresh
<1>6. ASSUME NEW q \in Requests, Active(q)'
      PROVE  /\ req'[q].id > left'
             /\ req'[q].sid # None => req'[q].sid = 0 \/ req'[q].sid > left'
  <2>1. CASE Old(q)
    <3>1. /\ req[q].id \in Nat /\ req[q].sid \in Nat \cup {None} /\ req[q].id > left
          /\ req[q].sid # None => Fresh(req[q].sid)
      BY <1>1, <2>1
    <3> QED BY <1>0, <2>1, <3>1 DEF Fresh
  <2>2. CASE New(q)
    <3>1. CASE req'[q].sid = None BY <1>0, <2>2, <3>1
    <3>2. CASE req'[q].sid # None
      <4>1. PICK s \in session \cup pending : req'[q].sid = s.id BY <2>2, <3>2
      <4>2. s.id \in Nat /\ Fresh(s.id) BY <1>4
      <4> QED BY <1>0, <2>2, <4>1, <4>2 DEF Fresh
    <3> QED BY <3>1, <3>2
  <2> QED BY <1>2, <1>6, <2>1, <2>2
<1>7. ASSUME NEW q \in Requests, Active(q)', NEW p \in Requests, Active(p)'
      PROVE  req'[q].sid # req'[p].id /\ (p # q => req'[q].id # req'[p].id)
  <2>1. CASE Old(q) /\ Old(p)
    <3>1. req[q].sid # req[p].id /\ (p # q => req[q].id # req[p].id) BY <2>1 DEF Ids
    <3>2. req[p].id \in Nat BY <1>1, <2>1
    <3> QED BY <1>0, <2>1, <3>1, <3>2
  <2>2. CASE Old(q) /\ New(p)
    <3>1. /\ req[q].id \in Nat /\ req[q].sid \in Nat \cup {None} /\ req[q].id > left
          /\ req[q].sid # None => Fresh(req[q].sid)
      BY <1>1, <2>2
    <3> QED BY <1>0, <2>2, <3>1 DEF Fresh
  <2>3. CASE New(q) /\ Old(p)
    <3>1. req[p].id \in Nat /\ req[p].id > left BY <1>1, <2>3
    <3>2. \A s \in session \cup pending : req[p].id # s.id BY <1>4, <2>3
    <3> QED BY <1>0, <2>3, <3>1, <3>2
  <2>4. CASE New(q) /\ New(p)
    <3>1. p = q BY <1>3, <1>7, <2>4
    <3>2. \A s \in session \cup pending : s.id # left BY <1>4, <1>5, <2>4
    <3> QED BY <1>0, <2>4, <3>1, <3>2
  <2> QED BY <1>2, <1>7, <2>1, <2>2, <2>3, <2>4
<1>8. ASSUME NEW s \in session' \cup pending'
      PROVE  Fresh(s.id)' /\ \A q \in Requests : Active(q)' => req'[q].id # s.id
  <2>1. \/ \E t \in session \cup pending : t.id = s.id
        \/ \E r \in Requests : Active(r) /\ ~Active(r)' /\ s.id = req[r].id
    BY DEF SessionsMove, Signs, Rewrites, Signing, Active
  <2>2. s.id \in Nat /\ Fresh(s.id)
    BY <1>1, <1>4, <2>1 DEF Fresh
  <2>3. ASSUME NEW q \in Requests, Active(q)' PROVE req'[q].id # s.id
    <3>1. CASE Old(q)
      <4>1. \A r \in Requests : Active(r) /\ ~Active(r)' => req[r].id # req[q].id
        BY <2>3, <3>1 DEF Ids
      <4> QED BY <1>4, <2>1, <3>1, <4>1
    <3>2. CASE New(q) BY <1>4, <1>5, <3>2
    <3> QED BY <1>2, <2>3, <3>1, <3>2
  <2> QED BY <1>0, <2>2, <2>3 DEF Fresh
<1> QED BY <1>6, <1>7, <1>8 DEF Ids, Fresh

LEMMA CodesStep ==
  ASSUME Typed, Typed', Ids, Codes, \A q \in Requests : MovesAt(q), Moves, CodesMove
  PROVE  Codes'
<1>0. /\ Types /\ Types' /\ left \in Nat /\ left' \in {left, left - 1}
  BY NumbersAssumption DEF Typed, Types, Moves
<1> DEFINE Renewed(code) == \E r \in Requests :
             /\ req[r].pc \in {"enable", "renew"} /\ req'[r].pc \notin {"recover", "renew"}
             /\ code \in NewCodes(req[r].id)
<1>1. \A u \in Users : /\ taken[u] \subseteq Used
                       /\ Exists(u) => user[u] \in Row /\ user[u].codes \subseteq Code /\ user[u].counter \in Nat
  BY <1>0, Rows DEF Types, Row
<1>2. ASSUME NEW u \in Users, NEW code \in Lists(u)'
      PROVE  code \in Lists(u) \/ code[1] = "interval" \/ Renewed(code)
  <2>1. CASE NoneSpent(u)
    BY <1>0, <1>2, <2>1 DEF NoneSpent, Lists, Types
  <2>2. CASE \E v \in Users, c \in Used : Spends(v, c)
    <3>1. PICK v \in Users, c \in Used : Spends(v, c) BY <2>2
    <3>2. CASE u # v BY <1>0, <1>2, <3>1, <3>2 DEF Spends, Lists, Types, Exists
    <3>3. CASE u = v BY <1>0, <1>2, <3>1, <3>3 DEF Spends, Lists, Types
    <3> QED BY <3>2, <3>3
  <2> QED BY <2>1, <2>2 DEF CodesMove
<1>3. ASSUME NEW code, Renewed(code)
      PROVE  \E r \in Requests : /\ Active(r) /\ req'[r].pc \notin {"recover", "renew"}
                                 /\ code[1] = "recovery" /\ code[2] = req[r].id
                                 /\ req[r].id \in Nat /\ req[r].id > left
  <2>1. PICK r \in Requests :
             /\ req[r].pc \in {"enable", "renew"} /\ req'[r].pc \notin {"recover", "renew"}
             /\ code \in NewCodes(req[r].id)
    BY <1>3
  <2>2. code[1] = "recovery" /\ code[2] = req[r].id BY <2>1 DEF NewCodes
  <2>3. Active(r) BY <2>1 DEF Active
  <2>4. req[r].id \in Nat /\ req[r].id > left BY <1>0, <2>3, ActiveTyped DEF Ids
  <2> QED BY <2>1, <2>2, <2>3, <2>4
<1>4. ASSUME NEW u \in Users, NEW code \in Lists(u)
      PROVE  code[1] = "recovery" => code[2] \in Nat /\ Fresh(code[2])
  <2>1. code \in Used BY <1>1, <1>4 DEF Lists, Used
  <2>2. code[1] = "recovery" => code[2] \in Nat BY <2>1 DEF Used, Code
  <2> QED BY <1>4, <2>2 DEF Codes
<1>5. ASSUME NEW u \in Users, NEW code \in Lists(u)', code[1] = "recovery"
      PROVE  Fresh(code[2])'
  BY <1>0, <1>2, <1>3, <1>4, <1>5 DEF Fresh
<1>6. ASSUME NEW u \in Users, NEW code \in Lists(u)', NEW p \in Requests,
             req'[p].pc \in {"recover", "renew"}, Of(code, req'[p].id)
      PROVE  FALSE
  <2>0. code[1] = "recovery" /\ code[2] = req'[p].id BY <1>6 DEF Of
  <2>1. CASE Active(p)
    <3>1. req[p].pc \in {"recover", "renew"} /\ req'[p].id = req[p].id
      BY <1>6, <2>1 DEF MovesAt, Active
    <3>2. code \notin Lists(u) BY <2>0, <3>1 DEF Codes, Of
    <3>3. PICK r \in Requests : /\ Active(r) /\ req'[r].pc \notin {"recover", "renew"}
                                /\ code[2] = req[r].id
      BY <1>2, <1>3, <1>6, <2>0, <3>2
    <3> QED BY <1>6, <2>0, <2>1, <3>1, <3>3 DEF Ids
  <2>2. CASE ~Active(p)
    <3>1. req'[p].id = left /\ left > 0 BY <1>6, <2>2 DEF MovesAt, Active
    <3> QED BY <1>0, <1>2, <1>3, <1>4, <1>6, <2>0, <3>1 DEF Fresh
  <2> QED BY <2>1, <2>2
<1>7. ASSUME NEW u \in Users, NEW code \in taken'[u], Exists(u)'
      PROVE  /\ code[1] = "interval" => code[3] <= user'[u].counter
             /\ code \notin user'[u].codes
  <2>0. user'[u] \in Row /\ user'[u].counter \in Nat /\ code \in Used
    <3>1. user'[u] # None BY <1>7 DEF Exists
    <3> QED BY <1>0, <3>1 DEF Types, Row
  <2>a. /\ code[1] = "interval" => code[3] \in Nat
        /\ code \in Code => code[1] = "recovery"
    BY <2>0 DEF Used, Code
  <2>1. CASE NoneSpent(u)
    <3>1. CASE taken'[u] = {} BY <1>7, <3>1
    <3>2. CASE /\ taken'[u] = taken[u]
               /\ Exists(u) /\ user'[u].codes = user[u].codes /\ user'[u].counter >= user[u].counter
      <4>1. /\ code[1] = "interval" => code[3] <= user[u].counter
            /\ code \notin user[u].codes
        BY <1>7, <3>2 DEF Codes
      <4>2. user[u].counter \in Nat BY <1>1, <3>2
      <4> QED BY <2>0, <2>a, <3>2, <4>1, <4>2
    <3>3. CASE /\ taken'[u] = taken[u]
               /\ \E r \in Requests :
                    /\ req[r].pc = "renew" /\ Exists(u) /\ user'[u].codes = NewCodes(req[r].id)
                    /\ user'[u].counter = user[u].counter
      <4>1. PICK r \in Requests :
                    /\ req[r].pc = "renew" /\ Exists(u) /\ user'[u].codes = NewCodes(req[r].id)
                    /\ user'[u].counter = user[u].counter
        BY <3>3
      <4>2. code \in Lists(u) BY <1>7, <3>3 DEF Lists
      <4>3. ~Of(code, req[r].id) BY <4>1, <4>2 DEF Codes
      <4>4. code \notin NewCodes(req[r].id) BY <4>3 DEF Of, NewCodes
      <4> QED BY <1>7, <3>3, <4>1, <4>4 DEF Codes
    <3> QED BY <1>7, <2>1, <3>1, <3>2, <3>3 DEF NoneSpent
  <2>2. CASE \E v \in Users, c \in Used : Spends(v, c)
    <3>1. PICK v \in Users, c \in Used : Spends(v, c) BY <2>2
    <3>2. CASE u # v
      <4>1. user'[u] = user[u] /\ taken'[u] = taken[u] BY <1>0, <3>1, <3>2 DEF Spends, Types
      <4> QED BY <1>7, <4>1 DEF Exists, Codes
    <3>3. CASE u = v
      <4>1. Exists(u) /\ user[u].codes \subseteq Code /\ user[u].counter \in Nat
        BY <1>1, <3>1, <3>3 DEF Spends
      <4>2. taken'[u] = taken[u] \cup {c} BY <1>0, <3>1, <3>3 DEF Spends, Types
      <4>3. code # c => /\ code[1] = "interval" => code[3] <= user[u].counter
                        /\ code \notin user[u].codes
        BY <1>7, <4>1, <4>2 DEF Codes
      <4>4. CASE /\ c[1] = "interval" /\ user[u].counter < c[3]
                 /\ user'[u].counter = c[3] /\ user'[u].codes = user[u].codes
        BY <2>0, <2>a, <4>1, <4>3, <4>4
      <4>5. CASE /\ c \in user[u].codes
                 /\ user'[u].codes = user[u].codes \ {c} /\ user'[u].counter = user[u].counter
        <5>1. c[1] = "recovery" BY <4>1, <4>5 DEF Code
        <5> QED BY <4>3, <4>5, <5>1
      <4> QED BY <3>1, <3>3, <4>4, <4>5 DEF Spends
    <3> QED BY <3>2, <3>3
  <2> QED BY <2>1, <2>2 DEF CodesMove
<1>8. ~twice'
  <2>1. CASE twice' = twice BY <2>1 DEF Codes
  <2>2. CASE \E v \in Users, c \in Used : Spends(v, c)
    <3>1. PICK v \in Users, c \in Used : Spends(v, c) BY <2>2
    <3>2. c \notin taken[v]
      <4>1. user[v].counter \in Nat /\ (c[1] = "interval" => c[3] \in Nat)
        BY <1>1, <3>1 DEF Spends, Used, Code
      <4> QED BY <3>1, <4>1 DEF Spends, Codes
    <3> QED BY <3>1, <3>2 DEF Spends, Codes
  <2> QED BY <2>1, <2>2 DEF CodesMove
<1> QED BY <1>5, <1>6, <1>7, <1>8 DEF Codes

LEMMA AdminsStep ==
  ASSUME Typed, OneAtATime, Spared, AnAdminRemains, \A q \in Requests : MovesAt(q), Moves, AdminsMove
  PROVE  OneAtATime' /\ Spared' /\ AnAdminRemains'
<1>0. lost \subseteq lost' BY DEF AdminsMove
<1>1. OneAtATime'
  <2>1. SUFFICES ASSUME NEW p \in Requests, NEW q \in Requests, p # q,
                        req'[p].pc \in Locks, req'[q].pc \in Locks
                 PROVE  FALSE
    BY DEF OneAtATime
  <2>2. /\ req[p].pc \in Locks \/ AdminFree
        /\ req[q].pc \in Locks \/ AdminFree
    BY <2>1 DEF MovesAt
  <2>3. req'[p].pc = req[p].pc \/ req'[q].pc = req[q].pc
    BY <2>1 DEF Moves, Alone, Stays
  <2>4. req[p].pc \in Locks \/ req[q].pc \in Locks BY <2>1, <2>3
  <2>5. ~AdminFree BY <2>4 DEF AdminFree, Locks
  <2> QED BY <2>1, <2>2, <2>5 DEF OneAtATime
\* Who loses the role was not the last one, and nobody else loses it.
<1>2. ASSUME NEW r \in Requests, lost' = {}, req[r].pc \in {"write", "remove"}, Another(req[r].u),
             \/ req'[r].pc = req[r].pc /\ Kept(r)
             \/ Admins \ {req[r].u} \subseteq Admins'
      PROVE  \E v \in Admins' : v # req[r].u
  <2>1. PICK v \in Admins : v # req[r].u BY <1>2 DEF Another
  <2>2. CASE Admins \ {req[r].u} \subseteq Admins' BY <2>1, <2>2
  <2>3. CASE req'[r].pc = req[r].pc /\ Kept(r)
    <3>1. Admins \subseteq Admins'
      <4>1. ASSUME NEW q \in Requests, req[q].pc \in {"write", "remove"}, req'[q].pc # req[q].pc
            PROVE  FALSE
        <5>1. q = r BY <1>2, <4>1 DEF OneAtATime, Locks
        <5> QED BY <2>3, <4>1, <5>1
      <4> QED BY <1>2, <4>1 DEF AdminsMove
    <3> QED BY <2>1, <3>1
  <2> QED BY <1>2, <2>2, <2>3
<1>3. Spared'
  <2> SUFFICES ASSUME lost' = {}, NEW r \in Requests
               PROVE  /\ req'[r].pc = "write" =>
                           (Governs(req'[r].row.old) /\ ~Governs(req'[r].row.new)
                              => \E v \in Admins' : v # req'[r].u)
                      /\ req'[r].pc = "remove" => \E v \in Admins' : v # req'[r].u
    BY DEF Spared, Another, Governs
  <2>0. lost = {} BY <1>0
  <2>1. ASSUME req'[r].pc = "write", Governs(req'[r].row.old), ~Governs(req'[r].row.new)
        PROVE  \E v \in Admins' : v # req'[r].u
    <3>1. CASE req[r].pc = "write" /\ Kept(r)
      <4>1. Another(req[r].u) BY <2>0, <2>1, <3>1 DEF Spared, Kept
      <4> QED BY <1>2, <2>1, <3>1, <4>1 DEF Kept
    <3>2. CASE UNCHANGED <<user, lost>> /\ (Governs(req'[r].row.old) /\ ~Governs(req'[r].row.new) => Another(req'[r].u))
      BY <2>1, <3>2 DEF Another, Admins, Enabled, Exists
    <3> QED BY <2>1, <3>1, <3>2 DEF MovesAt
  <2>2. ASSUME req'[r].pc = "remove" PROVE \E v \in Admins' : v # req'[r].u
    <3>1. CASE req[r].pc = "remove" /\ Kept(r)
      <4>1. Another(req[r].u) BY <2>0, <3>1 DEF Spared
      <4> QED BY <1>2, <2>2, <3>1, <4>1 DEF Kept
    <3>2. CASE UNCHANGED <<user, lost>> /\ (req'[r].u \in Admins => Another(req'[r].u))
      <4>1. Admins' = Admins BY <3>2 DEF Admins, Enabled, Exists
      <4>2. Admins # {} BY <2>0 DEF AnAdminRemains
      <4> QED BY <3>2, <4>1, <4>2 DEF Another
    <3> QED BY <2>2, <3>1, <3>2 DEF MovesAt
  <2> QED BY <2>1, <2>2
<1>4. AnAdminRemains'
  <2> SUFFICES ASSUME lost' = {} PROVE Admins' # {} BY DEF AnAdminRemains
  <2>0. lost = {} /\ Admins # {} BY <1>0 DEF AnAdminRemains
  <2>1. CASE Admins \subseteq Admins' BY <2>0, <2>1
  <2>2. ASSUME NEW r \in Requests, req[r].pc = "write", Admins \ {req[r].u} \subseteq Admins',
               req[r].u \in Admins \ Admins' => Governs(req[r].row.old) /\ ~Governs(req[r].row.new)
        PROVE  Admins' # {}
    <3>1. req[r].u \in Admins \ Admins' => Another(req[r].u) BY <2>0, <2>2 DEF Spared
    <3> QED BY <2>0, <2>2, <3>1 DEF Another
  <2>3. ASSUME NEW r \in Requests, req[r].pc = "remove", Admins \ {req[r].u} \subseteq Admins'
        PROVE  Admins' # {}
    <3>1. Another(req[r].u) BY <2>0, <2>3 DEF Spared
    <3> QED BY <2>3, <3>1 DEF Another
  <2> QED BY <2>1, <2>2, <2>3 DEF AdminsMove
<1> QED BY <1>1, <1>3, <1>4

\* Who is about to end sessions still is after a step, or has ended them.
LEMMA StillEnding ==
  ASSUME \A q \in Requests : MovesAt(q), NEW steps \in {OverFactor, OverPassword},
         NEW r \in Requests, req[r].pc \in steps
  PROVE  Clears(r) \/ (req'[r].pc \in steps /\ Kept(r))
  BY DEF MovesAt

LEMMA EarningStep ==
  ASSUME Typed, Typed', Earning, \A q \in Requests : MovesAt(q), RowsMove, lost \subseteq lost'
  PROVE  Earning'
<1>1. ASSUME NEW r \in Requests, req'[r].pc \in Signing, ~req'[r].late,
             NEW u \in Users, u = req'[r].u
      PROVE  /\ user'[u] # None
             /\ req'[r].pc = "login" /\ req'[r].row.totp = None /\ user'[u].totp # None =>
                  \E p \in Requests : req'[p].pc \in OverFactor /\ req'[p].u = u
             /\ u \notin lost' /\ req'[r].row.pw # user'[u].pw =>
                  \E p \in Requests : req'[p].pc \in OverPassword /\ req'[p].u = u
  <2>0. req'[r].pc # "idle" BY <1>1 DEF Signing
  <2>1. CASE /\ req[r].pc \in Signing /\ ~req[r].late /\ Kept(r)
             /\ req'[r].pc = "login" => req[r].pc = "login"
    <3>1. /\ Exists(u) /\ req'[r].row = req[r].row /\ req[r].u = u
          /\ req'[r].pc = "login" /\ req[r].row.totp = None /\ user[u].totp # None =>
               Ending(OverFactor, u)
          /\ u \notin lost /\ req[r].row.pw # user[u].pw => Ending(OverPassword, u)
      BY <1>1, <2>1 DEF Earning, Kept
    <3>2. Exists(u)' BY <1>1, <3>1 DEF RowsMove
    <3>3. ASSUME NEW steps \in {OverFactor, OverPassword}, Ending(steps, u)
          PROVE  \E p \in Requests : req'[p].pc \in steps /\ req'[p].u = u
      <4>1. PICK p \in Requests : req[p].pc \in steps /\ req[p].u = u BY <3>3 DEF Ending
      <4>2. ~Clears(p) BY <1>1, <2>0, <4>1 DEF Clears
      <4> QED BY <4>1, <4>2, StillEnding DEF Kept
    <3>4. ASSUME req'[r].pc = "login", req'[r].row.totp = None, user'[u].totp # None
          PROVE  \E p \in Requests : req'[p].pc \in OverFactor /\ req'[p].u = u
      <4>1. CASE user[u].totp # None BY <3>1, <3>3, <3>4, <4>1
      <4>2. CASE user[u].totp = None BY <3>1, <3>2, <3>4, <4>2 DEF RowsMove, OverFactor
      <4> QED BY <4>1, <4>2
    <3>5. ASSUME u \notin lost', req'[r].row.pw # user'[u].pw
          PROVE  \E p \in Requests : req'[p].pc \in OverPassword /\ req'[p].u = u
      <4>1. CASE user[u].pw = user'[u].pw BY <3>1, <3>3, <3>5, <4>1
      <4>2. CASE user[u].pw # user'[u].pw BY <3>1, <3>2, <3>5, <4>2 DEF RowsMove
      <4> QED BY <4>1, <4>2
    <3> QED BY <3>2, <3>4, <3>5 DEF Exists
  <2>2. CASE req[r].pc = "idle" /\ Exists(u) /\ req'[r].row = user[u]
    <3>1. UNCHANGED <<user, lost>> BY <2>0, <2>2 DEF MovesAt
    <3> QED BY <2>2, <3>1 DEF Exists
  <2> QED BY <1>1, <2>1, <2>2 DEF MovesAt
<1>2. \A r \in Requests : req'[r].pc \in Signing => req'[r].u \in Users
  <2>1. \A r \in Requests : req'[r].pc \in Signing => req'[r] \in Asked
    BY DEF Typed, Types, Signing, Idle
  <2> QED BY <2>1 DEF Asked
<1> QED BY <1>1, <1>2 DEF Earning, Exists, Ending

LEMMA EarnedStep ==
  ASSUME Typed, Typed', Ids, Earned, Earning, \A q \in Requests : MovesAt(q), SessionsMove,
         RowsMove, lost \subseteq lost'
  PROVE  Earned'
<1>0. \A s \in session : s.user \in Users /\ Exists(s.user)
  BY DEF Typed, Types, Held, Session
<1>1. \A s \in session' : s.user \in Users /\ Exists(s.user)'
  BY DEF Typed, Types, Held, Session
\* A session that was there, perhaps with another password or factor.
<1>2. ASSUME NEW s \in session', ~s.late, NEW t \in session, t.id = s.id, t.user = s.user, ~t.late
      PROVE  /\ s.factor = t.factor /\ user'[s.user].totp # None /\ s.factor = "password" =>
                  EndsOf(OverFactor, s)'
             /\ s.pw = t.pw /\ s.user \notin lost' /\ s.pw # user'[s.user].pw =>
                  EndsOf(OverPassword, s)'
  <2> DEFINE u == s.user
  <2>1. u \in Users /\ Exists(u) /\ Exists(u)' BY <1>0, <1>1, <1>2
  <2>2. ASSUME NEW steps \in {OverFactor, OverPassword}, EndsOf(steps, t)
        PROVE  EndsOf(steps, s)'
    <3>1. PICK r \in Requests : req[r].pc \in steps /\ req[r].u = u /\ req[r].sid # s.id
      BY <1>2, <2>2 DEF EndsOf
    <3>2. ~Clears(r) BY <1>2, <3>1 DEF Clears
    <3>3. req'[r].pc \in steps /\ Kept(r) BY <3>1, <3>2, StillEnding
    <3> QED BY <3>1, <3>3 DEF EndsOf, Kept
  <2>3. ASSUME s.factor = t.factor, user'[u].totp # None, s.factor = "password"
        PROVE  EndsOf(OverFactor, s)'
    <3>1. CASE user[u].totp # None BY <1>2, <2>2, <2>3, <3>1 DEF Earned
    <3>2. CASE user[u].totp = None
      <4>1. PICK r \in Requests :
                /\ req'[r].pc = "count" /\ req'[r].u = u
                /\ \A x \in session' : x.user = u /\ x.id = req'[r].sid => x.factor = "own"
        BY <2>1, <2>3, <3>2 DEF RowsMove
      <4>2. req'[r].sid # s.id BY <2>3, <4>1
      <4> QED BY <4>1, <4>2 DEF EndsOf, OverFactor
    <3> QED BY <3>1, <3>2
  <2>4. ASSUME s.pw = t.pw, u \notin lost', s.pw # user'[u].pw PROVE EndsOf(OverPassword, s)'
    <3>1. CASE user[u].pw = user'[u].pw BY <1>2, <2>2, <2>4, <3>1 DEF Earned
    <3>2. CASE user[u].pw # user'[u].pw
      <4>1. PICK r \in Requests :
                /\ req'[r].pc \in OverPassword /\ req'[r].u = u
                /\ \A x \in session' : x.user = u /\ x.id = req'[r].sid => x.pw = user'[u].pw
        BY <2>1, <2>4, <3>2 DEF RowsMove
      <4>2. req'[r].sid # s.id BY <2>4, <4>1
      <4> QED BY <4>1, <4>2 DEF EndsOf
    <3> QED BY <3>1, <3>2
  <2> QED BY <2>3, <2>4
\* A session that a login has made.
<1>3. ASSUME NEW s \in session', s \notin session, ~s.late, Signs(s)
      PROVE  /\ user'[s.user].totp # None /\ s.factor = "password" => EndsOf(OverFactor, s)'
             /\ s.user \notin lost' /\ s.pw # user'[s.user].pw => EndsOf(OverPassword, s)'
  <2> DEFINE u == s.user
  <2>1. PICK r \in Requests :
          /\ req[r].pc \in Signing /\ Exists(req[r].u) /\ UNCHANGED <<user, lost>>
          /\ s.id = req[r].id /\ u = req[r].u /\ s.pw = req[r].row.pw /\ s.late = req[r].late
          /\ s.factor = "password" => req[r].pc = "login" /\ req[r].row.totp = None
    BY <1>3 DEF Signs
  <2>2. /\ req[r].pc = "login" /\ req[r].row.totp = None /\ user[u].totp # None =>
             Ending(OverFactor, u)
        /\ u \notin lost /\ req[r].row.pw # user[u].pw => Ending(OverPassword, u)
    BY <1>3, <2>1 DEF Earning
  <2>3. ASSUME NEW steps \in {OverFactor, OverPassword}, Ending(steps, u)
        PROVE  EndsOf(steps, s)'
    <3>1. PICK q \in Requests : req[q].pc \in steps /\ req[q].u = u BY <2>3 DEF Ending
    <3>2. Active(q) /\ Active(r) BY <2>1, <3>1 DEF Active, OverFactor, OverPassword, Signing
    <3>3. req[q].sid # s.id BY <2>1, <3>2 DEF Ids
    <3>4. ~Clears(q) BY <1>3 DEF Clears
    <3>5. req'[q].pc \in steps /\ Kept(q) BY <3>1, <3>4, StillEnding
    <3> QED BY <3>1, <3>3, <3>5 DEF EndsOf, Kept
  <2> QED BY <2>1, <2>2, <2>3
<1>4. ASSUME NEW s \in session', ~s.late
      PROVE  /\ user'[s.user].totp # None /\ s.factor = "password" => EndsOf(OverFactor, s)'
             /\ s.user \notin lost' /\ s.pw # user'[s.user].pw => EndsOf(OverPassword, s)'
  <2>1. CASE s \in session BY <1>2, <1>4, <2>1
  <2>2. CASE s \notin session /\ Signs(s) BY <1>3, <1>4, <2>2
  <2>3. CASE Rewrites(s)
    <3>1. PICK t \in session :
            /\ t.id = s.id /\ t.user = s.user /\ t.late = s.late
            /\ \/ s.factor = t.factor /\ s.pw = user'[s.user].pw
               \/ s.factor = "own" /\ s.pw = t.pw
      BY <2>3 DEF Rewrites
    <3> QED BY <1>2, <1>4, <3>1
  <2> QED BY <2>1, <2>2, <2>3 DEF SessionsMove
<1> QED BY <1>4 DEF Earned

-----------------------------------------------------------------------------
(* The theorems.                                                           *)

LEMMA InitIInv == ASSUME Init PROVE IInv
<1>1. ASSUME NEW role \in Roles, NEW totp \in {0, None}
      PROVE  /\ FirstRow(role, totp) \in Row /\ FirstRow(role, totp).pw = 0
             /\ \A code \in FirstRow(role, totp).codes : code[2] = 0
  <2> DEFINE row == NewRow(0, role)
             codes == IF totp = None THEN {} ELSE NewCodes(0)
  <2>1. codes \in SUBSET Code /\ \A code \in codes : code[2] = 0
    <3>1. NewCodes(0) \in SUBSET Code BY NewCodesTyped
    <3>2. \A code \in NewCodes(0) : code[2] = 0 BY DEF NewCodes
    <3> QED BY <3>1, <3>2
  <2>2. row \in Row /\ row.pw = 0 BY DEF NewRow, Row
  <2>3. FirstRow(role, totp) = [row EXCEPT !.totp = totp, !.codes = codes] BY DEF FirstRow
  <2> HIDE DEF row, codes
  <2> QED BY <2>1, <2>2, <2>3 DEF Row
<1>2. \A u \in Users : user[u] = None \/ \E role \in Roles, totp \in {0, None} : user[u] = FirstRow(role, totp)
  BY DEF Init
<1>3. /\ user \in [Users -> Row \cup {None}]
      /\ \A u \in Users : Exists(u) => user[u].pw = 0 /\ \A code \in user[u].codes : code[2] = 0
  <2>1. \A u \in Users : \/ user[u] = None
                         \/ user[u] \in Row /\ user[u].pw = 0 /\ \A code \in user[u].codes : code[2] = 0
    BY <1>1, <1>2
  <2>2. user \in [Users -> Row \cup {None}]
    <3>1. user = [u \in Users |-> user[u]] BY DEF Init
    <3> QED BY <2>1, <3>1
  <2> QED BY <2>1, <2>2 DEF Exists
<1>4. /\ pending = {} /\ trust = {} /\ setup = [u \in Users |-> None] /\ clock = 1
      /\ req = [r \in Requests |-> Idle] /\ left = Budget
      /\ taken = [u \in Users |-> {}] /\ twice = FALSE /\ lost = {} /\ Admins # {}
  BY DEF Init
<1>5. \A s \in session : /\ s \in Session /\ Exists(s.user) /\ s.id = 0 /\ s.pw = 0 /\ s.user \in Users
                         /\ user[s.user].totp # None => s.factor # "password"
  <2>1. ASSUME NEW u \in Users
        PROVE  LET s == FirstSession(u) IN
               /\ s \in Session /\ s.id = 0 /\ s.pw = 0 /\ s.user = u
               /\ user[u].totp # None => s.factor # "password"
    BY DEF FirstSession, Session
  <2>2. \A s \in session : \E u \in Users : Exists(u) /\ s = FirstSession(u) BY DEF Init
  <2> QED BY <2>1, <2>2
<1>6. Typed
  <2>0. left \in 0..Budget /\ clock \in 1..MaxClock BY <1>4, NumbersAssumption
  <2>1. Types BY <1>3, <1>4, <1>5, <2>0 DEF Types
  <2>2. Held BY <1>4, <1>5 DEF Held, Idle, WithRow, Enrolled
  <2> QED BY <2>1, <2>2 DEF Typed
<1>7. Ids BY <1>4, <1>5 DEF Ids, Active, Idle, Fresh
<1>8. Codes
  <2>1. \A u \in Users : taken[u] = {} BY <1>4
  <2>2. \A r \in Requests : req[r].pc = "idle" BY <1>4 DEF Idle
  <2> QED BY <1>3, <1>4, <2>1, <2>2 DEF Codes, Lists, Fresh
<1>9. OneAtATime /\ Spared /\ Earning
  <2>1. \A r \in Requests : req[r].pc = "idle" BY <1>4 DEF Idle
  <2> QED BY <2>1 DEF OneAtATime, Spared, Earning, Locks, Signing
<1>a. AnAdminRemains BY <1>4 DEF AnAdminRemains
<1>b. Earned BY <1>3, <1>5 DEF Earned
<1> QED BY <1>6, <1>7, <1>8, <1>9, <1>a, <1>b DEF IInv

LEMMA StepIInv == ASSUME IInv, [Next]_vars PROVE IInv'
<1>1. Typed /\ Ids /\ Codes /\ OneAtATime /\ Spared /\ AnAdminRemains /\ Earned /\ Earning
  BY DEF IInv
<1>2. Typed' /\ (\A p \in Requests : MovesAt(p)) /\ Shares /\ Moves BY <1>1, StepMoves
<1>3. CodesMove /\ AdminsMove /\ SessionsMove /\ RowsMove /\ lost \subseteq lost'
  BY <1>2 DEF Shares, AdminsMove
<1>4. Ids' BY <1>1, <1>2, <1>3, IdsStep
<1>5. Codes' BY <1>1, <1>2, <1>3, CodesStep
<1>6. OneAtATime' /\ Spared' /\ AnAdminRemains' BY <1>1, <1>2, <1>3, AdminsStep
<1>7. Earning' BY <1>1, <1>2, <1>3, EarningStep
<1>8. Earned' BY <1>1, <1>2, <1>3, EarnedStep
<1> QED BY <1>2, <1>4, <1>5, <1>6, <1>7, <1>8 DEF IInv

LEMMA Invariant == Spec => []IInv
<1>1. Init => IInv BY InitIInv
<1>2. IInv /\ [Next]_vars => IInv' BY StepIInv
<1> QED BY <1>1, <1>2, PTL DEF Spec

\* Between two SetTOTP of an account no code is taken twice, whichever requests
\* compare it at the same time (verifyTOTPOrRecovery).
THEOREM CodesAreTakenOnce == Spec => []CodesOnce
<1>1. IInv => CodesOnce BY DEF IInv, Typed, Types, Held, Codes, CodesOnce, TypeOK, Session, Waiting
<1> QED BY <1>1, Invariant, PTL

\* A session without the second factor, or with an old password, has a request
\* that is about to end it (DeleteUserSessions in handleTOTPEnable,
\* handleChangePassword and handleAdminUserUpdate).
THEOREM SessionsStayEarned == Spec => []SessionsAreEarned
<1>1. IInv => SessionsAreEarned
  <2>1. ASSUME IInv, NEW s \in session, NEW steps \in {OverFactor, OverPassword}, EndsOf(steps, s)
        PROVE  ~Settled(s.user, steps)
    <3>1. PICK r \in Requests : req[r].pc \in steps /\ req[r].u = s.user BY <2>1 DEF EndsOf
    <3>2. req[r] # Idle BY <3>1 DEF Idle, OverFactor, OverPassword
    <3> QED BY <3>1, <3>2 DEF Settled
  <2>2. ASSUME IInv PROVE Earned BY <2>2 DEF IInv
  <2> QED BY <2>1, <2>2 DEF Earned, SessionsAreEarned, OverFactor, OverPassword
<1> QED BY <1>1, Invariant, PTL

\* However the requests of administrators meet, one enabled administrator stays
\* (last_admin in handlers_admin.go), unless a password change wrote an old row.
THEOREM AnAdministratorStays == Spec => []AnAdminRemains
<1>1. IInv => AnAdminRemains BY DEF IInv
<1> QED BY <1>1, Invariant, PTL

=============================================================================
