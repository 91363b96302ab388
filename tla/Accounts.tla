------------------------------ MODULE Accounts ------------------------------
(* Accounts, their sessions and the second factor.                         *)
(*                                                                         *)
(* A request works with the row of its user as it was when it began, while *)
(* the row, the sessions and the logins that wait for a code change under  *)
(* it.  The steps are the statements of the database.  A wrong password, a *)
(* limit or a lock refuses a request before it changes anything: only the  *)
(* requests that pass them take steps here.                                *)
EXTENDS Integers, FiniteSets

CONSTANTS
  Users,      \* account ids
  Requests,   \* concurrent requests
  None,       \* no account, no enrolment, no change
  NumCodes,   \* recovery codes of an enrolment
  MaxClock,   \* the last 30-second interval
  Changes,    \* what an administrator asks for: new values, or None
  Budget      \* how many requests there are

ASSUME NumbersAssumption ==
  NumCodes \in Nat \ {0} /\ MaxClock \in Nat \ {0} /\ Budget \in Nat
ASSUME ChangesAssumption ==
  Changes \subseteq [role : {"admin", "user", None}, disabled : {TRUE, FALSE, None},
                     must : {TRUE, FALSE, None}, pw : BOOLEAN]
ASSUME UsersAssumption == IsFiniteSet(Users)

Roles == {"admin", "user"}
Code == {"recovery"} \X Nat \X (1..NumCodes)
Row == [pw : Nat, role : Roles, disabled : BOOLEAN, must : BOOLEAN,
        totp : Nat \cup {None}, counter : Nat, codes : SUBSET Code]

ASSUME NoneAssumption == None \notin Row /\ None \notin Nat

VARIABLES
  user,       \* rows of the table users
  session,    \* rows of the table sessions
  pending,    \* logins that wait for a code
  setup,      \* secrets that are not confirmed yet, by user
  trust,      \* cookies of trusted devices that were given out
  clock,      \* the current interval
  req,        \* the requests
  left,       \* requests still to come, and a source of fresh values
  taken,      \* codes each account has spent since the last SetTOTP
  twice,      \* a code was taken that had been taken before
  lost        \* users with a column that a request set back to an old value

vars == <<user, session, pending, setup, trust, clock, req, left, taken, twice, lost>>

Idle == [pc |-> "idle"]
Exists(u) == user[u] # None
Enabled(u) == IF Exists(u) THEN ~user[u].disabled ELSE FALSE
Admins == {u \in Users : IF Enabled(u) THEN user[u].role = "admin" ELSE FALSE}

\* A code is an interval of a secret, or one of a list of recovery codes.
NewCodes(list) == {<<"recovery", list, k>> : k \in 1..NumCodes}
Window == {c \in (clock - 1)..(clock + 1) : c > 0}

\* A request of the user u, with the session it came with.  A session is late
\* when the request that makes it was under way as others were deleted.
Request(pc, u, sid) ==
  [pc |-> pc, u |-> u, row |-> user[u], sid |-> sid, id |-> left, late |-> FALSE]

\* The session a request came with, or none.
Mine(s, q) == s.user = q.u /\ s.id = q.sid

Begin(r, q) ==
  /\ req[r] = Idle /\ left > 0
  /\ left' = left - 1
  /\ req' = [req EXCEPT ![r] = q]
Goto(r, pc) == req' = [req EXCEPT ![r].pc = pc]
End(r) == req' = [req EXCEPT ![r] = Idle]

\* A statement for a row that is gone changes nothing.
Update(u, row) == user' = IF Exists(u) THEN [user EXCEPT ![u] = row] ELSE user

-----------------------------------------------------------------------------
(* Signing in.                                                             *)

\* handleLogin reads the row; the password and the state of the account are
\* compared with it.
Login(r) ==
  /\ \E u \in Users : Enabled(u) /\ Begin(r, Request("login", u, None))
  /\ UNCHANGED <<user, session, pending, setup, trust, clock, taken, twice, lost>>

SessionOf(q, factor) ==
  [id |-> q.id, user |-> q.u, pw |-> q.row.pw, factor |-> factor, late |-> q.late]
\* createSession: the row of the user must still be there.
NewSession(r, factor) ==
  session' = IF Exists(req[r].u) THEN session \cup {SessionOf(req[r], factor)}
             ELSE session

\* With a second factor and without a trusted device, the session waits.
LoginEnd(r) ==
  /\ req[r].pc = "login"
  /\ LET u == req[r].u
         row == req[r].row
         known == <<u, row.totp>> \in trust
     IN \/ /\ row.totp # None
           /\ pending' = pending \cup {[id |-> req[r].id, user |-> u]}
           /\ UNCHANGED session
        \/ /\ row.totp = None \/ known
           /\ NewSession(r, IF row.totp = None THEN "password" ELSE "trusted")
           /\ UNCHANGED pending
  /\ End(r)
  /\ UNCHANGED <<user, setup, trust, clock, left, taken, twice, lost>>

\* handleLoginTOTP: the token is looked at, and removed at the end.
Second(r) ==
  /\ \E p \in pending :
       /\ Enabled(p.user)
       /\ user[p.user].totp # None
       /\ Begin(r, Request("code", p.user, p.id))
  /\ UNCHANGED <<user, session, pending, setup, trust, clock, taken, twice, lost>>

SecondEnd(r) ==
  /\ req[r].pc = "session"
  /\ pending' = {p \in pending : p.id # req[r].sid}
  /\ NewSession(r, "totp")
  /\ trust' \in {trust, trust \cup {<<req[r].u, req[r].row.totp>>}}
  /\ End(r)
  /\ UNCHANGED <<user, setup, clock, left, taken, twice, lost>>

-----------------------------------------------------------------------------
(* verifyTOTPOrRecovery: the code is compared with the row that was read,  *)
(* and taken by a statement that looks at the row that is there.           *)

\* Mutant: the counter is written whatever it is.
CounterAlways(u, c) == TRUE
CounterMoves(u, c) == IF Exists(u) THEN user[u].counter < c ELSE FALSE

ListIsSame(u, codes) == IF Exists(u) THEN user[u].codes = codes ELSE FALSE

Take(u, code) ==
  /\ taken' = [taken EXCEPT ![u] = @ \cup {code}]
  /\ twice' = (twice \/ code \in taken[u])

After == [code |-> "session", disable |-> "clear", recover |-> "renew"]

\* A code that is refused ends the request.
Refused(r) == End(r) /\ UNCHANGED <<user, taken, twice>>

TakeInterval(r, c) ==
  LET u == req[r].u IN
  IF CounterMoves(u, c)
  THEN /\ Update(u, [user[u] EXCEPT !.counter = c])
       /\ Take(u, <<"interval", req[r].row.totp, c>>)
       /\ Goto(r, After[req[r].pc])
  ELSE Refused(r)

TakeRecovery(r, code) ==
  LET u == req[r].u
      codes == req[r].row.codes
  IN IF ListIsSame(u, codes)
     THEN /\ Update(u, [user[u] EXCEPT !.codes = codes \ {code}])
          /\ Take(u, code)
          /\ Goto(r, After[req[r].pc])
     ELSE Refused(r)

Verify(r) ==
  /\ req[r].pc \in DOMAIN After
  /\ \/ \E c \in Window : c > req[r].row.counter /\ TakeInterval(r, c)
     \/ \E code \in req[r].row.codes : TakeRecovery(r, code)
     \/ Refused(r)
  /\ UNCHANGED <<session, pending, setup, trust, clock, left, lost>>

-----------------------------------------------------------------------------
(* What a user does to their own account.  requireUser reads the session   *)
(* and the row.                                                            *)

Own(r, pc, enrolled) ==
  /\ \E s \in session :
       /\ Enabled(s.user)
       /\ (user[s.user].totp # None) \in enrolled
       /\ Begin(r, Request(pc, s.user, s.id))
  /\ UNCHANGED <<user, session, pending, setup, trust, clock, taken, twice, lost>>

ChangeStart(r) == Own(r, "change", {TRUE, FALSE})
EnableStart(r) == Own(r, "enable", {FALSE})
DisableStart(r) == Own(r, "disable", {TRUE})
RecoverStart(r) == Own(r, "recover", {TRUE})

\* A row that is written as it was read takes back what changed meanwhile.
Undone(u, old) ==
  IF ~Exists(u) THEN lost
  ELSE IF <<user[u].role, user[u].disabled, user[u].pw>> # <<old.role, old.disabled, old.pw>>
  THEN lost \cup {u} ELSE lost

\* handleChangePassword: UpdateUser writes every column it knows.
Change(r) ==
  /\ req[r].pc = "change"
  /\ LET q == req[r]
         row == [q.row EXCEPT !.pw = q.id, !.must = FALSE]
     IN /\ Update(q.u, IF Exists(q.u) THEN [user[q.u] EXCEPT !.pw = row.pw, !.must = row.must,
                                         !.role = row.role, !.disabled = row.disabled]
                       ELSE row)
        /\ lost' = Undone(q.u, q.row)
        /\ session' = {IF Mine(s, q) THEN [s EXCEPT !.pw = q.id] ELSE s : s \in session}
  /\ Goto(r, "others")
  /\ UNCHANGED <<pending, setup, trust, clock, left, taken, twice>>

\* handleTOTPSetup: a secret that waits for its first code.
Setup(r) ==
  /\ req[r] = Idle /\ left > 0
  /\ left' = left - 1
  /\ \E s \in session :
       /\ Enabled(s.user)
       /\ user[s.user].totp = None
       /\ setup' = [setup EXCEPT ![s.user] = left]
  /\ UNCHANGED <<user, session, pending, trust, clock, req, taken, twice, lost>>

\* SetTOTP: the counter starts again and codes of before count no more.
SetTOTP(u, secret, codes) ==
  /\ Update(u, IF Exists(u) THEN [user[u] EXCEPT !.totp = secret, !.counter = 0, !.codes = codes]
               ELSE None)
  /\ taken' = [taken EXCEPT ![u] = {}]

\* handleTOTPEnable: the code shows that the device has the secret.
Enable(r) ==
  /\ req[r].pc = "enable"
  /\ LET q == req[r] IN
     IF setup[q.u] = None
     THEN End(r) /\ UNCHANGED <<user, session, taken>>
     ELSE \E c \in Window :
            /\ SetTOTP(q.u, setup[q.u], NewCodes(q.id))
            /\ session' = {IF Mine(s, q) THEN [s EXCEPT !.factor = "own"] ELSE s : s \in session}
            /\ req' = [req EXCEPT ![r].pc = "count", ![r].row.counter = c]
  /\ UNCHANGED <<pending, setup, trust, clock, left, twice, lost>>

EnableCount(r) ==
  /\ req[r].pc = "count"
  /\ LET u == req[r].u
         c == req[r].row.counter
     IN /\ user' = IF CounterMoves(u, c) THEN [user EXCEPT ![u].counter = c] ELSE user
        /\ setup' = [setup EXCEPT ![u] = None]
  /\ Goto(r, "others")
  /\ UNCHANGED <<session, pending, trust, clock, left, taken, twice, lost>>

\* Mutant: sessions are left as they are.
DeletedNone(u, sid) == UNCHANGED session
\* DeleteUserSessions.
Deleted(u, sid) == session' = {s \in session : s.user # u \/ s.id = sid}

\* The requests of the user that are under way are too late to be met by it.
MarkLate(r, u) ==
  req' = [q \in Requests |->
    IF q = r THEN Idle
    ELSE IF req[q] # Idle /\ req[q].u = u THEN [req[q] EXCEPT !.late = TRUE]
    ELSE req[q]]

Others(r) ==
  /\ req[r].pc \in {"others", "revoke"}
  /\ Deleted(req[r].u, req[r].sid)
  /\ MarkLate(r, req[r].u)
  /\ UNCHANGED <<user, pending, setup, trust, clock, left, taken, twice, lost>>

\* handleTOTPDisable, after a code.
Disable(r) ==
  /\ req[r].pc = "clear"
  /\ SetTOTP(req[r].u, None, {})
  /\ End(r)
  /\ UNCHANGED <<session, pending, setup, trust, clock, left, twice, lost>>

\* handleTOTPRecovery, after a code.
Recover(r) ==
  /\ req[r].pc = "renew"
  /\ LET u == req[r].u IN
     Update(u, IF Exists(u) THEN [user[u] EXCEPT !.codes = NewCodes(req[r].id)] ELSE None)
  /\ End(r)
  /\ UNCHANGED <<session, pending, setup, trust, clock, left, taken, twice, lost>>

\* handleLogout, or the session's time is over.
Logout ==
  /\ \E s \in session : session' = session \ {s}
  /\ UNCHANGED <<user, pending, setup, trust, clock, req, left, taken, twice, lost>>

-----------------------------------------------------------------------------
(* Administration.  adminMu is held from the first look at the row to the  *)
(* end of the request.                                                     *)

\* Mutant: administrators do not wait for each other.
AdminAlways == TRUE
AdminFree == \A r \in Requests : req[r].pc \notin {"write", "remove", "revoke"}

\* requirePasswordOK and requireAdmin.
ByAdmin(s) == s.user \in Admins /\ ~user[s.user].must

\* The last administrator keeps the role and stays enabled.  A row that is
\* disabled already may lose the role.
LastAdmin(row) == row.role = "admin" /\ Cardinality(Admins) <= 1
Refuses(row, ch) ==
  \/ ch.role \notin {None, row.role} /\ ~row.disabled /\ LastAdmin(row)
  \/ /\ ch.disabled = TRUE /\ ~row.disabled
     /\ LastAdmin([row EXCEPT !.role = IF ch.role = None THEN @ ELSE ch.role])

Changed(row, ch, fresh) ==
  [row EXCEPT !.role = IF ch.role = None THEN @ ELSE ch.role,
              !.disabled = IF ch.disabled = None THEN @ ELSE ch.disabled,
              !.must = IF ch.must = None THEN @ ELSE ch.must,
              !.pw = IF ch.pw THEN fresh ELSE @]

\* An administrator is let in, and then waits for the others.
AdminAsk(r) ==
  /\ \E s \in session :
       ByAdmin(s) /\ Begin(r, [pc |-> "ask", u |-> s.user, row |-> None, sid |-> s.id,
                              id |-> left, late |-> FALSE])
  /\ UNCHANGED <<user, session, pending, setup, trust, clock, taken, twice, lost>>

\* What the administrator asks for concerns the user u.
Turn(r, pc, u, row) ==
  LET q == req[r] IN
  req' = [req EXCEPT ![r] = [q EXCEPT !.pc = pc, !.u = u, !.row = row, !.late = FALSE,
                               !.sid = IF q.u = u THEN q.sid ELSE None]]

\* handleAdminUserUpdate up to UpdateUser.  The administrator's own session
\* is kept.
AdminUpdate(r) ==
  /\ req[r].pc = "ask" /\ AdminFree
  /\ \E u \in Users, ch \in Changes :
       /\ Exists(u)
       /\ ~Refuses(user[u], ch)
       /\ LET new == Changed(user[u], ch, req[r].id) IN
            new # user[u] /\ Turn(r, "write", u, [old |-> user[u], new |-> new])
  /\ UNCHANGED <<user, session, pending, setup, trust, clock, left, taken, twice, lost>>

AdminWrite(r) ==
  /\ req[r].pc = "write"
  /\ LET q == req[r]
         revoke == [q.row.new EXCEPT !.must = q.row.old.must] # q.row.old
     IN /\ Update(q.u, IF Exists(q.u)
                       THEN [user[q.u] EXCEPT !.pw = q.row.new.pw, !.must = q.row.new.must,
                               !.role = q.row.new.role, !.disabled = q.row.new.disabled]
                       ELSE None)
        /\ lost' = Undone(q.u, q.row.old)
        /\ session' = {IF Mine(s, q) THEN [s EXCEPT !.pw = q.row.new.pw] ELSE s : s \in session}
        /\ IF revoke THEN Goto(r, "revoke") ELSE End(r)
  /\ UNCHANGED <<pending, setup, trust, clock, left, taken, twice>>

\* handleAdminUserDelete; the sessions go with the row.  The next account may
\* get the same id.
AdminDelete(r) ==
  /\ req[r].pc = "ask" /\ AdminFree
  /\ \E u \in Users :
       /\ Exists(u) /\ req[r].u # u
       /\ ~(LastAdmin(user[u]) /\ ~user[u].disabled)
       /\ Turn(r, "remove", u, None)
  /\ UNCHANGED <<user, session, pending, setup, trust, clock, left, taken, twice, lost>>

AdminRemove(r) ==
  /\ req[r].pc = "remove"
  /\ LET u == req[r].u IN
       /\ user' = [user EXCEPT ![u] = None]
       /\ session' = {s \in session : s.user # u}
       /\ MarkLate(r, u)
  /\ UNCHANGED <<pending, setup, trust, clock, left, taken, twice, lost>>

\* handleAdminTOTPReset, which does not hold adminMu.
AdminReset(r) ==
  /\ req[r].pc = "ask"
  /\ \E u \in Users :
       /\ Exists(u)
       /\ SetTOTP(u, None, {})
       /\ req' = [req EXCEPT ![r].pc = "others", ![r].u = u, ![r].sid = None]
  /\ UNCHANGED <<session, pending, setup, trust, clock, left, twice, lost>>

NewRow(pw, role) ==
  [pw |-> pw, role |-> role, disabled |-> FALSE, must |-> FALSE, totp |-> None,
   counter |-> 0, codes |-> {}]

\* handleAdminUserCreate.  A new account has spent nothing.
AdminCreate(r) ==
  /\ req[r].pc = "ask"
  /\ \E u \in Users, role \in Roles :
       /\ ~Exists(u)
       /\ user' = [user EXCEPT ![u] = NewRow(req[r].id, role)]
       /\ taken' = [taken EXCEPT ![u] = {}]
  /\ End(r)
  /\ UNCHANGED <<session, pending, setup, trust, clock, left, twice, lost>>

-----------------------------------------------------------------------------

FirstRow(role, totp) ==
  [NewRow(0, role) EXCEPT !.totp = totp, !.codes = IF totp = None THEN {} ELSE NewCodes(0)]
FirstSession(u) ==
  [id |-> 0, user |-> u, pw |-> 0, late |-> FALSE,
   factor |-> IF user[u].totp = None THEN "password" ELSE "totp"]

\* Some accounts exist, one of them an administrator; everybody has a session,
\* and those with a second factor passed it.
Init ==
  /\ user \in [Users -> {None} \cup {FirstRow(role, totp) : role \in Roles, totp \in {0, None}}]
  /\ Admins # {}
  /\ session = {FirstSession(u) : u \in {v \in Users : Exists(v)}}
  /\ pending = {} /\ trust = {}
  /\ setup = [u \in Users |-> None]
  /\ clock = 1
  /\ req = [r \in Requests |-> Idle]
  /\ left = Budget
  /\ taken = [u \in Users |-> {}] /\ twice = FALSE /\ lost = {}

Tick ==
  /\ clock < MaxClock
  /\ clock' = clock + 1
  /\ UNCHANGED <<user, session, pending, setup, trust, req, left, taken, twice, lost>>

Next ==
  \/ \E r \in Requests :
       \/ Login(r) \/ LoginEnd(r) \/ Second(r) \/ Verify(r) \/ SecondEnd(r)
       \/ ChangeStart(r) \/ EnableStart(r) \/ DisableStart(r) \/ RecoverStart(r)
       \/ Change(r) \/ Setup(r) \/ Enable(r) \/ EnableCount(r)
       \/ Others(r) \/ Disable(r) \/ Recover(r)
       \/ AdminAsk(r) \/ AdminUpdate(r) \/ AdminWrite(r) \/ AdminDelete(r)
       \/ AdminRemove(r) \/ AdminReset(r) \/ AdminCreate(r)
  \/ Logout \/ Tick

Spec == Init /\ [][Next]_vars

-----------------------------------------------------------------------------
(* Properties.                                                             *)

\* The columns of users and sessions (store/users.go, store/sessions.go): an
\* account without a second factor has no counter, and what a session or a
\* waiting login belongs to was an account.
TypeOK ==
  /\ user \in [Users -> Row \cup {None}]
  /\ \A s \in session : Exists(s.user) /\ s.factor \in {"password", "trusted", "totp", "own"}
  /\ \A p \in pending : p.user \in Users
  /\ setup \in [Users -> Nat \cup {None}]
  /\ trust \subseteq Users \X Nat
  /\ clock \in 1..MaxClock /\ left \in 0..Budget
  /\ twice \in BOOLEAN /\ lost \subseteq Users

\* Between two SetTOTP of an account a code is taken once: "de duas requisições simultâneas com o mesmo código
\* só a primeira avança o contador" (handlers_totp.go:243) and "dois usos
\* simultâneos não ressuscitam um código" (handlers_totp.go:252).  Left out is a
\* request that outlives its account and meets a new one under the same id.  (The
\* rows keep their types: a session belongs to an account.)
CodesOnce == TypeOK /\ ~twice

Settled(u, steps) == \A r \in Requests : req[r] # Idle /\ req[r].u = u => req[r].pc \notin steps

\* Who enables the second factor ends the sessions that passed none
\* (handleTOTPEnable), and a new password those of the old one
\* (handleChangePassword, handleAdminUserUpdate), but for the session it was
\* done with and those of logins that were under way.
SessionsAreEarned ==
  \A s \in session : ~s.late =>
    LET u == s.user IN
    /\ user[u].totp # None /\ s.factor = "password" => ~Settled(u, {"count", "others"})
    /\ u \notin lost /\ s.pw # user[u].pw => ~Settled(u, {"others", "revoke"})

\* An enabled administrator remains, however requests of administrators meet
\* (last_admin in handlers_admin.go), unless a password change wrote an old
\* role or state back.
AnAdminRemains == lost = {} => Admins # {}

=============================================================================
