--------------------------- MODULE AccountsProofs ---------------------------
(***************************************************************************)
(* For any users, browsers, processes and bounds: an administrator         *)
(* remains, and no session outlives its credential.  Both are facts about  *)
(* one state of the tables; the open unit keeps them with every step that  *)
(* it stages, so that its COMMIT cannot break them.                        *)
(***************************************************************************)
EXTENDS Accounts, TLAPS

LEMMA Given ==
  /\ First \in Users
  /\ None \notin Users /\ None \notin Subjects /\ None \notin Actors
  /\ Operator \notin Browsers /\ Operator \notin Processes /\ Browsers \cap Processes = {}
  /\ Patches \subseteq Patch
  /\ TTL \in Nat /\ MaxTime \in Nat /\ MaxTokens \in Nat /\ MaxPass \in Nat
BY AccountsAssumption DEF AccountsAssumption

-----------------------------------------------------------------------------
(* The inductive invariant *)

\* A user who is there has a role; only single sign-on gives a subject.
RowFits(row) ==
  /\ row.role = "none" => row = Absent
  /\ row.subject # None => row.source = "oidc"

AdminLeft(s) == Empty(s) \/ \E u \in Users : ActiveAdmin(s, u)

SessionFits(s, x) ==
  LET row == s.users[x.user] IN
  /\ row.active
  /\ row.pass = x.proof.pass /\ row.source = x.proof.source /\ row.subject = x.proof.subject

\* What holds of the tables, committed or not.
Sound(s) ==
  /\ s \in Accounts
  /\ \A u \in Users : RowFits(s.users[u])
  /\ AdminLeft(s)
  /\ \A x \in s.sessions : SessionFits(s, x)

\* Users do not disappear, and whoever serves has found some.
StartInv ==
  /\ \A u \in Users : Exists(db, u) => Exists(work, u)
  /\ owner \in Processes => ~Empty(work)
  /\ \A p \in Processes : start[p] = "serving" => ~Empty(db)

IInv == TypeOK /\ Sound(db) /\ Sound(work) /\ StartInv

-----------------------------------------------------------------------------
(* The tables *)

\* What the fields of the tables are
LEMMA Fields ==
  ASSUME NEW s \in Accounts
  PROVE  /\ s.users \in [Users -> User] /\ s.sessions \in SUBSET Session
         /\ s.audit \in Seq(AuditEntry)
         /\ \A u \in Users : /\ s.users[u] \in User
                             /\ s.users[u].role \in Roles \cup {"none"}
                             /\ s.users[u].active \in BOOLEAN
                             /\ s.users[u].source \in {"local", "oidc", "none"}
                             /\ s.users[u].pass \in Nat
                             /\ s.users[u].subject \in Subjects \cup {None}
         /\ \A x \in s.sessions : x.user \in Users /\ x \in Session
BY DEF Accounts, User, Session

Actions ==
  {"login", "login_failed", "oidc_login", "oidc_login_failed", "logout", "create", "update",
   "password_change", "recovery", "bootstrap"}

\* A record may be added.
LEMMA AuditSound ==
  ASSUME NEW s, Sound(s), NEW action \in Actions, NEW actor \in Users \cup {None},
         NEW user \in Users \cup {None}
  PROVE  LET t == AppendAudit(s, action, actor, user)
         IN  Sound(t) /\ t.users = s.users /\ t.sessions = s.sessions
<1> DEFINE t == AppendAudit(s, action, actor, user)
<1>1. s \in Accounts
  BY DEF Sound
<1>2. t.users = s.users /\ t.sessions = s.sessions /\ t \in Accounts
  <2> DEFINE e == [action |-> action, actor |-> actor, user |-> user]
  <2>0. e \in AuditEntry
    BY DEF AuditEntry, Actions
  <2>1. Append(s.audit, e) \in Seq(AuditEntry)
    BY <1>1, <2>0, Fields
  <2>2. t = [s EXCEPT !.audit = Append(s.audit, e)]
    BY DEF AppendAudit
  <2> HIDE DEF e, t
  <2> QED
    BY <1>1, <2>1, <2>2 DEF Accounts
<1> HIDE DEF t
<1>3. Sound(t)
  BY <1>2 DEF Sound, AdminLeft, Empty, Exists, ActiveAdmin, SessionFits
<1> QED
  BY <1>2, <1>3 DEF t

\* A unit starts from the committed tables, without their records.
LEMMA BegunSound ==
  ASSUME NEW s, Sound(s)
  PROVE  Sound(Begun(s)) /\ Begun(s).users = s.users /\ Begun(s).sessions = s.sessions
<1>1. s \in Accounts
  BY DEF Sound
<1>2. Begun(s).users = s.users /\ Begun(s).sessions = s.sessions /\ Begun(s) \in Accounts
  <2>1. << >> \in Seq(AuditEntry)
    OBVIOUS
  <2> QED
    BY <1>1, <2>1 DEF Begun, Accounts
<1> QED
  BY <1>2 DEF Sound, AdminLeft, Empty, Exists, ActiveAdmin, SessionFits

\* Sessions may disappear.
LEMMA FewerSessionsSound ==
  ASSUME NEW s, Sound(s), NEW X \in SUBSET s.sessions
  PROVE  LET t == [s EXCEPT !.sessions = X]
         IN  Sound(t) /\ t.users = s.users /\ t.sessions = X
<1> DEFINE t == [s EXCEPT !.sessions = X]
<1>1. s \in Accounts
  BY DEF Sound
<1>2. t.users = s.users /\ t.sessions = X /\ t \in Accounts
  BY <1>1, Fields DEF Accounts
<1> HIDE DEF t
<1>3. Sound(t)
  BY <1>2 DEF Sound, AdminLeft, Empty, Exists, ActiveAdmin, SessionFits
<1> QED
  BY <1>2, <1>3 DEF t

\* A session of an active user may be opened for what is true of the user.
LEMMA WithSessionSound ==
  ASSUME NEW s, Sound(s), NEW u \in Users, NEW proof \in User, fresh \in Nat, now \in Nat,
         s.users[u].active, proof.pass = s.users[u].pass, proof.source = s.users[u].source,
         proof.subject = s.users[u].subject
  PROVE  Sound(WithSession(s, u, proof)) /\ WithSession(s, u, proof).users = s.users
<1> DEFINE x == [token |-> fresh, user |-> u, expires |-> now + TTL, proof |-> proof]
           t == WithSession(s, u, proof)
<1>1. s \in Accounts
  BY DEF Sound
<1>2. x \in Session
  BY Given DEF Session
<1>3. t.users = s.users /\ t.sessions = s.sessions \cup {x} /\ t \in Accounts
  BY <1>1, <1>2, Fields DEF Accounts, WithSession
<1>4. x.user = u /\ x.proof = proof
  OBVIOUS
<1> HIDE DEF x, t
<1>5. \A y \in t.sessions : SessionFits(t, y)
  BY <1>3, <1>4 DEF Sound, SessionFits
<1>6. Sound(t)
  BY <1>3, <1>5 DEF Sound, AdminLeft, Empty, Exists, ActiveAdmin
<1> QED
  BY <1>3, <1>6 DEF t

\* The row of a user may change if an administrator remains, and the
\* sessions of the user have ended or fit the new row.
LEMMA RowSound ==
  ASSUME NEW s, Sound(s), NEW u \in Users, NEW row \in User, RowFits(row), row # Absent,
         \/ row.role = "admin" /\ row.active
         \/ \E other \in Users \ {u} : ActiveAdmin(s, other),
         NEW t, t.users = [s.users EXCEPT ![u] = row], t.sessions \in SUBSET s.sessions,
         t \in Accounts,
         \/ \A x \in t.sessions : x.user # u
         \/ /\ row.active /\ row.pass = s.users[u].pass /\ row.source = s.users[u].source
            /\ row.subject = s.users[u].subject
  PROVE  Sound(t) /\ \A v \in Users : Exists(s, v) => Exists(t, v)
<1>1. s \in Accounts
  BY DEF Sound
<1>2. \A v \in Users : t.users[v] = IF v = u THEN row ELSE s.users[v]
  BY <1>1, Fields
<1>3. AdminLeft(t)
  BY <1>2 DEF AdminLeft, ActiveAdmin
<1>4. \A x \in t.sessions : x.user \in Users /\ SessionFits(s, x)
  BY <1>1, Fields DEF Sound
<1>5. \A x \in t.sessions : SessionFits(t, x)
  BY <1>2, <1>4 DEF SessionFits
<1>6. \A v \in Users : RowFits(t.users[v])
  BY <1>2 DEF Sound
<1> QED
  BY <1>2, <1>3, <1>5, <1>6 DEF Sound, Exists

\* A row replaced, with or without the sessions of its user
LEMMA RowWritten ==
  ASSUME NEW s \in Accounts, NEW u \in Users, NEW row \in User
  PROVE  LET t == [s EXCEPT !.users[u] = row] IN
         /\ t \in Accounts /\ t.users = [s.users EXCEPT ![u] = row] /\ t.sessions = s.sessions
         /\ DeleteSessionsForUser(t, u) \in Accounts
         /\ DeleteSessionsForUser(t, u).users = [s.users EXCEPT ![u] = row]
         /\ DeleteSessionsForUser(t, u).sessions = {x \in s.sessions : x.user # u}
<1> DEFINE t == [s EXCEPT !.users[u] = row]
<1>1. t \in Accounts /\ t.users = [s.users EXCEPT ![u] = row] /\ t.sessions = s.sessions
  BY Fields DEF Accounts
<1> HIDE DEF t
<1>2. /\ DeleteSessionsForUser(t, u) \in Accounts
      /\ DeleteSessionsForUser(t, u).users = [s.users EXCEPT ![u] = row]
      /\ DeleteSessionsForUser(t, u).sessions = {x \in s.sessions : x.user # u}
  BY <1>1 DEF Accounts, DeleteSessionsForUser
<1> QED
  BY <1>1, <1>2 DEF t

\* A password that grew
LEMMA PassGrown ==
  ASSUME NEW s \in Accounts, NEW u \in Users
  PROVE  LET row == [s.users[u] EXCEPT !.pass = @ + 1] IN
         /\ [s EXCEPT !.users[u].pass = @ + 1] = [s EXCEPT !.users[u] = row]
         /\ row \in User /\ row.role = s.users[u].role /\ row.active = s.users[u].active
         /\ row.source = s.users[u].source /\ row.subject = s.users[u].subject
         /\ row.pass = s.users[u].pass + 1
<1> DEFINE row == [s.users[u] EXCEPT !.pass = @ + 1]
<1>1. s.users[u] \in User
  BY Fields
<1>2. /\ row \in User /\ row.role = s.users[u].role /\ row.active = s.users[u].active
      /\ row.source = s.users[u].source /\ row.subject = s.users[u].subject
      /\ row.pass = s.users[u].pass + 1
  BY <1>1 DEF User
<1>3. [s EXCEPT !.users[u].pass = @ + 1] = [s EXCEPT !.users[u] = row]
  OBVIOUS
<1> QED
  BY <1>2, <1>3

-----------------------------------------------------------------------------
(* The start, and the frame of every request *)

LEMMA InitEstablishes == Init => IInv
<1> SUFFICES ASSUME Init PROVE IInv
  OBVIOUS
<1> DEFINE admin == NewUser("admin", "local", 1, None)
<1>1. /\ Absent \in User /\ RowFits(Absent) /\ ~Absent.active
      /\ admin \in User /\ RowFits(admin) /\ admin.role = "admin" /\ admin.active
  BY Given DEF Absent, NewUser, User, Roles, RowFits
<1>2. << >> \in Seq(AuditEntry)
  OBVIOUS
<1>3. PICK f \in {[u \in Users |-> Absent], [u \in Users |-> admin]} :
        db = [users |-> f, sessions |-> {}, audit |-> << >>]
  BY DEF Init
<1> HIDE DEF admin
<1>4. /\ f \in [Users -> User] /\ \A u \in Users : RowFits(f[u])
      /\ (\A u \in Users : f[u] = Absent) \/ (\A u \in Users : f[u].role = "admin" /\ f[u].active)
  BY <1>1, <1>3
<1>5. db \in Accounts /\ db.users = f /\ db.sessions = {}
  BY <1>2, <1>3, <1>4 DEF Accounts
<1>6. AdminLeft(db)
  BY <1>4, <1>5, Given DEF AdminLeft, Empty, Exists, ActiveAdmin
<1>7. Sound(db)
  BY <1>4, <1>5, <1>6 DEF Sound
<1>8. work = db /\ Sound(work)
  BY <1>7 DEF Init
<1>9. TypeOK
  BY <1>5, <1>8, Given DEF Init, TypeOK, Reply, NoReply
<1>10. StartInv
  BY <1>8, Given DEF Init, StartInv, Actors
<1> QED
  BY <1>7, <1>8, <1>9, <1>10 DEF IInv

\* A request stages a sound state in which no user is missing.
LEMMA StageKeeps ==
  ASSUME IInv, NEW b \in Browsers, NEW state, NEW token \in Tokens \cup {None},
         NEW status \in {"ok", "refused"}, Stage(b, state, token, status), fresh' \in Nat,
         Sound(state), \A u \in Users : Exists(db, u) => Exists(state, u)
  PROVE  IInv'
<1>1. owner' = b /\ owner' # None /\ owner' \notin Processes /\ owner' \in Actors
  BY Given DEF Stage, Actors
<1>2. TypeOK'
  BY <1>1 DEF IInv, TypeOK, Stage, Sound, Reply
<1>3. Sound(db)' /\ Sound(work)'
  BY DEF IInv, Stage, Sound, AdminLeft, Empty, Exists, ActiveAdmin, SessionFits
<1>4. StartInv'
  BY <1>1 DEF IInv, Stage, StartInv, Exists, Empty
<1> QED
  BY <1>2, <1>3, <1>4 DEF IInv

\* Whoever serves knows that there is an administrator.
LEMMA ServedByAdmin ==
  ASSUME IInv, GetsUnit
  PROVE  \E u \in Users : ActiveAdmin(db, u)
BY DEF IInv, GetsUnit, StartInv, Sound, AdminLeft

LEMMA AuthenticatedUser ==
  ASSUME IInv, NEW b \in Browsers, NEW roles, NEW u \in Authenticated(b, roles)
  PROVE  u \in Users /\ db.users[u].role \in roles /\ db.users[u].active
BY DEF Authenticated, LiveSessions

\* The tables a unit starts from
LEMMA Start ==
  ASSUME IInv
  PROVE  /\ Sound(Begun(db)) /\ Begun(db) \in Accounts
         /\ Begun(db).users = db.users /\ Begun(db).sessions = db.sessions
         /\ db \in Accounts /\ Sound(db)
         /\ fresh \in Nat /\ now \in Nat
BY BegunSound DEF IInv, Sound, TypeOK

-----------------------------------------------------------------------------
(* The requests *)

\* The row of a login is the one its password was verified against.
LEMMA VerifiedRow ==
  ASSUME NEW row \in User, row.source = "local"
  PROVE  [row EXCEPT !.source = "local", !.pass = row.pass] = row
BY DEF User

LEMMA LogInKeeps ==
  ASSUME IInv, NEW b \in Browsers, LogIn(b)
  PROVE  IInv'
<1>1. PICK u \in Users, pass \in Passwords :
       IF PasswordVerified(u, pass)
       THEN /\ fresh \in Tokens /\ fresh' = fresh + 1
            /\ Stage(b, WithSession(AppendAudit(Begun(db), "login", u, u), u,
                                   [db.users[u] EXCEPT !.source = "local", !.pass = pass]),
                     fresh, "ok")
       ELSE /\ Stage(b, AppendAudit(Begun(db), "login_failed", None, u), cookie[b], "refused")
            /\ UNCHANGED fresh
  BY DEF LogIn
<1>2. CASE PasswordVerified(u, pass)
  <2> DEFINE s == AppendAudit(Begun(db), "login", u, u)
             proof == [db.users[u] EXCEPT !.source = "local", !.pass = pass]
  <2>1. db.users[u] \in User /\ db.users[u].active /\ proof = db.users[u]
    BY <1>2, Start, Fields, VerifiedRow DEF PasswordVerified
  <2>2. Sound(s) /\ s.users = db.users
    BY Start, AuditSound DEF Actions
  <2> HIDE DEF s, proof
  <2>3. Sound(WithSession(s, u, proof)) /\ WithSession(s, u, proof).users = db.users
    BY <2>1, <2>2, Start, WithSessionSound
  <2>4. Stage(b, WithSession(s, u, proof), fresh, "ok") /\ fresh \in Tokens /\ fresh' \in Nat
    BY <1>1, <1>2, Start DEF s, proof
  <2> QED
    BY <2>3, <2>4, StageKeeps DEF Exists
<1>3. CASE ~PasswordVerified(u, pass)
  <2> DEFINE s == AppendAudit(Begun(db), "login_failed", None, u)
  <2>1. Sound(s) /\ s.users = db.users
    <3>1. "login_failed" \in Actions /\ None \in Users \cup {None} /\ u \in Users \cup {None}
      BY DEF Actions
    <3> QED
      BY <3>1, Start, AuditSound
  <2>2. Stage(b, s, cookie[b], "refused") /\ fresh' \in Nat
    BY <1>1, <1>3, Start
  <2>3. cookie[b] \in Tokens \cup {None}
    BY DEF IInv, TypeOK
  <2> HIDE DEF s
  <2> QED
    BY <2>1, <2>2, <2>3, StageKeeps DEF Exists
<1> QED
  BY <1>2, <1>3

LEMMA LogOutKeeps ==
  ASSUME IInv, NEW b \in Browsers, LogOut(b)
  PROVE  IInv'
<1>1. PICK u \in Authenticated(b, Granted("logout")) :
        Stage(b, AppendAudit(DeleteSession(Begun(db), cookie[b]), "logout", u, u), None, "ok")
  BY DEF LogOut
<1> DEFINE d == DeleteSession(Begun(db), cookie[b])
           s == AppendAudit(d, "logout", u, u)
<1>2. u \in Users
  BY AuthenticatedUser
<1>3. Sound(d) /\ d.users = db.users
  BY Start, FewerSessionsSound DEF DeleteSession
<1> HIDE DEF d
<1>4. Sound(s) /\ s.users = db.users
  BY <1>2, <1>3, AuditSound DEF Actions
<1>5. Stage(b, s, None, "ok") /\ fresh' \in Nat
  BY <1>1, Start DEF LogOut, d
<1> HIDE DEF s
<1> QED
  BY <1>4, <1>5, StageKeeps DEF Exists

LEMMA CreateUserKeeps ==
  ASSUME IInv, NEW b \in Browsers, CreateUser(b)
  PROVE  IInv'
<1>1. PICK a \in Authenticated(b, Granted("create")), u \in Users, role \in Roles :
       /\ ~Exists(db, u)
       /\ Stage(b, AppendAudit([Begun(db) EXCEPT !.users[u] = NewUser(role, "local", 1, None)],
                               "create", a, u), cookie[b], "ok")
  BY DEF CreateUser
<1> DEFINE row == NewUser(role, "local", 1, None)
           t == [Begun(db) EXCEPT !.users[u] = row]
           s == AppendAudit(t, "create", a, u)
<1>2. a \in Users /\ ActiveAdmin(db, a) /\ a # u
  BY <1>1, AuthenticatedUser DEF ActiveAdmin, Exists, Absent, Granted
<1>3. row \in User /\ RowFits(row) /\ row # Absent
  BY Given DEF NewUser, User, RowFits, Absent, Roles
<1>4. \A x \in db.sessions : x.user # u
  BY <1>1, Start DEF Sound, SessionFits, Exists, Absent
<1> HIDE DEF row
<1>5. t \in Accounts /\ t.users = [db.users EXCEPT ![u] = row] /\ t.sessions = db.sessions
  BY <1>3, Start, RowWritten
<1> HIDE DEF t
<1>6. Sound(t) /\ \A v \in Users : Exists(db, v) => Exists(t, v)
  BY <1>2, <1>3, <1>4, <1>5, Start, RowSound
<1>7. Sound(s) /\ s.users = t.users
  BY <1>2, <1>6, AuditSound DEF Actions
<1>8. Stage(b, s, cookie[b], "ok") /\ fresh' \in Nat /\ cookie[b] \in Tokens \cup {None}
  BY <1>1, Start DEF CreateUser, t, row, IInv, TypeOK
<1> HIDE DEF s
<1> QED
  BY <1>6, <1>7, <1>8, StageKeeps DEF Exists

LEMMA ChangePasswordKeeps ==
  ASSUME IInv, NEW b \in Browsers, ChangePassword(b)
  PROVE  IInv'
<1>1. PICK u \in Authenticated(b, Granted("password_change")) :
       /\ \E pass \in Passwords : PasswordVerified(u, pass)
       /\ Stage(b, AppendAudit(DeleteSessionsForUser([Begun(db) EXCEPT !.users[u].pass = @ + 1], u),
                               "password_change", u, u), None, "ok")
  BY DEF ChangePassword
<1> DEFINE row == [db.users[u] EXCEPT !.pass = @ + 1]
           t == DeleteSessionsForUser([Begun(db) EXCEPT !.users[u].pass = @ + 1], u)
           s == AppendAudit(t, "password_change", u, u)
<1>2. u \in Users /\ db.users[u].active
  BY AuthenticatedUser
<1>3. /\ row \in User /\ row.role = db.users[u].role /\ row.active = db.users[u].active
      /\ row.source = db.users[u].source /\ row.subject = db.users[u].subject
      /\ [Begun(db) EXCEPT !.users[u].pass = @ + 1] = [Begun(db) EXCEPT !.users[u] = row]
  BY <1>2, Start, PassGrown
<1> HIDE DEF row
<1>4. /\ t \in Accounts /\ t.users = [db.users EXCEPT ![u] = row]
      /\ t.sessions = {x \in db.sessions : x.user # u}
  BY <1>2, <1>3, Start, RowWritten
<1> HIDE DEF t
<1>5. RowFits(row) /\ row # Absent
  BY <1>2, <1>3, Start DEF Sound, RowFits, Absent
<1>6. \/ row.role = "admin" /\ row.active
      \/ \E other \in Users \ {u} : ActiveAdmin(db, other)
  BY <1>2, <1>3, ServedByAdmin DEF ActiveAdmin, ChangePassword
<1>7. Sound(t) /\ \A v \in Users : Exists(db, v) => Exists(t, v)
  BY <1>2, <1>3, <1>4, <1>5, <1>6, Start, RowSound
<1>8. Sound(s) /\ s.users = t.users
  BY <1>2, <1>7, AuditSound DEF Actions
<1>9. Stage(b, s, None, "ok") /\ fresh' \in Nat
  BY <1>1, Start DEF ChangePassword, t
<1> HIDE DEF s
<1> QED
  BY <1>7, <1>8, <1>9, StageKeeps DEF Exists

\* A row that keeps its source and subject, and has a role
LEMMA NewRowFits ==
  ASSUME NEW row \in User, NEW new \in User, RowFits(row), new.role # "none",
         new.source = row.source, new.subject = row.subject
  PROVE  RowFits(new) /\ new # Absent
BY DEF RowFits, Absent

\* What the patch of a row does to it
LEMMA PatchedRow ==
  ASSUME NEW row \in User, RowFits(row), row # Absent, NEW p \in Patch
  PROVE  LET new == Patched(row, p) IN
         /\ new \in User /\ RowFits(new) /\ new # Absent
         /\ new.source = row.source /\ new.subject = row.subject
         /\ ~Demotes(p) /\ row.role = "admin" /\ row.active => new.role = "admin" /\ new.active
         /\ ~Revokes(p) /\ row.active => new.active /\ new.pass = row.pass
<1> DEFINE new == Patched(row, p)
<1>1. p.role \in Roles \cup {"keep"} /\ p.active \in {"yes", "no", "keep"} /\ p.reset \in BOOLEAN
  BY DEF Patch
<1>2. /\ new \in User /\ new.source = row.source /\ new.subject = row.subject
      /\ new.role = IF p.role = "keep" THEN row.role ELSE p.role
      /\ new.active = IF p.active = "keep" THEN row.active ELSE p.active = "yes"
      /\ new.pass = IF p.reset THEN row.pass + 1 ELSE row.pass
  <2>1. row.role \in Roles \cup {"none"} /\ row.active \in BOOLEAN /\ row.pass \in Nat
    BY DEF User
  <2> DEFINE role == IF p.role = "keep" THEN row.role ELSE p.role
             active == IF p.active = "keep" THEN row.active ELSE p.active = "yes"
             pass == IF p.reset THEN row.pass + 1 ELSE row.pass
  <2>2. new = [row EXCEPT !.role = role, !.active = active, !.pass = pass]
    BY DEF Patched
  <2>3. role \in Roles \cup {"none"} /\ pass \in Nat
    BY <1>1, <2>1
  <2>4. active \in BOOLEAN
    BY <2>1, Zenon
  <2> HIDE DEF role, active, pass, new
  <2>5. new \in User
    BY <2>2, <2>3, <2>4 DEF User
  <2>6. new.source = row.source /\ new.subject = row.subject
    BY <2>2 DEF User
  <2>7. new.role = role /\ new.pass = pass
    BY <2>2 DEF User
  <2>8. new.active = active
    BY <2>2 DEF User
  <2> QED
    BY <2>5, <2>6, <2>7, <2>8 DEF role, active, pass
<1> HIDE DEF new
<1>3. new.role # "none"
  BY <1>1, <1>2 DEF RowFits, Roles
<1> QED
  BY <1>1, <1>2, <1>3, NewRowFits DEF Demotes, Revokes, new

LEMMA PatchUserKeeps ==
  ASSUME IInv, NEW b \in Browsers, PatchUser(b)
  PROVE  IInv'
<1>1. PICK a \in Authenticated(b, Granted("update")), u \in Users, p \in Patches :
       LET updated == [Begun(db) EXCEPT !.users[u] = Patched(@, p)] IN
       /\ Exists(db, u)
       /\ ~(Demotes(p) /\ LastAdmin(db, u))
       /\ Stage(b, AppendAudit(IF Revokes(p) THEN DeleteSessionsForUser(updated, u) ELSE updated,
                               "update", a, u), cookie[b], "ok")
  BY DEF PatchUser
<1> DEFINE row == Patched(db.users[u], p)
           updated == [Begun(db) EXCEPT !.users[u] = row]
           t == IF Revokes(p) THEN DeleteSessionsForUser(updated, u) ELSE updated
           s == AppendAudit(t, "update", a, u)
<1>2. a \in Users /\ ActiveAdmin(db, a) /\ p \in Patch
  BY Given, AuthenticatedUser DEF ActiveAdmin, Granted
<1>3. db.users[u] \in User /\ RowFits(db.users[u]) /\ db.users[u] # Absent
  BY <1>1, Start, Fields DEF Sound, Exists
<1>4. /\ row \in User /\ RowFits(row) /\ row # Absent
      /\ row.source = db.users[u].source /\ row.subject = db.users[u].subject
      /\ ~Demotes(p) /\ ActiveAdmin(db, u) => row.role = "admin" /\ row.active
      /\ ~Revokes(p) /\ db.users[u].active => row.active /\ row.pass = db.users[u].pass
  BY <1>2, <1>3, PatchedRow DEF ActiveAdmin
<1>5. updated = [Begun(db) EXCEPT !.users[u] = Patched(@, p)]
  BY Start
<1>6. Stage(b, s, cookie[b], "ok") /\ fresh' \in Nat /\ cookie[b] \in Tokens \cup {None}
  BY <1>1, <1>5, Start DEF PatchUser, IInv, TypeOK
<1> HIDE DEF row
<1>7. /\ t \in Accounts /\ t.users = [db.users EXCEPT ![u] = row]
      /\ t.sessions = IF Revokes(p) THEN {x \in db.sessions : x.user # u} ELSE db.sessions
  <2>1. row \in User /\ Begun(db) \in Accounts
    BY <1>4, Start
  <2>2. /\ updated \in Accounts /\ updated.users = [Begun(db).users EXCEPT ![u] = row]
        /\ updated.sessions = Begun(db).sessions
        /\ DeleteSessionsForUser(updated, u) \in Accounts
        /\ DeleteSessionsForUser(updated, u).users = [Begun(db).users EXCEPT ![u] = row]
        /\ DeleteSessionsForUser(updated, u).sessions = {x \in Begun(db).sessions : x.user # u}
    BY <2>1, RowWritten
  <2> HIDE DEF updated
  <2> QED
    BY <2>2, Start
<1> HIDE DEF updated, t
<1>8. \/ row.role = "admin" /\ row.active
      \/ \E other \in Users \ {u} : ActiveAdmin(db, other)
  BY <1>1, <1>2, <1>4 DEF LastAdmin
<1>9. \/ \A x \in t.sessions : x.user # u
      \/ /\ row.active /\ row.pass = db.users[u].pass /\ row.source = db.users[u].source
         /\ row.subject = db.users[u].subject
  BY <1>4, <1>7, Start DEF Sound, SessionFits
<1>10. Sound(t) /\ \A v \in Users : Exists(db, v) => Exists(t, v)
  BY <1>4, <1>7, <1>8, <1>9, Start, RowSound
<1>11. Sound(s) /\ s.users = t.users
  BY <1>2, <1>10, AuditSound DEF Actions
<1> HIDE DEF s
<1> QED
  BY <1>6, <1>10, <1>11, StageKeeps DEF Exists

\* A user of single sign-on is the one the subject proves.
LEMMA OidcRow ==
  ASSUME NEW row \in User, NEW subject \in Subjects, RowFits(row), row.subject = subject
  PROVE  [row EXCEPT !.source = "oidc", !.subject = subject] = row
BY Given DEF User, RowFits

\* The session and the record of a single sign-on
LEMMA LoggedInSound ==
  ASSUME IInv, NEW s, Sound(s), NEW u \in Users, NEW subject \in Subjects,
         s.users[u].active, s.users[u].subject = subject
  PROVE  LET t == WithSession(AppendAudit(s, "oidc_login", u, u), u,
                              [s.users[u] EXCEPT !.source = "oidc", !.subject = subject])
         IN  Sound(t) /\ t.users = s.users
<1> DEFINE a == AppendAudit(s, "oidc_login", u, u)
           proof == [s.users[u] EXCEPT !.source = "oidc", !.subject = subject]
<1>1. s \in Accounts /\ RowFits(s.users[u])
  BY DEF Sound
<1>2. s.users[u] \in User
  BY <1>1, Fields
<1>3. proof = s.users[u]
  BY <1>1, <1>2, OidcRow
<1>4. Sound(a) /\ a.users = s.users
  <2>1. "oidc_login" \in Actions /\ u \in Users \cup {None}
    BY DEF Actions
  <2> QED
    BY <2>1, AuditSound
<1> HIDE DEF a, proof
<1>5. Sound(WithSession(a, u, proof)) /\ WithSession(a, u, proof).users = s.users
  BY <1>2, <1>3, <1>4, Start, WithSessionSound
<1> QED
  BY <1>5 DEF a, proof

LEMMA OidcCallbackKeeps ==
  ASSUME IInv, NEW b \in Browsers, OidcCallback(b)
  PROVE  IInv'
<1>1. PICK subject \in Subjects, email \in Users :
       LET found == AccountOf(subject, email)
           admitted == found = {} /\ ~Exists(db, email)
           provisioned == [Begun(db) EXCEPT !.users[email] = NewUser("readonly", "oidc", 0, subject)]
           LoggedIn(s, u) == WithSession(AppendAudit(s, "oidc_login", u, u), u,
             [s.users[u] EXCEPT !.source = "oidc", !.subject = subject]) IN
       \/ /\ fresh \in Tokens /\ fresh' = fresh + 1
          /\ \/ \E u \in found : db.users[u].active /\ Stage(b, LoggedIn(Begun(db), u), fresh, "ok")
             \/ /\ admitted
                /\ Stage(b, LoggedIn(AppendAudit(provisioned, "create", None, email), email),
                         fresh, "ok")
       \/ /\ ~admitted /\ \A u \in found : ~db.users[u].active
          /\ Stage(b, AppendAudit(Begun(db), "oidc_login_failed", None, None), cookie[b], "ok")
          /\ UNCHANGED fresh
  BY DEF OidcCallback
<1> DEFINE LoggedIn(s, u) == WithSession(AppendAudit(s, "oidc_login", u, u), u,
             [s.users[u] EXCEPT !.source = "oidc", !.subject = subject])
           row == NewUser("readonly", "oidc", 0, subject)
           provisioned == [Begun(db) EXCEPT !.users[email] = row]
           created == AppendAudit(provisioned, "create", None, email)
           failed == AppendAudit(Begun(db), "oidc_login_failed", None, None)
<1>2. ASSUME NEW u \in AccountOf(subject, email), db.users[u].active,
             Stage(b, LoggedIn(Begun(db), u), fresh, "ok"), fresh \in Tokens, fresh' = fresh + 1
      PROVE  IInv'
  <2>1. u \in Users /\ Begun(db).users[u].active /\ Begun(db).users[u].subject = subject
    BY <1>2, Start DEF AccountOf
  <2>2. Sound(LoggedIn(Begun(db), u)) /\ LoggedIn(Begun(db), u).users = db.users
    BY <2>1, Start, LoggedInSound
  <2> HIDE DEF LoggedIn
  <2> QED
    BY <1>2, <2>2, Start, StageKeeps DEF Exists
<1>3. ASSUME ~Exists(db, email), Stage(b, LoggedIn(created, email), fresh, "ok"),
             fresh \in Tokens, fresh' = fresh + 1
      PROVE  IInv'
  <2>1. /\ row \in User /\ RowFits(row) /\ row # Absent
        /\ row.active /\ row.subject = subject
    BY Given DEF NewUser, User, RowFits, Absent, Roles
  <2>2. \A x \in db.sessions : x.user # email
    BY <1>3, Start DEF Sound, SessionFits, Exists, Absent
  <2>3. \E other \in Users \ {email} : ActiveAdmin(db, other)
    <3>1. PICK other \in Users : ActiveAdmin(db, other)
      BY ServedByAdmin DEF OidcCallback
    <3>2. ~ActiveAdmin(db, email)
      BY <1>3 DEF ActiveAdmin, Exists, Absent
    <3> QED
      BY <3>1, <3>2
  <2> HIDE DEF row
  <2>4. /\ provisioned \in Accounts /\ provisioned.users = [db.users EXCEPT ![email] = row]
        /\ provisioned.sessions = db.sessions
    BY <2>1, Start, RowWritten
  <2> HIDE DEF provisioned
  <2>5. Sound(provisioned) /\ \A v \in Users : Exists(db, v) => Exists(provisioned, v)
    BY <2>1, <2>2, <2>3, <2>4, Start, RowSound
  <2>6. Sound(created) /\ created.users = provisioned.users
    <3>1. "create" \in Actions /\ None \in Users \cup {None} /\ email \in Users \cup {None}
      BY DEF Actions
    <3> QED
      BY <2>5, <3>1, AuditSound
  <2> HIDE DEF created
  <2>7. created.users[email] = row
    BY <2>4, <2>6, Start, Fields
  <2>8. Sound(LoggedIn(created, email)) /\ LoggedIn(created, email).users = created.users
    BY <2>1, <2>6, <2>7, LoggedInSound
  <2> HIDE DEF LoggedIn
  <2> QED
    BY <1>3, <2>5, <2>6, <2>8, Start, StageKeeps DEF Exists
<1>4. ASSUME Stage(b, failed, cookie[b], "ok"), UNCHANGED fresh
      PROVE  IInv'
  <2>1. Sound(failed) /\ failed.users = db.users
    <3>1. "oidc_login_failed" \in Actions /\ None \in Users \cup {None}
      BY DEF Actions
    <3> QED
      BY <3>1, Start, AuditSound
  <2>2. cookie[b] \in Tokens \cup {None} /\ fresh' \in Nat
    BY <1>4 DEF IInv, TypeOK
  <2> HIDE DEF failed
  <2> QED
    BY <1>4, <2>1, <2>2, StageKeeps DEF Exists
<1> HIDE DEF LoggedIn, row, provisioned, created, failed
<1> QED
  BY <1>1, <1>2, <1>3, <1>4 DEF LoggedIn, row, provisioned, created, failed

-----------------------------------------------------------------------------
(* Steps outside of a unit, and the end of one *)

\* A call of its own changes records and sessions only.
LEMMA DirectKeeps ==
  ASSUME IInv, Sound(db'), db'.users = db.users, work' = db', owner = None,
         UNCHANGED <<owner, reply, cookie, answer, start, now, fresh>>
  PROVE  IInv'
<1>1. TypeOK'
  BY DEF IInv, TypeOK, Sound
<1>2. Sound(db)' /\ Sound(work)'
  BY DEF Sound, AdminLeft, Empty, Exists, ActiveAdmin, SessionFits
<1>3. StartInv'
  BY Given DEF IInv, StartInv, Exists, Empty, Actors
<1> QED
  BY <1>1, <1>2, <1>3 DEF IInv

LEMMA OidcFailKeeps == IInv /\ OidcFail => IInv'
<1> SUFFICES ASSUME IInv, OidcFail PROVE IInv'
  OBVIOUS
<1>1. "oidc_login_failed" \in Actions /\ None \in Users \cup {None}
  BY DEF Actions
<1>2. Sound(db') /\ db'.users = db.users
  BY <1>1, Start, AuditSound DEF OidcFail
<1> QED
  BY <1>2, DirectKeeps DEF OidcFail, GetsUnit

LEMMA SweepKeeps == IInv /\ Sweep => IInv'
<1> SUFFICES ASSUME IInv, Sweep PROVE IInv'
  OBVIOUS
<1>1. PICK t \in 0..now : db' = [Begun(db) EXCEPT !.sessions = @ \ Expired(db, t)]
  BY DEF Sweep
<1> DEFINE X == Begun(db).sessions \ Expired(db, t)
<1>2. X \in SUBSET Begun(db).sessions /\ db' = [Begun(db) EXCEPT !.sessions = X]
  BY <1>1, Start
<1> HIDE DEF X
<1>3. Sound(db') /\ db'.users = db.users
  BY <1>2, Start, FewerSessionsSound
<1> QED
  BY <1>3, DirectKeeps DEF Sweep

\* COMMIT
LEMMA CommitKeeps ==
  ASSUME IInv, CommitUnit, cookie' \in [Browsers -> Tokens \cup {None}],
         answer' \in {"none", "ok", "refused"},
         start' \in [Processes -> {"start", "create", "serving"}],
         \A p \in Processes : start'[p] = "serving" => start[p] = "serving" \/ ~Empty(work)
  PROVE  IInv'
<1>1. TypeOK'
  BY Given DEF IInv, TypeOK, CommitUnit, Reply, NoReply
<1>2. Sound(db)' /\ Sound(work)'
  BY DEF IInv, CommitUnit, Sound, AdminLeft, Empty, Exists, ActiveAdmin, SessionFits
<1>3. StartInv'
  BY Given DEF IInv, StartInv, CommitUnit, Exists, Empty, Actors
<1> QED
  BY <1>1, <1>2, <1>3 DEF IInv

\* A unit without a trace
LEMMA UndoKeeps ==
  ASSUME IInv, owner' = None, work' = db, reply' \in Reply,
         start' \in [Processes -> {"start", "create", "serving"}],
         \A p \in Processes : start'[p] = "serving" => start[p] = "serving",
         UNCHANGED <<db, cookie, answer, now, fresh>>
  PROVE  IInv'
<1>1. TypeOK'
  BY DEF IInv, TypeOK
<1>2. Sound(db)' /\ Sound(work)'
  BY DEF IInv, Sound, AdminLeft, Empty, Exists, ActiveAdmin, SessionFits
<1>3. StartInv'
  BY Given DEF IInv, StartInv, Exists, Empty, Actors
<1> QED
  BY <1>1, <1>2, <1>3 DEF IInv

LEMMA NoReplyType == NoReply \in Reply
BY DEF NoReply, Reply

LEMMA RequestEnds ==
  ASSUME IInv, NEW b \in Browsers, Commit(b) \/ Abort(b)
  PROVE  IInv'
<1>1. CASE Commit(b)
  <2>1. cookie' \in [Browsers -> Tokens \cup {None}] /\ answer' \in {"none", "ok", "refused"}
    BY <1>1 DEF Commit, Respond, IInv, TypeOK, Reply
  <2> QED
    BY <1>1, <2>1, CommitKeeps DEF Commit, IInv, TypeOK
<1>2. CASE Abort(b)
  BY <1>2, NoReplyType, UndoKeeps DEF Abort, IInv, TypeOK
<1> QED
  BY <1>1, <1>2

-----------------------------------------------------------------------------
(* Starting, and recovery *)

\* A unit of a process or of the operator opens.
LEMMA OpensKeeps ==
  ASSUME IInv, NEW p \in Processes \cup {Operator}, owner' = p, Sound(work'),
         \A u \in Users : Exists(db, u) => Exists(work', u),
         ~Empty(work'),
         UNCHANGED <<db, reply, cookie, answer, start, now, fresh>>
  PROVE  IInv'
<1>1. p \in Actors /\ p # None
  BY Given DEF Actors
<1>2. TypeOK'
  BY <1>1 DEF IInv, TypeOK, Sound
<1>3. Sound(db)' /\ Sound(work)'
  BY DEF IInv, Sound, AdminLeft, Empty, Exists, ActiveAdmin, SessionFits
<1>4. StartInv'
  BY DEF IInv, StartInv, Exists, Empty
<1> QED
  BY <1>2, <1>3, <1>4 DEF IInv

LEMMA StartKeeps ==
  ASSUME IInv, NEW p \in Processes, CountUsers(p) \/ FinishStart(p) \/ CrashStart(p)
  PROVE  IInv'
<1>1. CASE CountUsers(p)
  <2>1. TypeOK'
    BY <1>1 DEF IInv, TypeOK, CountUsers
  <2>2. Sound(db)' /\ Sound(work)'
    BY <1>1 DEF CountUsers, IInv, Sound, AdminLeft, Empty, Exists, ActiveAdmin, SessionFits
  <2>3. StartInv'
    BY <1>1 DEF CountUsers, IInv, TypeOK, StartInv, Empty, Exists
  <2> QED
    BY <2>1, <2>2, <2>3 DEF IInv
<1>2. CASE FinishStart(p)
  BY <1>2, CommitKeeps DEF FinishStart, IInv, TypeOK, StartInv
<1>3. CASE CrashStart(p)
  <2>1. /\ start' \in [Processes -> {"start", "create", "serving"}]
        /\ \A q \in Processes : start'[q] = "serving" => start[q] = "serving"
    BY <1>3 DEF CrashStart, IInv, TypeOK
  <2>2. CASE owner = p
    BY <1>3, <2>1, <2>2, UndoKeeps DEF CrashStart, IInv, TypeOK
  <2>3. CASE owner # p
    <3>1. TypeOK'
      BY <1>3, <2>1, <2>3 DEF IInv, TypeOK, CrashStart
    <3>2. Sound(db)' /\ Sound(work)'
      BY <1>3, <2>3 DEF CrashStart, IInv, Sound, AdminLeft, Empty, Exists, ActiveAdmin, SessionFits
    <3>3. StartInv'
      BY <1>3, <2>1, <2>3 DEF CrashStart, IInv, StartInv, Empty, Exists
    <3> QED
      BY <3>1, <3>2, <3>3 DEF IInv
  <2> QED
    BY <2>2, <2>3
<1> QED
  BY <1>1, <1>2, <1>3

LEMMA CreateInitialAdminKeeps ==
  ASSUME IInv, NEW p \in Processes, CreateInitialAdmin(p)
  PROVE  IInv'
<1>1. CASE Empty(db)
  <2> DEFINE row == NewUser("admin", "local", 1, None)
             t == [Begun(db) EXCEPT !.users[First] = row]
             s == AppendAudit(t, "bootstrap", None, First)
  <2>1. row \in User /\ RowFits(row) /\ row # Absent /\ row.role = "admin" /\ row.active
    BY Given DEF NewUser, User, RowFits, Absent, Roles
  <2>2. \A x \in db.sessions : x.user # First
    BY <1>1, Given, Start DEF Sound, SessionFits, Empty, Exists, Absent
  <2> HIDE DEF row
  <2>3. t \in Accounts /\ t.users = [db.users EXCEPT ![First] = row] /\ t.sessions = db.sessions
    BY <2>1, Given, Start, RowWritten
  <2> HIDE DEF t
  <2>4. Sound(t) /\ \A v \in Users : Exists(db, v) => Exists(t, v)
    BY <2>1, <2>2, <2>3, Given, Start, RowSound
  <2>5. Sound(s) /\ s.users = t.users
    <3>1. "bootstrap" \in Actions /\ None \in Users \cup {None} /\ First \in Users \cup {None}
      BY Given DEF Actions
    <3> QED
      BY <2>4, <3>1, AuditSound
  <2>6. /\ work' = s /\ owner' = p
        /\ UNCHANGED <<db, reply, cookie, answer, start, now, fresh>>
    BY <1>1 DEF CreateInitialAdmin, StillEmpty, t, row
  <2> HIDE DEF s
  <2>7. t.users[First] = row
    BY <2>3, Given, Start, Fields
  <2>8. ~Empty(s)
    BY <2>1, <2>5, <2>7, Given DEF Empty, Exists
  <2> QED
    BY <2>4, <2>5, <2>6, <2>8, OpensKeeps DEF Exists
<1>2. CASE ~Empty(db)
  <2>1. /\ start' = [start EXCEPT ![p] = "serving"]
        /\ UNCHANGED <<work, owner, db, reply, cookie, answer, now, fresh>>
    BY <1>2 DEF CreateInitialAdmin, StillEmpty
  <2>2. TypeOK'
    BY <2>1 DEF IInv, TypeOK
  <2>3. Sound(db)' /\ Sound(work)'
    BY <2>1 DEF IInv, Sound, AdminLeft, Empty, Exists, ActiveAdmin, SessionFits
  <2>4. StartInv'
    BY <1>2, <2>1 DEF IInv, TypeOK, StartInv, Empty, Exists
  <2> QED
    BY <2>2, <2>3, <2>4 DEF IInv
<1> QED
  BY <1>1, <1>2

\* A recovered administrator
LEMMA RecoveredRow ==
  ASSUME NEW s \in Accounts, NEW u \in Users, RowFits(s.users[u]), s.users[u].role = "admin"
  PROVE  LET row == [s.users[u] EXCEPT !.pass = @ + 1, !.active = TRUE] IN
         /\ [s EXCEPT !.users[u].pass = @ + 1, !.users[u].active = TRUE]
              = [s EXCEPT !.users[u] = row]
         /\ row \in User /\ row.role = "admin" /\ row.active /\ RowFits(row) /\ row # Absent
<1> DEFINE row == [s.users[u] EXCEPT !.pass = @ + 1, !.active = TRUE]
<1>1. s.users[u] \in User
  BY Fields
<1>2. /\ row \in User /\ row.role = "admin" /\ row.active
      /\ row.source = s.users[u].source /\ row.subject = s.users[u].subject
  <2>1. row.active
    BY <1>1 DEF User
  <2>2. row.role = "admin"
    BY <1>1 DEF User
  <2>3. row.source = s.users[u].source /\ row.subject = s.users[u].subject
    BY <1>1 DEF User
  <2>4. row \in User
    <3> DEFINE grown == [s.users[u] EXCEPT !.pass = @ + 1]
    <3>1. grown \in User
      BY PassGrown
    <3>2. row = [grown EXCEPT !.active = TRUE]
      OBVIOUS
    <3> HIDE DEF row, grown
    <3>3. [grown EXCEPT !.active = TRUE] \in User
      BY <3>1 DEF User
    <3> QED
      BY <3>2, <3>3
  <2> QED
    BY <2>1, <2>2, <2>3, <2>4
<1>3. [s EXCEPT !.users[u].pass = @ + 1, !.users[u].active = TRUE] = [s EXCEPT !.users[u] = row]
  BY <1>1, Fields DEF Accounts, User
<1> HIDE DEF row
<1>4. RowFits(row) /\ row # Absent
  BY <1>1, <1>2, NewRowFits
<1> QED
  BY <1>2, <1>3, <1>4 DEF row

LEMMA RecoverKeeps ==
  ASSUME IInv, NEW u \in Users, Recover(u)
  PROVE  IInv'
<1> DEFINE row == [db.users[u] EXCEPT !.pass = @ + 1, !.active = TRUE]
           r == [Begun(db) EXCEPT !.users[u].pass = @ + 1, !.users[u].active = TRUE]
           t == DeleteSessionsForUser(r, u)
           s == AppendAudit(t, "recovery", None, u)
<1>1. /\ r = [Begun(db) EXCEPT !.users[u] = row]
      /\ row \in User /\ row.role = "admin" /\ row.active /\ RowFits(row) /\ row # Absent
  <2>1. /\ Begun(db) \in Accounts /\ Begun(db).users[u] = db.users[u]
        /\ RowFits(Begun(db).users[u]) /\ Begun(db).users[u].role = "admin"
    BY Start DEF Recover, Sound
  <2> DEFINE new == [Begun(db).users[u] EXCEPT !.pass = @ + 1, !.active = TRUE]
  <2>2. /\ [Begun(db) EXCEPT !.users[u].pass = @ + 1, !.users[u].active = TRUE]
             = [Begun(db) EXCEPT !.users[u] = new]
        /\ new \in User /\ new.role = "admin" /\ new.active /\ RowFits(new) /\ new # Absent
    <3> HIDE DEF row, r, t, s
    <3> QED
      BY <2>1, RecoveredRow
  <2>3. new = row
    BY <2>1
  <2> HIDE DEF new, row
  <2> QED
    BY <2>2, <2>3
<1> HIDE DEF row, r
<1>2. /\ t \in Accounts /\ t.users = [db.users EXCEPT ![u] = row]
      /\ t.sessions = {x \in db.sessions : x.user # u}
  BY <1>1, Start, RowWritten
<1> HIDE DEF t
<1>3. Sound(t) /\ \A v \in Users : Exists(db, v) => Exists(t, v)
  BY <1>1, <1>2, Start, RowSound
<1>4. Sound(s) /\ s.users = t.users
  <2>1. "recovery" \in Actions /\ None \in Users \cup {None} /\ u \in Users \cup {None}
    BY DEF Actions
  <2> QED
    BY <1>3, <2>1, AuditSound
<1>5. work' = s /\ owner' = Operator /\ UNCHANGED <<db, reply, cookie, answer, start, now, fresh>>
  BY DEF Recover, t, r
<1> HIDE DEF s
<1>6. t.users[u] = row
  BY <1>2, Start, Fields
<1>7. ~Empty(s)
  BY <1>1, <1>4, <1>6 DEF Empty, Exists
<1> QED
  BY <1>3, <1>4, <1>5, <1>7, OpensKeeps DEF Exists

LEMMA FinishRecoveryKeeps == IInv /\ FinishRecovery => IInv'
<1> SUFFICES ASSUME IInv, FinishRecovery PROVE IInv'
  OBVIOUS
<1>1. CASE CommitUnit
  BY <1>1, CommitKeeps DEF FinishRecovery, IInv, TypeOK
<1>2. CASE owner' = None /\ work' = db /\ UNCHANGED <<db, reply, now, fresh>>
  BY <1>2, UndoKeeps DEF FinishRecovery, IInv, TypeOK
<1> QED
  BY <1>1, <1>2 DEF FinishRecovery

LEMMA UnchangedKeeps ==
  ASSUME IInv, UNCHANGED <<db, work, owner, reply, cookie, answer, start, fresh>>, now' \in Nat
  PROVE  IInv'
<1>1. TypeOK'
  BY DEF IInv, TypeOK
<1>2. Sound(db)' /\ Sound(work)'
  BY DEF IInv, Sound, AdminLeft, Empty, Exists, ActiveAdmin, SessionFits
<1>3. StartInv'
  BY DEF IInv, StartInv, Empty, Exists
<1> QED
  BY <1>1, <1>2, <1>3 DEF IInv

-----------------------------------------------------------------------------
(* The theorems *)

LEMMA NextKeeps == IInv /\ [Next]_vars => IInv'
<1> SUFFICES ASSUME IInv, [Next]_vars PROVE IInv'
  OBVIOUS
<1>1. ASSUME NEW b \in Browsers, LogIn(b) PROVE IInv'
  BY <1>1, LogInKeeps
<1>2. ASSUME NEW b \in Browsers, LogOut(b) PROVE IInv'
  BY <1>2, LogOutKeeps
<1>3. ASSUME NEW b \in Browsers, CreateUser(b) PROVE IInv'
  BY <1>3, CreateUserKeeps
<1>4. ASSUME NEW b \in Browsers, ChangePassword(b) PROVE IInv'
  BY <1>4, ChangePasswordKeeps
<1>5. ASSUME NEW b \in Browsers, PatchUser(b) PROVE IInv'
  BY <1>5, PatchUserKeeps
<1>6. ASSUME NEW b \in Browsers, OidcCallback(b) PROVE IInv'
  BY <1>6, OidcCallbackKeeps
<1>7. ASSUME NEW b \in Browsers, Commit(b) \/ Abort(b) PROVE IInv'
  BY <1>7, RequestEnds
<1>8. CASE OidcFail
  BY <1>8, OidcFailKeeps
<1>9. ASSUME NEW p \in Processes, CountUsers(p) \/ FinishStart(p) \/ CrashStart(p) PROVE IInv'
  BY <1>9, StartKeeps
<1>10. ASSUME NEW p \in Processes, CreateInitialAdmin(p) PROVE IInv'
  BY <1>10, CreateInitialAdminKeeps
<1>11. ASSUME NEW u \in Users, Recover(u) PROVE IInv'
  BY <1>11, RecoverKeeps
<1>12. CASE FinishRecovery
  BY <1>12, FinishRecoveryKeeps
<1>13. CASE Sweep
  BY <1>13, SweepKeeps
<1>14. CASE Tick
  BY <1>14, UnchangedKeeps DEF Tick, IInv, TypeOK
<1>15. CASE UNCHANGED vars
  BY <1>15, UnchangedKeeps DEF vars, IInv, TypeOK
<1> QED
  BY <1>1, <1>2, <1>3, <1>4, <1>5, <1>6, <1>7, <1>8, <1>9, <1>10, <1>11, <1>12, <1>13, <1>14,
     <1>15 DEF Next

LEMMA InvariantHolds == Spec => []IInv
BY InitEstablishes, NextKeeps, PTL DEF Spec

\* Type correctness; nothing is uncommitted while no unit is open.
THEOREM TypeCorrect == Spec => []TypeOK
<1>1. IInv => TypeOK
  BY DEF IInv
<1> QED
  BY <1>1, InvariantHolds, PTL

\* Once there are users, one of them is an active administrator.
THEOREM AnAdminRemains == Spec => []AdminRemains
<1>1. IInv => AdminRemains
  BY DEF IInv, Sound, AdminLeft, AdminRemains
<1> QED
  BY <1>1, InvariantHolds, PTL

\* No session outlives the credential that opened it.
THEOREM SessionsEndWithCredential == Spec => []SessionsMatchCredential
<1>1. IInv => SessionsMatchCredential
  BY DEF IInv, Sound, SessionFits, SessionsMatchCredential
<1> QED
  BY <1>1, InvariantHolds, PTL

-----------------------------------------------------------------------------
(* What an open unit has done, on record *)

\* Tokens are told apart, and the next one is new.
TokensFit(s, next) ==
  /\ \A x \in s.sessions : x.token < next
  /\ \A x, y \in s.sessions : x.token = y.token => x.user = y.user

\* Whose sessions have ended is on record.
Removed(old, new) ==
  \A x \in old.sessions \ new.sessions : \E e \in Records(new) : e.user = x.user

\* What the browser that holds a token is going to be told is true of s.
Answers(held, r, s) ==
  /\ r.cookie # held =>
       IF r.cookie = None THEN \A x \in s.sessions : x.token # held
       ELSE \E x \in s.sessions : x.token = r.cookie
  /\ r.status = "refused" => \E e \in Records(s) : e.action = "login_failed"

RecordInv ==
  /\ TokensFit(db, fresh) /\ TokensFit(work, fresh)
  /\ Explained(db, work) /\ Removed(db, work)
  /\ owner \in Browsers => Answers(cookie[owner], reply, work)

\* What a record adds to the tables
LEMMA RecordAdded ==
  ASSUME NEW s \in Accounts, NEW action \in Actions, NEW actor \in Users \cup {None},
         NEW user \in Users \cup {None}
  PROVE  LET t == AppendAudit(s, action, actor, user)
             e == [action |-> action, actor |-> actor, user |-> user]
         IN  /\ t \in Accounts /\ t.users = s.users /\ t.sessions = s.sessions
             /\ e \in Records(t) /\ Records(s) \subseteq Records(t)
<1> DEFINE t == AppendAudit(s, action, actor, user)
           e == [action |-> action, actor |-> actor, user |-> user]
<1>1. e \in AuditEntry
  BY DEF AuditEntry, Actions
<1>2. s.audit \in Seq(AuditEntry)
  BY Fields
<1>3. t = [s EXCEPT !.audit = Append(s.audit, e)]
  BY DEF AppendAudit
<1> HIDE DEF e, t
<1>4. Append(s.audit, e) \in Seq(AuditEntry)
  BY <1>1, <1>2
<1>5. t \in Accounts /\ t.users = s.users /\ t.sessions = s.sessions
      /\ t.audit = Append(s.audit, e)
  BY <1>3, <1>4 DEF Accounts
<1>6. DOMAIN t.audit = 1..(Len(s.audit) + 1) /\ Len(s.audit) \in Nat
      /\ DOMAIN s.audit = 1..Len(s.audit)
  BY <1>1, <1>2, <1>5
<1>7. t.audit[Len(s.audit) + 1] = e /\ \A i \in 1..Len(s.audit) : t.audit[i] = s.audit[i]
  BY <1>1, <1>2, <1>5
<1>8. e \in Records(t)
  <2>1. Len(s.audit) + 1 \in DOMAIN t.audit
    BY <1>6
  <2> QED
    BY <1>7, <2>1 DEF Records
<1>9. Records(s) \subseteq Records(t)
  <2>1. \A i \in DOMAIN s.audit : i \in DOMAIN t.audit /\ t.audit[i] = s.audit[i]
    BY <1>6, <1>7
  <2> QED
    BY <2>1 DEF Records
<1> QED
  BY <1>5, <1>8, <1>9 DEF t, e

\* The only user changed is u.
LEMMA ExplainedBy ==
  ASSUME NEW old, NEW new, NEW u \in Users, NEW e \in Records(new),
         \A v \in Users \ {u} : new.users[v] = old.users[v],
         e.user = u, Entitles(old, e, old.users[u], new.users[u])
  PROVE  Explained(old, new)
BY DEF Explained

LEMMA NothingChanged ==
  ASSUME NEW old, NEW new, new.users = old.users
  PROVE  Explained(old, new)
BY DEF Explained

LEMMA NothingRemoved ==
  ASSUME NEW old, NEW new, old.sessions \subseteq new.sessions
  PROVE  Removed(old, new)
BY DEF Removed

\* Fewer sessions have fitting tokens, and one with the next token may come.
LEMMA TokensOfFewer ==
  ASSUME NEW s, NEW t, NEW next \in Nat, NEW after \in Nat, TokensFit(s, next), after >= next,
         t.sessions \subseteq s.sessions, \A x \in s.sessions : x.token \in Nat
  PROVE  TokensFit(t, after)
BY DEF TokensFit

LEMMA TokensOfMore ==
  ASSUME NEW s \in Accounts, NEW t, NEW next \in Nat, TokensFit(s, next), NEW x,
         x.token = next, t.sessions = s.sessions \cup {x}
  PROVE  TokensFit(t, next + 1)
<1>1. \A y \in s.sessions : y.token \in Nat /\ y.token < next
  BY Fields DEF TokensFit, Session
<1>2. \A y \in t.sessions : y = x \/ y \in s.sessions
  OBVIOUS
<1>3. \A y \in t.sessions : y.token < next + 1
  BY <1>1, <1>2
<1>4. ASSUME NEW y \in t.sessions, NEW z \in t.sessions, y.token = z.token
      PROVE  y.user = z.user
  BY <1>1, <1>2, <1>4 DEF TokensFit
<1> QED
  BY <1>3, <1>4 DEF TokensFit

\* A request stages what is explained.
LEMMA StageRecorded ==
  ASSUME IInv, RecordInv, NEW b \in Browsers, NEW state, NEW token, NEW status,
         Stage(b, state, token, status), fresh' >= fresh, fresh' \in Nat,
         TokensFit(state, fresh'), Explained(db, state), Removed(db, state),
         Answers(cookie[b], [cookie |-> token, status |-> status], state)
  PROVE  RecordInv'
<1>1. /\ work' = state /\ owner' = b /\ reply' = [cookie |-> token, status |-> status]
      /\ db' = db /\ cookie' = cookie
  BY DEF Stage
<1>2. TokensFit(db, fresh')
  <2>1. fresh \in Nat /\ \A x \in db.sessions : x.token \in Nat
    BY Start, Fields DEF Session
  <2> QED
    BY <2>1, TokensOfFewer DEF RecordInv
<1>3. /\ TokensFit(db', fresh') /\ TokensFit(work', fresh')
      /\ Explained(db', work') /\ Removed(db', work')
      /\ Answers(cookie'[owner'], reply', work')
  BY <1>1, <1>2
<1> QED
  BY <1>3 DEF RecordInv

\* What a unit starts from
LEMMA RecordStart ==
  ASSUME IInv, RecordInv
  PROVE  /\ TokensFit(db, fresh) /\ fresh \in Nat /\ db \in Accounts
         /\ \A x \in db.sessions : x.token \in Nat /\ x.user \in Users
         /\ \A b \in Browsers : cookie[b] \in Tokens \cup {None}
BY Start, Fields DEF RecordInv, IInv, TypeOK, Session

-----------------------------------------------------------------------------
(* The requests *)

LEMMA SessionOpened ==
  ASSUME NEW s \in Accounts, NEW u \in Users, NEW proof
  PROVE  LET x == [token |-> fresh, user |-> u, expires |-> now + TTL, proof |-> proof]
             t == WithSession(s, u, proof)
         IN  /\ t.users = s.users /\ t.sessions = s.sessions \cup {x}
             /\ Records(t) = Records(s)
BY Fields DEF WithSession, Accounts, Records

\* A login, of whatever kind, on what has been recorded before it
LEMMA LoggedInRecorded ==
  ASSUME IInv, RecordInv, NEW b \in Browsers, NEW s \in Accounts, NEW u \in Users, NEW proof,
         s.sessions = db.sessions, Explained(db, s),
         Stage(b, WithSession(s, u, proof), fresh, "ok"), fresh' = fresh + 1
  PROVE  RecordInv'
<1> DEFINE x == [token |-> fresh, user |-> u, expires |-> now + TTL, proof |-> proof]
           t == WithSession(s, u, proof)
<1>1. t.users = s.users /\ t.sessions = s.sessions \cup {x} /\ Records(t) = Records(s)
  BY SessionOpened
<1>2. x.token = fresh
  OBVIOUS
<1> HIDE DEF x, t
<1>3. TokensFit(s, fresh)
  BY RecordStart DEF TokensFit
<1>4. TokensFit(t, fresh + 1)
  BY <1>1, <1>2, <1>3, RecordStart, TokensOfMore
<1>5. Explained(db, t)
  BY <1>1 DEF Explained
<1>6. Removed(db, t)
  BY <1>1, NothingRemoved
<1>7. Answers(cookie[b], [cookie |-> fresh, status |-> "ok"], t)
  <2>1. fresh # None
    BY RecordStart, AccountsAssumption DEF AccountsAssumption
  <2>2. x \in t.sessions
    BY <1>1
  <2> QED
    BY <1>2, <2>1, <2>2 DEF Answers
<1> QED
  BY <1>4, <1>5, <1>6, <1>7, RecordStart, StageRecorded DEF t

LEMMA LogInRecorded ==
  ASSUME IInv, RecordInv, NEW b \in Browsers, LogIn(b)
  PROVE  RecordInv'
<1>1. PICK u \in Users, pass \in Passwords :
       IF PasswordVerified(u, pass)
       THEN /\ fresh \in Tokens /\ fresh' = fresh + 1
            /\ Stage(b, WithSession(AppendAudit(Begun(db), "login", u, u), u,
                                   [db.users[u] EXCEPT !.source = "local", !.pass = pass]),
                     fresh, "ok")
       ELSE /\ Stage(b, AppendAudit(Begun(db), "login_failed", None, u), cookie[b], "refused")
            /\ UNCHANGED fresh
  BY DEF LogIn
<1>2. CASE PasswordVerified(u, pass)
  <2> DEFINE s == AppendAudit(Begun(db), "login", u, u)
  <2>1. s \in Accounts /\ s.users = db.users /\ s.sessions = db.sessions
    <3>1. "login" \in Actions /\ u \in Users \cup {None}
      BY DEF Actions
    <3> QED
      BY <3>1, Start, RecordAdded
  <2>2. /\ Stage(b, WithSession(s, u, [db.users[u] EXCEPT !.source = "local", !.pass = pass]),
                 fresh, "ok")
        /\ fresh' = fresh + 1
    BY <1>1, <1>2
  <2> HIDE DEF s
  <2> QED
    BY <2>1, <2>2, NothingChanged, LoggedInRecorded
<1>3. CASE ~PasswordVerified(u, pass)
  <2> DEFINE s == AppendAudit(Begun(db), "login_failed", None, u)
  <2>1. /\ s.users = db.users /\ s.sessions = db.sessions
        /\ \E e \in Records(s) : e.action = "login_failed"
    <3>1. "login_failed" \in Actions /\ None \in Users \cup {None} /\ u \in Users \cup {None}
      BY DEF Actions
    <3> QED
      BY <3>1, Start, RecordAdded
  <2>2. Stage(b, s, cookie[b], "refused") /\ fresh' = fresh
    BY <1>1, <1>3
  <2> HIDE DEF s
  <2>3. TokensFit(s, fresh) /\ Removed(db, s) /\ Explained(db, s)
    BY <2>1, RecordStart, NothingRemoved, NothingChanged DEF TokensFit
  <2>4. Answers(cookie[b], [cookie |-> cookie[b], status |-> "refused"], s)
    BY <2>1 DEF Answers
  <2> QED
    BY <2>2, <2>3, <2>4, RecordStart, StageRecorded
<1> QED
  BY <1>2, <1>3

\* The cookie of a request that got past requireAuth stands for its user.
LEMMA CookieOfUser ==
  ASSUME IInv, RecordInv, NEW b \in Browsers, NEW roles, NEW u \in Authenticated(b, roles)
  PROVE  \A x \in db.sessions : x.token = cookie[b] => x.user = u
BY DEF Authenticated, LiveSessions, RecordInv, TokensFit

LEMMA LogOutRecorded ==
  ASSUME IInv, RecordInv, NEW b \in Browsers, LogOut(b)
  PROVE  RecordInv'
<1>1. PICK u \in Authenticated(b, Granted("logout")) :
        Stage(b, AppendAudit(DeleteSession(Begun(db), cookie[b]), "logout", u, u), None, "ok")
  BY DEF LogOut
<1> DEFINE d == DeleteSession(Begun(db), cookie[b])
           s == AppendAudit(d, "logout", u, u)
<1>2. u \in Users
  BY AuthenticatedUser
<1>3. d \in Accounts /\ d.users = db.users
      /\ d.sessions = {x \in db.sessions : x.token # cookie[b]}
  BY Start, FewerSessionsSound DEF DeleteSession, Sound
<1> HIDE DEF d
<1>4. /\ s.users = db.users /\ s.sessions = {x \in db.sessions : x.token # cookie[b]}
      /\ \E e \in Records(s) : e.user = u
  <2> DEFINE e == [action |-> "logout", actor |-> u, user |-> u]
  <2>1. "logout" \in Actions /\ u \in Users \cup {None}
    BY <1>2 DEF Actions
  <2>2. s.users = d.users /\ s.sessions = d.sessions /\ e \in Records(s)
    BY <1>3, <2>1, RecordAdded
  <2>3. e.user = u
    OBVIOUS
  <2> HIDE DEF e, s
  <2> QED
    BY <1>3, <2>2, <2>3
<1>5. Stage(b, s, None, "ok") /\ fresh' = fresh
  BY <1>1 DEF LogOut, d
<1> HIDE DEF s
<1>6. TokensFit(s, fresh)
  BY <1>4, RecordStart, TokensOfFewer
<1>7. Removed(db, s)
  BY <1>4, CookieOfUser DEF Removed
<1>8. Answers(cookie[b], [cookie |-> None, status |-> "ok"], s)
  BY <1>4 DEF Answers
<1> QED
  BY <1>4, <1>5, <1>6, <1>7, <1>8, NothingChanged, RecordStart, StageRecorded

\* The row of u is written, the sessions of u may have ended, and a record
\* that names u entitles to the change.
LEMMA RowRecorded ==
  ASSUME IInv, RecordInv, NEW t \in Accounts, NEW u \in Users, NEW row,
         t.users = [db.users EXCEPT ![u] = row],
         t.sessions = db.sessions \/ t.sessions = {x \in db.sessions : x.user # u},
         NEW action \in Actions, NEW actor \in Users \cup {None},
         Entitles(db, [action |-> action, actor |-> actor, user |-> u], db.users[u], row)
  PROVE  LET s == AppendAudit(t, action, actor, u)
         IN  /\ s \in Accounts /\ s.sessions = t.sessions
             /\ Explained(db, s) /\ Removed(db, s) /\ TokensFit(s, fresh)
<1> DEFINE e == [action |-> action, actor |-> actor, user |-> u]
           s == AppendAudit(t, action, actor, u)
<1>1. /\ s \in Accounts /\ s.users = t.users /\ s.sessions = t.sessions
      /\ e \in Records(s) /\ e.user = u /\ Entitles(db, e, db.users[u], row)
  BY RecordAdded
<1> HIDE DEF e, s
<1>2. \A v \in Users : s.users[v] = IF v = u THEN row ELSE db.users[v]
  BY <1>1, Start, Fields
<1>3. Explained(db, s)
  <2>1. s.users[u] = row /\ \A v \in Users \ {u} : s.users[v] = db.users[v]
    BY <1>2
  <2>2. Entitles(db, e, db.users[u], s.users[u])
    BY <1>1, <2>1
  <2> QED
    BY <1>1, <2>1, <2>2, ExplainedBy
<1>4. Removed(db, s)
  BY <1>1 DEF Removed
<1>5. TokensFit(s, fresh)
  BY <1>1, RecordStart, TokensOfFewer
<1> QED
  BY <1>1, <1>3, <1>4, <1>5 DEF s

LEMMA CreateUserRecorded ==
  ASSUME IInv, RecordInv, NEW b \in Browsers, CreateUser(b)
  PROVE  RecordInv'
<1>1. PICK a \in Authenticated(b, Granted("create")), u \in Users, role \in Roles :
       /\ ~Exists(db, u)
       /\ Stage(b, AppendAudit([Begun(db) EXCEPT !.users[u] = NewUser(role, "local", 1, None)],
                               "create", a, u), cookie[b], "ok")
  BY DEF CreateUser
<1> DEFINE row == NewUser(role, "local", 1, None)
           t == [Begun(db) EXCEPT !.users[u] = row]
           s == AppendAudit(t, "create", a, u)
<1>2. a \in Users /\ ActiveAdmin(db, a)
  BY AuthenticatedUser DEF ActiveAdmin, Granted
<1>3. row \in User
  BY Given DEF NewUser, User
<1>4. Stage(b, s, cookie[b], "ok") /\ fresh' = fresh
  BY <1>1 DEF CreateUser
<1> HIDE DEF row
<1>5. t \in Accounts /\ t.users = [db.users EXCEPT ![u] = row] /\ t.sessions = db.sessions
  BY <1>3, Start, RowWritten
<1> HIDE DEF t
<1>6. Entitles(db, [action |-> "create", actor |-> a, user |-> u], db.users[u], row)
  BY <1>2, Given DEF Entitles
<1>7. s.sessions = t.sessions /\ Explained(db, s) /\ Removed(db, s) /\ TokensFit(s, fresh)
  BY <1>2, <1>5, <1>6, RowRecorded DEF Actions
<1> HIDE DEF s
<1>8. Answers(cookie[b], [cookie |-> cookie[b], status |-> "ok"], s)
  BY DEF Answers
<1> QED
  BY <1>4, <1>7, <1>8, RecordStart, StageRecorded

LEMMA ChangePasswordRecorded ==
  ASSUME IInv, RecordInv, NEW b \in Browsers, ChangePassword(b)
  PROVE  RecordInv'
<1>1. PICK u \in Authenticated(b, Granted("password_change")) :
        Stage(b, AppendAudit(DeleteSessionsForUser([Begun(db) EXCEPT !.users[u].pass = @ + 1], u),
                               "password_change", u, u), None, "ok")
  BY DEF ChangePassword
<1> DEFINE row == [db.users[u] EXCEPT !.pass = @ + 1]
           t == DeleteSessionsForUser([Begun(db) EXCEPT !.users[u].pass = @ + 1], u)
           s == AppendAudit(t, "password_change", u, u)
<1>2. u \in Users /\ db.users[u].active
  BY AuthenticatedUser
<1>3. Stage(b, s, None, "ok") /\ fresh' = fresh
  BY <1>1 DEF ChangePassword
<1>4. /\ row \in User
      /\ [Begun(db) EXCEPT !.users[u].pass = @ + 1] = [Begun(db) EXCEPT !.users[u] = row]
  BY <1>2, Start, PassGrown
<1>5. row = [db.users[u] EXCEPT !.pass = row.pass]
  <2>1. db.users[u] \in User
    BY <1>2, Start, Fields
  <2> QED
    BY <2>1 DEF User
<1> HIDE DEF row
<1>6. /\ t \in Accounts /\ t.users = [db.users EXCEPT ![u] = row]
      /\ t.sessions = {x \in db.sessions : x.user # u}
  BY <1>2, <1>4, Start, RowWritten
<1> HIDE DEF t
<1>7. Entitles(db, [action |-> "password_change", actor |-> u, user |-> u], db.users[u], row)
  BY <1>2, <1>5 DEF Entitles
<1>8. s.sessions = t.sessions /\ Explained(db, s) /\ Removed(db, s) /\ TokensFit(s, fresh)
  BY <1>2, <1>6, <1>7, RowRecorded DEF Actions
<1> HIDE DEF s
<1>9. Answers(cookie[b], [cookie |-> None, status |-> "ok"], s)
  BY <1>6, <1>8, CookieOfUser DEF Answers
<1> QED
  BY <1>3, <1>8, <1>9, RecordStart, StageRecorded

LEMMA PatchUserRecorded ==
  ASSUME IInv, RecordInv, NEW b \in Browsers, PatchUser(b)
  PROVE  RecordInv'
<1>1. PICK a \in Authenticated(b, Granted("update")), u \in Users, p \in Patches :
       LET updated == [Begun(db) EXCEPT !.users[u] = Patched(@, p)] IN
       /\ Exists(db, u)
       /\ Stage(b, AppendAudit(IF Revokes(p) THEN DeleteSessionsForUser(updated, u) ELSE updated,
                               "update", a, u), cookie[b], "ok")
  BY DEF PatchUser
<1> DEFINE row == Patched(db.users[u], p)
           updated == [Begun(db) EXCEPT !.users[u] = row]
           t == IF Revokes(p) THEN DeleteSessionsForUser(updated, u) ELSE updated
           s == AppendAudit(t, "update", a, u)
<1>2. a \in Users /\ ActiveAdmin(db, a) /\ p \in Patch
  BY Given, AuthenticatedUser DEF ActiveAdmin, Granted
<1>3. row \in User
  BY <1>1, <1>2, Start, Fields, PatchedRow DEF Sound, Exists
<1>4. updated = [Begun(db) EXCEPT !.users[u] = Patched(@, p)]
  BY Start
<1>5. Stage(b, s, cookie[b], "ok") /\ fresh' = fresh
  BY <1>1, <1>4 DEF PatchUser
<1> HIDE DEF row
<1>6. /\ t \in Accounts /\ t.users = [db.users EXCEPT ![u] = row]
      /\ t.sessions = db.sessions \/ t.sessions = {x \in db.sessions : x.user # u}
  <2>1. Begun(db) \in Accounts
    BY Start
  <2>2. /\ updated \in Accounts /\ updated.users = [Begun(db).users EXCEPT ![u] = row]
        /\ updated.sessions = Begun(db).sessions
        /\ DeleteSessionsForUser(updated, u) \in Accounts
        /\ DeleteSessionsForUser(updated, u).users = [Begun(db).users EXCEPT ![u] = row]
        /\ DeleteSessionsForUser(updated, u).sessions = {x \in Begun(db).sessions : x.user # u}
    BY <1>3, <2>1, RowWritten
  <2> HIDE DEF updated
  <2> QED
    BY <2>2, Start
<1> HIDE DEF updated, t
<1>7. Entitles(db, [action |-> "update", actor |-> a, user |-> u], db.users[u], row)
  BY <1>2, Given DEF Entitles
<1>8. s.sessions = t.sessions /\ Explained(db, s) /\ Removed(db, s) /\ TokensFit(s, fresh)
  BY <1>2, <1>6, <1>7, RowRecorded DEF Actions
<1> HIDE DEF s
<1>9. Answers(cookie[b], [cookie |-> cookie[b], status |-> "ok"], s)
  BY DEF Answers
<1> QED
  BY <1>5, <1>8, <1>9, RecordStart, StageRecorded

LEMMA OidcCallbackRecorded ==
  ASSUME IInv, RecordInv, NEW b \in Browsers, OidcCallback(b)
  PROVE  RecordInv'
<1>1. PICK subject \in Subjects, email \in Users :
       LET found == AccountOf(subject, email)
           admitted == found = {} /\ ~Exists(db, email)
           provisioned == [Begun(db) EXCEPT !.users[email] = NewUser("readonly", "oidc", 0, subject)]
           LoggedIn(s, u) == WithSession(AppendAudit(s, "oidc_login", u, u), u,
             [s.users[u] EXCEPT !.source = "oidc", !.subject = subject]) IN
       \/ /\ fresh \in Tokens /\ fresh' = fresh + 1
          /\ \/ \E u \in found : db.users[u].active /\ Stage(b, LoggedIn(Begun(db), u), fresh, "ok")
             \/ /\ admitted
                /\ Stage(b, LoggedIn(AppendAudit(provisioned, "create", None, email), email),
                         fresh, "ok")
       \/ /\ ~admitted /\ \A u \in found : ~db.users[u].active
          /\ Stage(b, AppendAudit(Begun(db), "oidc_login_failed", None, None), cookie[b], "ok")
          /\ UNCHANGED fresh
  BY DEF OidcCallback
<1> DEFINE Recorded(s, u) == AppendAudit(s, "oidc_login", u, u)
           LoggedIn(s, u) == WithSession(Recorded(s, u), u,
             [s.users[u] EXCEPT !.source = "oidc", !.subject = subject])
           row == NewUser("readonly", "oidc", 0, subject)
           provisioned == [Begun(db) EXCEPT !.users[email] = row]
           created == AppendAudit(provisioned, "create", None, email)
           failed == AppendAudit(Begun(db), "oidc_login_failed", None, None)
<1>2. ASSUME NEW u \in AccountOf(subject, email), Stage(b, LoggedIn(Begun(db), u), fresh, "ok"),
             fresh' = fresh + 1
      PROVE  RecordInv'
  <2>1. u \in Users /\ "oidc_login" \in Actions /\ u \in Users \cup {None}
    BY <1>2 DEF AccountOf, Actions
  <2>2. /\ Recorded(Begun(db), u) \in Accounts /\ Recorded(Begun(db), u).users = db.users
        /\ Recorded(Begun(db), u).sessions = db.sessions
    BY <2>1, Start, RecordAdded
  <2> HIDE DEF Recorded
  <2> QED
    BY <1>2, <2>1, <2>2, NothingChanged, LoggedInRecorded
<1>3. ASSUME Stage(b, LoggedIn(created, email), fresh, "ok"), fresh' = fresh + 1
      PROVE  RecordInv'
  <2>1. row \in User /\ row.role = "readonly" /\ row.source = "oidc"
    BY Given DEF NewUser, User, Roles
  <2> HIDE DEF row
  <2>2. /\ provisioned \in Accounts /\ provisioned.users = [db.users EXCEPT ![email] = row]
        /\ provisioned.sessions = db.sessions
    BY <2>1, Start, RowWritten
  <2> HIDE DEF provisioned
  <2>3. Entitles(db, [action |-> "create", actor |-> None, user |-> email], db.users[email], row)
    BY <2>1 DEF Entitles
  <2>4. created \in Accounts /\ created.sessions = db.sessions /\ Explained(db, created)
    <3>1. "create" \in Actions /\ None \in Users \cup {None}
      BY DEF Actions
    <3> QED
      BY <2>2, <2>3, <3>1, RowRecorded
  <2> HIDE DEF created
  <2>5. /\ Recorded(created, email) \in Accounts /\ Recorded(created, email).users = created.users
        /\ Recorded(created, email).sessions = created.sessions
        /\ Records(created) \subseteq Records(Recorded(created, email))
    <3>1. "oidc_login" \in Actions /\ email \in Users \cup {None}
      BY DEF Actions
    <3> QED
      BY <2>4, <3>1, RecordAdded
  <2> HIDE DEF Recorded
  <2>6. Explained(db, Recorded(created, email))
    BY <2>4, <2>5 DEF Explained
  <2> QED
    BY <1>3, <2>4, <2>5, <2>6, LoggedInRecorded
<1>4. ASSUME Stage(b, failed, cookie[b], "ok"), UNCHANGED fresh
      PROVE  RecordInv'
  <2>1. failed.users = db.users /\ failed.sessions = db.sessions
    <3>1. "oidc_login_failed" \in Actions /\ None \in Users \cup {None}
      BY DEF Actions
    <3> QED
      BY <3>1, Start, RecordAdded
  <2> HIDE DEF failed
  <2>2. TokensFit(failed, fresh) /\ Removed(db, failed) /\ Explained(db, failed)
    BY <2>1, RecordStart, NothingRemoved, NothingChanged DEF TokensFit
  <2>3. Answers(cookie[b], [cookie |-> cookie[b], status |-> "ok"], failed)
    BY DEF Answers
  <2> QED
    BY <1>4, <2>2, <2>3, RecordStart, StageRecorded
<1> HIDE DEF row, provisioned, created, failed
<1> QED
  BY <1>1, <1>2, <1>3, <1>4 DEF LoggedIn, row, provisioned, created, failed

-----------------------------------------------------------------------------
(* Steps of others *)

\* A unit of a process or of the operator
LEMMA OpensRecorded ==
  ASSUME IInv, RecordInv, NEW p, p \notin Browsers, owner' = p,
         TokensFit(work', fresh), Explained(db, work'), Removed(db, work'),
         UNCHANGED <<db, fresh>>
  PROVE  RecordInv'
BY DEF RecordInv

\* Nothing is uncommitted.
LEMMA ClosedRecorded ==
  ASSUME IInv, RecordInv, work' = db', owner' \notin Browsers, TokensFit(db', fresh'),
         fresh' = fresh
  PROVE  RecordInv'
BY NothingChanged, NothingRemoved DEF RecordInv

LEMMA NoneIsNoBrowser == None \notin Browsers /\ Operator \notin Browsers
                         /\ \A p \in Processes : p \notin Browsers
BY Given DEF Actors

LEMMA UnitEndsRecorded ==
  ASSUME IInv, RecordInv, owner' = None, UNCHANGED fresh,
         \/ db' = work /\ work' = work
         \/ db' = db /\ work' = db
  PROVE  RecordInv'
BY NoneIsNoBrowser, ClosedRecorded DEF RecordInv

LEMMA DirectRecorded ==
  ASSUME IInv, RecordInv, owner = None, UNCHANGED <<owner, fresh>>, work' = db',
         db'.sessions \subseteq db.sessions
  PROVE  RecordInv'
<1>1. TokensFit(db', fresh)
  BY RecordStart, TokensOfFewer
<1> QED
  BY <1>1, NoneIsNoBrowser, ClosedRecorded

\* What the session sweep leaves
LEMMA Swept ==
  ASSUME IInv, Sweep
  PROVE  /\ db'.users = db.users /\ db'.sessions \subseteq db.sessions
         /\ \A x \in db.sessions \ db'.sessions : ~(x.expires > now)
<1>1. PICK t \in 0..now : db' = [Begun(db) EXCEPT !.sessions = @ \ Expired(db, t)]
  BY DEF Sweep
<1>2. db'.users = db.users /\ db'.sessions = db.sessions \ Expired(db, t)
  BY <1>1, Start DEF Accounts
<1>3. \A x \in db.sessions : x.expires \in Nat
  BY Start, Fields DEF Session
<1>4. t \in Nat /\ t <= now /\ now \in Nat
  BY Start
<1> QED
  BY <1>2, <1>3, <1>4 DEF Expired

LEMMA FailedSignOn ==
  ASSUME IInv, OidcFail
  PROVE  db'.users = db.users /\ db'.sessions = db.sessions
<1>1. "oidc_login_failed" \in Actions /\ None \in Users \cup {None}
  BY DEF Actions
<1> QED
  BY <1>1, Start, RecordAdded DEF OidcFail

LEMMA CreateInitialAdminRecorded ==
  ASSUME IInv, RecordInv, NEW p \in Processes, CreateInitialAdmin(p)
  PROVE  RecordInv'
<1>1. CASE Empty(db)
  <2> DEFINE row == NewUser("admin", "local", 1, None)
             t == [Begun(db) EXCEPT !.users[First] = row]
             s == AppendAudit(t, "bootstrap", None, First)
  <2>1. row \in User
    BY Given DEF NewUser, User, Roles
  <2>2. work' = s /\ owner' = p /\ UNCHANGED <<db, fresh>>
    BY <1>1 DEF CreateInitialAdmin, StillEmpty
  <2> HIDE DEF row
  <2>3. t \in Accounts /\ t.users = [db.users EXCEPT ![First] = row] /\ t.sessions = db.sessions
    BY <2>1, Given, Start, RowWritten
  <2> HIDE DEF t
  <2>4. Entitles(db, [action |-> "bootstrap", actor |-> None, user |-> First],
                 db.users[First], row)
    BY <1>1 DEF Entitles
  <2>5. Explained(db, s) /\ Removed(db, s) /\ TokensFit(s, fresh)
    <3>1. "bootstrap" \in Actions /\ None \in Users \cup {None} /\ First \in Users
      BY Given DEF Actions
    <3> QED
      BY <2>3, <2>4, <3>1, RowRecorded
  <2> HIDE DEF s
  <2> QED
    BY <2>2, <2>5, NoneIsNoBrowser, OpensRecorded
<1>2. CASE ~Empty(db)
  BY <1>2 DEF CreateInitialAdmin, StillEmpty, RecordInv
<1> QED
  BY <1>1, <1>2

LEMMA RecoverRecorded ==
  ASSUME IInv, RecordInv, NEW u \in Users, Recover(u)
  PROVE  RecordInv'
<1> DEFINE row == [db.users[u] EXCEPT !.pass = @ + 1, !.active = TRUE]
           r == [Begun(db) EXCEPT !.users[u].pass = @ + 1, !.users[u].active = TRUE]
           t == DeleteSessionsForUser(r, u)
           s == AppendAudit(t, "recovery", None, u)
<1>1. work' = s /\ owner' = Operator /\ UNCHANGED <<db, fresh>>
  BY DEF Recover
<1>2. /\ r = [Begun(db) EXCEPT !.users[u] = row]
      /\ row \in User /\ row = [db.users[u] EXCEPT !.pass = row.pass, !.active = TRUE]
  <2>1. /\ Begun(db) \in Accounts /\ Begun(db).users[u] = db.users[u]
        /\ RowFits(Begun(db).users[u]) /\ Begun(db).users[u].role = "admin"
    BY Start DEF Recover, Sound
  <2> DEFINE new == [Begun(db).users[u] EXCEPT !.pass = @ + 1, !.active = TRUE]
  <2>2. /\ [Begun(db) EXCEPT !.users[u].pass = @ + 1, !.users[u].active = TRUE]
             = [Begun(db) EXCEPT !.users[u] = new]
        /\ new \in User
    <3> HIDE DEF row, r, t, s
    <3> QED
      BY <2>1, RecoveredRow
  <2>3. new = row
    BY <2>1
  <2>4. row = [db.users[u] EXCEPT !.pass = row.pass, !.active = TRUE]
    <3>1. db.users[u] \in User
      BY Start, Fields
    <3> QED
      BY <3>1 DEF User
  <2> HIDE DEF new, row
  <2> QED
    BY <2>2, <2>3, <2>4
<1> HIDE DEF row, r
<1>3. /\ t \in Accounts /\ t.users = [db.users EXCEPT ![u] = row]
      /\ t.sessions = {x \in db.sessions : x.user # u}
  BY <1>2, Start, RowWritten
<1> HIDE DEF t
<1>4. Entitles(db, [action |-> "recovery", actor |-> None, user |-> u], db.users[u], row)
  BY <1>2 DEF Entitles, Recover
<1>5. Explained(db, s) /\ Removed(db, s) /\ TokensFit(s, fresh)
  <2>1. "recovery" \in Actions /\ None \in Users \cup {None}
    BY DEF Actions
  <2> QED
    BY <1>3, <1>4, <2>1, RowRecorded
<1> HIDE DEF s
<1> QED
  BY <1>1, <1>5, NoneIsNoBrowser, OpensRecorded

-----------------------------------------------------------------------------
(* The theorems about records *)

LEMMA InitRecorded == Init => RecordInv
<1> SUFFICES ASSUME Init PROVE RecordInv
  OBVIOUS
<1>1. db.sessions = {} /\ work = db /\ owner = None
  BY DEF Init
<1> QED
  BY <1>1, NoneIsNoBrowser, NothingChanged, NothingRemoved DEF RecordInv, TokensFit

LEMMA NextRecorded == IInv /\ RecordInv /\ [Next]_vars => RecordInv'
<1> SUFFICES ASSUME IInv, RecordInv, [Next]_vars PROVE RecordInv'
  OBVIOUS
<1>1. ASSUME NEW b \in Browsers, LogIn(b) PROVE RecordInv'
  BY <1>1, LogInRecorded
<1>2. ASSUME NEW b \in Browsers, LogOut(b) PROVE RecordInv'
  BY <1>2, LogOutRecorded
<1>3. ASSUME NEW b \in Browsers, CreateUser(b) PROVE RecordInv'
  BY <1>3, CreateUserRecorded
<1>4. ASSUME NEW b \in Browsers, ChangePassword(b) PROVE RecordInv'
  BY <1>4, ChangePasswordRecorded
<1>5. ASSUME NEW b \in Browsers, PatchUser(b) PROVE RecordInv'
  BY <1>5, PatchUserRecorded
<1>6. ASSUME NEW b \in Browsers, OidcCallback(b) PROVE RecordInv'
  BY <1>6, OidcCallbackRecorded
<1>7. ASSUME NEW b \in Browsers, Commit(b) PROVE RecordInv'
  BY <1>7, UnitEndsRecorded DEF Commit, CommitUnit
<1>8. ASSUME NEW b \in Browsers, Abort(b) PROVE RecordInv'
  BY <1>8, UnitEndsRecorded DEF Abort
<1>9. CASE OidcFail
  BY <1>9, FailedSignOn, DirectRecorded DEF OidcFail, GetsUnit
<1>10. ASSUME NEW p \in Processes, CountUsers(p) PROVE RecordInv'
  BY <1>10 DEF CountUsers, RecordInv
<1>11. ASSUME NEW p \in Processes, FinishStart(p) PROVE RecordInv'
  BY <1>11, UnitEndsRecorded DEF FinishStart, CommitUnit
<1>12. ASSUME NEW p \in Processes, CrashStart(p) PROVE RecordInv'
  <2>1. CASE owner = p
    BY <1>12, <2>1, UnitEndsRecorded DEF CrashStart
  <2>2. CASE owner # p
    BY <1>12, <2>2 DEF CrashStart, RecordInv
  <2> QED
    BY <2>1, <2>2
<1>13. ASSUME NEW p \in Processes, CreateInitialAdmin(p) PROVE RecordInv'
  BY <1>13, CreateInitialAdminRecorded
<1>14. ASSUME NEW u \in Users, Recover(u) PROVE RecordInv'
  BY <1>14, RecoverRecorded
<1>15. CASE FinishRecovery
  BY <1>15, UnitEndsRecorded DEF FinishRecovery, CommitUnit
<1>16. CASE Sweep
  BY <1>16, Swept, DirectRecorded DEF Sweep
<1>17. CASE Tick
  BY <1>17 DEF Tick, RecordInv
<1>18. CASE UNCHANGED vars
  BY <1>18 DEF vars, RecordInv
<1> QED
  BY <1>1, <1>2, <1>3, <1>4, <1>5, <1>6, <1>7, <1>8, <1>9, <1>10, <1>11, <1>12, <1>13, <1>14,
     <1>15, <1>16, <1>17, <1>18 DEF Next

LEMMA RecordsHold == Spec => [](IInv /\ RecordInv)
<1>1. Init => IInv /\ RecordInv
  BY InitEstablishes, InitRecorded
<1>2. IInv /\ RecordInv /\ [Next]_vars => (IInv /\ RecordInv)'
  BY NextKeeps, NextRecorded
<1> QED
  BY <1>1, <1>2, PTL DEF Spec

\* Only COMMIT and calls outside of a unit change what is committed.
LEMMA CommittedChanges ==
  ASSUME [Next]_vars
  PROVE  db' = db \/ db' = work \/ OidcFail \/ Sweep
<1>1. ASSUME NEW b \in Browsers,
             \/ LogIn(b) \/ LogOut(b) \/ CreateUser(b) \/ ChangePassword(b) \/ PatchUser(b)
             \/ OidcCallback(b) \/ Abort(b)
      PROVE  db' = db
  BY <1>1 DEF LogIn, LogOut, CreateUser, ChangePassword, PatchUser, OidcCallback, Abort, Stage
<1>2. ASSUME NEW b \in Browsers, Commit(b) PROVE db' = work
  BY <1>2 DEF Commit, CommitUnit
<1>3. ASSUME NEW p \in Processes,
             CountUsers(p) \/ CreateInitialAdmin(p) \/ FinishStart(p) \/ CrashStart(p)
      PROVE  db' = db \/ db' = work
  BY <1>3 DEF CountUsers, CreateInitialAdmin, FinishStart, CommitUnit, CrashStart
<1>4. ASSUME NEW u \in Users, Recover(u) PROVE db' = db
  BY <1>4 DEF Recover
<1>5. CASE FinishRecovery
  BY <1>5 DEF FinishRecovery, CommitUnit
<1>6. CASE Tick \/ UNCHANGED vars
  BY <1>6 DEF Tick, vars
<1> QED
  BY <1>1, <1>2, <1>3, <1>4, <1>5, <1>6 DEF Next

\* Every change of a user has its record, of somebody entitled to it, and no
\* session that could still be used ends without one.
THEOREM ChangesOnRecord == Spec => ChangesAccountedFor
<1>1. IInv /\ RecordInv /\ [Next]_vars => AccountedFor
  <2> SUFFICES ASSUME IInv, RecordInv, [Next]_vars PROVE AccountedFor
    OBVIOUS
  <2>1. CASE db' = db
    BY <2>1, NothingChanged DEF AccountedFor
  <2>2. CASE db' = work
    BY <2>2 DEF RecordInv, Removed, AccountedFor
  <2>3. CASE OidcFail
    BY <2>3, FailedSignOn, NothingChanged DEF AccountedFor
  <2>4. CASE Sweep
    BY <2>4, Swept, NothingChanged DEF AccountedFor
  <2> QED
    BY <2>1, <2>2, <2>3, <2>4, CommittedChanges
<1> QED
  BY <1>1, RecordsHold, PTL DEF Spec, ChangesAccountedFor

\* Only the response of a unit that has committed reaches a browser.
LEMMA BrowsersAreTold ==
  ASSUME [Next]_vars
  PROVE  \/ cookie' = cookie /\ (answer' = answer \/ answer' = "none")
         \/ \E b \in Browsers : owner = b /\ Respond(b) /\ db' = work
<1>1. ASSUME NEW b \in Browsers,
             \/ LogIn(b) \/ LogOut(b) \/ CreateUser(b) \/ ChangePassword(b) \/ PatchUser(b)
             \/ OidcCallback(b) \/ Abort(b)
      PROVE  cookie' = cookie /\ (answer' = answer \/ answer' = "none")
  BY <1>1 DEF LogIn, LogOut, CreateUser, ChangePassword, PatchUser, OidcCallback, Abort, Stage
<1>2. ASSUME NEW b \in Browsers, Commit(b)
      PROVE  \/ cookie' = cookie /\ answer' = answer
             \/ owner = b /\ Respond(b) /\ db' = work
  BY <1>2 DEF Commit, CommitUnit
<1>3. ASSUME NEW p \in Processes,
             CountUsers(p) \/ CreateInitialAdmin(p) \/ FinishStart(p) \/ CrashStart(p)
      PROVE  cookie' = cookie /\ answer' = answer
  BY <1>3 DEF CountUsers, CreateInitialAdmin, FinishStart, CrashStart
<1>4. ASSUME NEW u \in Users, Recover(u) PROVE cookie' = cookie /\ answer' = answer
  BY <1>4 DEF Recover
<1>5. CASE FinishRecovery \/ OidcFail \/ Sweep \/ Tick \/ UNCHANGED vars
  BY <1>5 DEF FinishRecovery, OidcFail, Sweep, Tick, vars
<1> QED
  BY <1>1, <1>2, <1>3, <1>4, <1>5 DEF Next

\* What a browser is told has been committed.
THEOREM BrowsersAreToldWhatIsCommitted == Spec => ToldIsCommitted
<1>1. IInv /\ RecordInv /\ [Next]_vars => Told
  <2> SUFFICES ASSUME IInv, RecordInv, [Next]_vars PROVE Told
    OBVIOUS
  <2>1. CASE cookie' = cookie /\ (answer' = answer \/ answer' = "none")
    BY <2>1 DEF Told
  <2>2. ASSUME NEW b \in Browsers, owner = b, Respond(b), db' = work PROVE Told
    <3>1. Answers(cookie[b], reply, db')
      BY <2>2 DEF RecordInv
    <3>2. cookie' = [cookie EXCEPT ![b] = reply.cookie] /\ answer' = reply.status
      BY <2>2 DEF Respond
    <3>3. \A c \in Browsers : cookie'[c] # cookie[c] => c = b /\ cookie'[c] = reply.cookie
      BY <3>2 DEF IInv, TypeOK
    <3> QED
      BY <3>1, <3>2, <3>3 DEF Told, Answers
  <2> QED
    BY <2>1, <2>2, BrowsersAreTold
<1> QED
  BY <1>1, RecordsHold, PTL DEF Spec, ToldIsCommitted
=============================================================================
