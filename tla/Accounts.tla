------------------------------ MODULE Accounts ------------------------------
(***************************************************************************)
(* Accounts and sessions: passwords, single sign-on, the administrators'   *)
(* changes of users, the first administrator, offline recovery, and the    *)
(* sweep of expired sessions.                                              *)
(*                                                                         *)
(* A request does nothing before it has the application unit.  Then its    *)
(* authentication, checks and writes see "work" and nobody else writes     *)
(* (module UnitOfWork shows the exclusion), so a handler is one step.  It  *)
(* ends by COMMIT, or without a trace.  The response, with its cookie, may *)
(* be lost.                                                                *)
(*                                                                         *)
(* A user stands for its email address, which is unique and never          *)
(* changes; users are never deleted.  A password is a number that grows    *)
(* with every change; 0 is a password the user never had.                  *)
(***************************************************************************)
EXTENDS Naturals, Sequences

CONSTANTS
  Users,       \* the users (their email addresses)
  First,       \* the one that the first start creates
  Subjects,    \* the identities at the identity provider
  Browsers,    \* each with its own cookie
  Processes,   \* the server processes that start on this database
  Operator,    \* whoever runs the offline recovery
  None,        \* no user, no subject, no token, nobody
  Patches,     \* the bodies of PATCH /users that are tried
  TTL,         \* ticks that a session lives
  MaxTime, MaxTokens, MaxPass   \* bounds: clock, tokens, passwords of a user

Actors == Browsers \cup Processes \cup {Operator}
Roles == {"admin", "technician", "readonly"}
Tokens == 1..MaxTokens

Patch == [role: Roles \cup {"keep"}, active: {"yes", "no", "keep"}, reset: BOOLEAN]

ASSUME AccountsAssumption ==
  /\ First \in Users
  /\ None \notin Users \cup Subjects \cup Actors \cup Nat
  /\ Operator \notin Browsers \cup Processes /\ Browsers \cap Processes = {}
  /\ Patches \subseteq Patch
  /\ {TTL, MaxTime, MaxTokens, MaxPass} \subseteq Nat

VARIABLES
  db,       \* the committed users, sessions and audit records
  work,     \* the same as the open unit sees them (db while none is open)
  owner,    \* the actor whose unit is open, or None
  reply,    \* what the open unit will answer its browser
  cookie,   \* the session token each browser holds
  answer,   \* the status of the last response, if it has arrived
  start,    \* how far each process is with its start
  now, fresh   \* the clock; the next random token

vars == <<db, work, owner, reply, cookie, answer, start, now, fresh>>

-----------------------------------------------------------------------------
(* The tables *)

User ==
  [role: Roles \cup {"none"}, active: BOOLEAN, source: {"local", "oidc", "none"},
   pass: Nat, subject: Subjects \cup {None}]

Absent == [role |-> "none", active |-> FALSE, source |-> "none", pass |-> 0, subject |-> None]

\* proof: the user as the login that opened the session proved it.
Session == [token: Nat, user: Users, expires: Nat, proof: User]

AuditEntry ==
  [action: {"login", "login_failed", "oidc_login", "oidc_login_failed", "logout",
            "create", "update", "password_change", "recovery", "bootstrap"},
   actor: Users \cup {None}, user: Users \cup {None}]

\* The audit log only grows.  What is kept of it here are the records of the
\* unit that wrote last.
Accounts == [users: [Users -> User], sessions: SUBSET Session, audit: Seq(AuditEntry)]

Exists(s, u) == s.users[u] # Absent
Empty(s) == \A u \in Users : ~Exists(s, u)
ActiveAdmin(s, u) == s.users[u].role = "admin" /\ s.users[u].active

NewUser(role, source, pass, subject) ==
  [role |-> role, active |-> TRUE, source |-> source, pass |-> pass, subject |-> subject]

AppendAudit(s, action, actor, user) ==
  [s EXCEPT !.audit = Append(@, [action |-> action, actor |-> actor, user |-> user])]

\* getSessionUser and the isActive check of requireAuth.
LiveSessions(s, token) ==
  {x \in s.sessions : x.token = token /\ x.expires > now /\ s.users[x.user].active}

\* What a unit, or a call outside of one, starts from: nothing recorded yet.
Begun(s) == [s EXCEPT !.audit = <<>>]

DeleteSession(s, token) == [s EXCEPT !.sessions = {x \in @ : x.token # token}]
DeleteSessionsForUser(s, u) == [s EXCEPT !.sessions = {x \in @ : x.user # u}]

\* Mutant: sessions are swept at the time they would have to be renewed.
MutExpired(s, t) == {x \in s.sessions : x.expires <= t + 1}

Expired(s, t) == {x \in s.sessions : x.expires < t}

-----------------------------------------------------------------------------
(* Requests *)

\* The cookie and the status of a response that waits for its COMMIT.
Reply == [cookie: Tokens \cup {None}, status: {"ok", "refused"}]
NoReply == [cookie |-> None, status |-> "ok"]

\* A request has got the unit, in a process that has started.
GetsUnit ==
  /\ owner = None
  /\ \E p \in Processes : start[p] = "serving"

\* The handler of a request of b has come to this state and this response.
Stage(b, state, token, status) ==
  /\ \A u \in Users : state.users[u].pass <= MaxPass   \* bound
  /\ work' = state
  /\ owner' = b
  /\ reply' = [cookie |-> token, status |-> status]
  /\ answer' = "none"
  /\ UNCHANGED <<db, cookie, start, now>>

\* The roles that the routes ask for.
Granted(action) == IF action \in {"create", "update"} THEN {"admin"} ELSE Roles

\* Mutant: the role is the one the user had at login.
MutAuthenticated(b, roles) ==
  {u \in Users : \E x \in LiveSessions(db, cookie[b]) :
                    x.user = u /\ x.proof.role \in roles}

\* requireAuth and requireRole, in the unit: the user the cookie stands for, if
\* the request gets past them.
Authenticated(b, roles) ==
  {u \in Users : /\ db.users[u].role \in roles
                 /\ \E x \in LiveSessions(db, cookie[b]) : x.user = u}

\* issueSession: the state with a session of u that has the next token.
WithSession(s, u, proof) ==
  [s EXCEPT !.sessions = @ \cup
    {[token |-> fresh, user |-> u, expires |-> now + TTL, proof |-> proof]}]

\* The row the password is verified against.
PasswordVerified(u, pass) ==
  db.users[u].active /\ db.users[u].source = "local" /\ db.users[u].pass = pass

\* Somebody types the password of a user, or another one.
Passwords == {0} \cup {db.users[u].pass : u \in Users}

LogIn(b) ==
  /\ GetsUnit
  /\ \E u \in Users, pass \in Passwords :
       IF PasswordVerified(u, pass)
       THEN /\ fresh \in Tokens /\ fresh' = fresh + 1
            /\ Stage(b, WithSession(AppendAudit(Begun(db), "login", u, u), u,
                                   [db.users[u] EXCEPT !.source = "local", !.pass = pass]),
                     fresh, "ok")
       ELSE /\ Stage(b, AppendAudit(Begun(db), "login_failed", None, u), cookie[b], "refused")
            /\ UNCHANGED fresh

LogOut(b) ==
  /\ GetsUnit
  /\ \E u \in Authenticated(b, Granted("logout")) :
       Stage(b, AppendAudit(DeleteSession(Begun(db), cookie[b]), "logout", u, u), None, "ok")
  /\ UNCHANGED fresh

CreateUser(b) ==
  /\ GetsUnit
  /\ \E a \in Authenticated(b, Granted("create")), u \in Users, role \in Roles :
       /\ ~Exists(db, u)
       /\ Stage(b, AppendAudit([Begun(db) EXCEPT !.users[u] = NewUser(role, "local", 1, None)],
                               "create", a, u), cookie[b], "ok")
  /\ UNCHANGED fresh

\* Mutant: only the session that asked for it ends.
MutChangePassword(b) ==
  /\ GetsUnit
  /\ \E u \in Authenticated(b, Granted("password_change")) :
       /\ \E pass \in Passwords : PasswordVerified(u, pass)
       /\ Stage(b, AppendAudit(DeleteSession([Begun(db) EXCEPT !.users[u].pass = @ + 1], cookie[b]),
                               "password_change", u, u), None, "ok")
  /\ UNCHANGED fresh

\* The password is verified against the row as it is in the unit.
ChangePassword(b) ==
  /\ GetsUnit
  /\ \E u \in Authenticated(b, Granted("password_change")) :
       /\ \E pass \in Passwords : PasswordVerified(u, pass)
       /\ Stage(b, AppendAudit(DeleteSessionsForUser([Begun(db) EXCEPT !.users[u].pass = @ + 1], u),
                               "password_change", u, u), None, "ok")
  /\ UNCHANGED fresh

\* A change that takes the role or the activity of an administrator away.
Demotes(p) == p.active = "no" \/ p.role \notin {"keep", "admin"}

\* Mutant: deactivated administrators are counted, too.
MutLastAdmin(s, u) ==
  ActiveAdmin(s, u) /\ ~\E other \in Users \ {u} : s.users[other].role = "admin"

\* The list of active administrators holds the target and nobody else.
LastAdmin(s, u) ==
  ActiveAdmin(s, u) /\ ~\E other \in Users \ {u} : ActiveAdmin(s, other)

Patched(row, p) ==
  [row EXCEPT !.role = IF p.role = "keep" THEN @ ELSE p.role,
              !.active = IF p.active = "keep" THEN @ ELSE p.active = "yes",
              !.pass = IF p.reset THEN @ + 1 ELSE @]

\* Deactivation and password reset end the sessions of the user.
Revokes(p) == p.active = "no" \/ p.reset

PatchUser(b) ==
  /\ GetsUnit
  /\ \E a \in Authenticated(b, Granted("update")), u \in Users, p \in Patches :
       LET updated == [Begun(db) EXCEPT !.users[u] = Patched(@, p)] IN
       /\ Exists(db, u)
       /\ ~(Demotes(p) /\ LastAdmin(db, u))
       /\ Stage(b, AppendAudit(IF Revokes(p) THEN DeleteSessionsForUser(updated, u) ELSE updated,
                               "update", a, u), cookie[b], "ok")
  /\ UNCHANGED fresh

-----------------------------------------------------------------------------
(* Single sign-on *)

\* The code exchange fails, or its claims are not accepted: recorded on the
\* root store.
OidcFail ==
  /\ GetsUnit
  /\ db' = AppendAudit(Begun(db), "oidc_login_failed", None, None)
  /\ work' = db'
  /\ UNCHANGED <<owner, reply, cookie, answer, start, now, fresh>>

\* Mutant: an account with the same email is the account.
MutAccountOf(subject, email) ==
  {u \in Users : Exists(db, u) /\ (db.users[u].subject = subject \/ u = email)}

\* getUserByOidcSubject
AccountOf(subject, email) == {u \in Users : Exists(db, u) /\ db.users[u].subject = subject}

\* The rest of the callback, in a unit of its own: the user of this subject,
\* or a new one, which takes no email that exists.  Failures are redirects:
\* the unit commits.
OidcCallback(b) ==
  /\ GetsUnit
  /\ \E subject \in Subjects, email \in Users :
       LET found == AccountOf(subject, email)
           admitted == found = {} /\ ~Exists(db, email)
           provisioned == [Begun(db) EXCEPT !.users[email] = NewUser("readonly", "oidc", 0, subject)]
           LoggedIn(s, u) == WithSession(AppendAudit(s, "oidc_login", u, u), u,
             [s.users[u] EXCEPT !.source = "oidc", !.subject = subject]) IN
       \/ /\ fresh \in Tokens /\ fresh' = fresh + 1
          /\ \/ \E u \in found : db.users[u].active /\ Stage(b, LoggedIn(Begun(db), u), fresh, "ok")
             \/ /\ admitted
                /\ Stage(b, LoggedIn(AppendAudit(provisioned, "create", None, email), email),
                         fresh, "ok")
       \/ /\ ~admitted /\ \A u \in found : ~db.users[u].active
          /\ Stage(b, AppendAudit(Begun(db), "oidc_login_failed", None, None), cookie[b], "ok")
          /\ UNCHANGED fresh

-----------------------------------------------------------------------------
(* The end of a unit *)

\* COMMIT.
CommitUnit ==
  /\ db' = work
  /\ owner' = None /\ reply' = NoReply
  /\ UNCHANGED <<work, now, fresh>>

\* The request fails in its unit (an exception, a failed COMMIT, a crash):
\* nothing of it remains, neither in the database nor as a cookie.
Abort(b) ==
  /\ owner = b
  /\ owner' = None /\ work' = db /\ reply' = NoReply
  /\ UNCHANGED <<db, cookie, answer, start, now, fresh>>

Respond(b) ==
  /\ cookie' = [cookie EXCEPT ![b] = reply.cookie]
  /\ answer' = reply.status

\* Mutant: a failed login is an error response like any other.
MutCommit(b) ==
  /\ owner = b
  /\ Respond(b)
  /\ owner' = None /\ reply' = NoReply
  /\ IF reply.status = "refused" THEN db' = db ELSE db' = work
  /\ work' = db'
  /\ UNCHANGED <<start, now, fresh>>

\* COMMIT and the response, which may get lost.  A login that was refused
\* is an error response, and commits all the same.
Commit(b) ==
  /\ owner = b
  /\ Respond(b) \/ UNCHANGED <<cookie, answer>>
  /\ CommitUnit
  /\ UNCHANGED start

-----------------------------------------------------------------------------
(* Outside of requests *)

\* ensureInitialAdmin: the first look, outside of any unit.
CountUsers(p) ==
  /\ start[p] = "start"
  /\ start' = [start EXCEPT ![p] = IF Empty(db) THEN "create" ELSE "serving"]
  /\ UNCHANGED <<db, work, owner, reply, cookie, answer, now, fresh>>

\* Mutant: the count is not repeated in the unit.
MutStillEmpty(s) == TRUE

StillEmpty(s) == Empty(s)

\* The unit that looks again and creates the administrator.
CreateInitialAdmin(p) ==
  /\ start[p] = "create" /\ owner = None
  /\ IF StillEmpty(db)
     THEN /\ work' = AppendAudit([Begun(db) EXCEPT !.users[First] = NewUser("admin", "local", 1, None)],
                                 "bootstrap", None, First)
          /\ owner' = p /\ UNCHANGED start
     ELSE start' = [start EXCEPT ![p] = "serving"] /\ UNCHANGED <<work, owner>>
  /\ UNCHANGED <<db, reply, cookie, answer, now, fresh>>

FinishStart(p) ==
  /\ owner = p
  /\ CommitUnit
  /\ start' = [start EXCEPT ![p] = "serving"]
  /\ UNCHANGED <<cookie, answer>>

\* A process stops before it serves, and is started again.
CrashStart(p) ==
  /\ start[p] = "create"
  /\ start' = [start EXCEPT ![p] = "start"]
  /\ IF owner = p THEN owner' = None /\ work' = db ELSE UNCHANGED <<owner, work>>
  /\ UNCHANGED <<db, reply, cookie, answer, now, fresh>>

\* recoverLocalAdmin, of a local administrator, active or not.
Recover(u) ==
  /\ owner = None
  /\ db.users[u].source = "local" /\ db.users[u].role = "admin"
  /\ db.users[u].pass < MaxPass
  /\ owner' = Operator
  /\ work' = AppendAudit(DeleteSessionsForUser(
       [Begun(db) EXCEPT !.users[u].pass = @ + 1, !.users[u].active = TRUE], u), "recovery", None, u)
  /\ UNCHANGED <<db, reply, cookie, answer, start, now, fresh>>

FinishRecovery ==
  /\ owner = Operator
  /\ \/ CommitUnit
     \/ owner' = None /\ work' = db /\ UNCHANGED <<db, reply, now, fresh>>
  /\ UNCHANGED <<cookie, answer, start>>

\* deleteExpiredSessions with the time at which the timer called it; the call
\* may have waited for the connection since.
Sweep ==
  /\ owner = None
  /\ \E t \in 0..now : db' = [Begun(db) EXCEPT !.sessions = @ \ Expired(db, t)]
  /\ work' = db'
  /\ UNCHANGED <<owner, reply, cookie, answer, start, now, fresh>>

Tick ==
  /\ now < MaxTime
  /\ now' = now + 1
  /\ UNCHANGED <<db, work, owner, reply, cookie, answer, start, fresh>>

-----------------------------------------------------------------------------

\* An empty database, or one with a second administrator.
Init ==
  /\ db \in
       {[users |-> f, sessions |-> {}, audit |-> <<>>] :
          f \in {[u \in Users |-> Absent],
                [u \in Users |-> NewUser("admin", "local", 1, None)]}}
  /\ work = db
  /\ owner = None
  /\ reply = NoReply
  /\ cookie = [b \in Browsers |-> None]
  /\ answer = "none"
  /\ start = [p \in Processes |-> "start"]
  /\ now = 0 /\ fresh = 1

Next ==
  \/ \E b \in Browsers :
       \/ LogIn(b) \/ LogOut(b) \/ CreateUser(b) \/ ChangePassword(b) \/ PatchUser(b)
       \/ OidcCallback(b) \/ Commit(b) \/ Abort(b)
  \/ OidcFail
  \/ \E p \in Processes :
       CountUsers(p) \/ CreateInitialAdmin(p) \/ FinishStart(p) \/ CrashStart(p)
  \/ \E u \in Users : Recover(u)
  \/ FinishRecovery
  \/ Sweep \/ Tick

Spec == Init /\ [][Next]_vars

-----------------------------------------------------------------------------
(* Properties *)

\* Types; nothing is uncommitted while no unit is open.
TypeOK ==
  /\ db \in Accounts /\ work \in Accounts
  /\ owner \in Actors \cup {None}
  /\ reply \in Reply
  /\ cookie \in [Browsers -> Tokens \cup {None}]
  /\ answer \in {"none", "ok", "refused"}
  /\ start \in [Processes -> {"start", "create", "serving"}]
  /\ now \in Nat /\ fresh \in Nat
  /\ owner = None => work = db

\* Once there are users, one of them is an active administrator, whatever
\* administrators do to each other at the same time.
AdminRemains == Empty(db) \/ \E u \in Users : ActiveAdmin(db, u)

\* No session outlives the credential that opened it: its user is active and
\* has the password, or the subject, that its login proved.
SessionsMatchCredential ==
  \A x \in db.sessions :
    LET row == db.users[x.user] IN
    /\ row.active
    /\ row.pass = x.proof.pass /\ row.source = x.proof.source /\ row.subject = x.proof.subject

Records(s) == {s.audit[i] : i \in DOMAIN s.audit}

\* What a browser is told has been committed: the token it gets has its
\* session, the token it is to forget has none any more, and a login that was
\* answered 401 is on record.
Told ==
  /\ \A b \in Browsers : cookie'[b] # cookie[b] =>
       IF cookie'[b] = None
       THEN \A x \in db'.sessions : x.token # cookie[b]
       ELSE \E x \in db'.sessions : x.token = cookie'[b]
  /\ answer # "refused" /\ answer' = "refused" =>
       \E e \in Records(db') : e.action = "login_failed"

ToldIsCommitted == [][Told]_vars

\* By the state s, e entitles to this change of the row of its user.
Entitles(s, e, before, after) ==
  \/ e.action \in {"create", "update"} /\ e.actor # None /\ ActiveAdmin(s, e.actor)
  \/ /\ e.action = "password_change" /\ e.actor = e.user
     /\ before.active /\ after = [before EXCEPT !.pass = after.pass]
  \/ /\ e.action = "recovery" /\ before.role = "admin"
     /\ after = [before EXCEPT !.pass = after.pass, !.active = TRUE]
  \/ e.action = "create" /\ after.role = "readonly" /\ after.source = "oidc"
  \/ e.action = "bootstrap" /\ Empty(s)

Explained(old, new) ==
  \A u \in Users : new.users[u] # old.users[u] =>
    \E e \in Records(new) : e.user = u /\ Entitles(old, e, old.users[u], new.users[u])

\* Every change of a user is on record, with an actor who may make it by the
\* committed state that it changes, not by what was true at login; and a
\* session that could still be used disappears only with such a record.
AccountedFor ==
  /\ Explained(db, db')
  /\ \A x \in db.sessions \ db'.sessions : x.expires > now =>
       \E e \in Records(db') : e.user = x.user

ChangesAccountedFor == [][AccountedFor]_vars
=============================================================================
