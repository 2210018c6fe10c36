------------------------------ MODULE Sessions ------------------------------
(***************************************************************************)
(* User accounts, refresh tokens and password reset tokens: the auth       *)
(* service (core/auth) over its Postgres and MongoDB repositories.  A      *)
(* request reads a row in one step and writes in a later one; the whole    *)
(* row is written back, so a request may write what another has changed.   *)
(* Transactions read (`EnforceMaxSessions`, `InvalidateResets`) and commit *)
(* in two steps.  On MongoDB a commit that touches a document changed      *)
(* since its snapshot is retried; on Postgres it overwrites.               *)
(* Abstracted: hashing, token strings (a token is its position in the      *)
(* table), roles, and the access token, which nothing stores.              *)
(***************************************************************************)
EXTENDS Database

CONSTANTS
    Emails,        \* e-mail addresses; an account is identified by its own
    Passwords,     \* passwords a request may carry
    NoPassword,    \* stored for an account provisioned through OIDC
    Subjects,      \* subjects of the OIDC provider
    NoSubject,     \* the oidc_sub of an account that was never linked
    MaxSessions,   \* active refresh tokens kept per user (5 in the code)
    Threshold,     \* wrong passwords that lock an account (5 in the code)
    LockFor,       \* length of a lock (15 minutes)
    RefreshFor,    \* validity of a refresh token (7 days)
    ResetFor,      \* validity of a reset token (1 hour)
    MaxTime,       \* bound: the clock
    MaxTokens,     \* bound: refresh tokens ever issued
    MaxResets,     \* bound: reset tokens ever issued
    MaxFails       \* bound: failed logins counted on one row

ASSUME SessionsAssumption ==
    /\ MaxSessions \in Nat \ {0} /\ Threshold \in Nat \ {0}
    /\ LockFor \in Nat \ {0} /\ RefreshFor \in Nat \ {0} /\ ResetFor \in Nat \ {0}
    /\ MaxTime \in Nat /\ MaxTokens \in Nat /\ MaxResets \in Nat /\ MaxFails \in Nat
    /\ IsFiniteSet(Requests)
    /\ Emails # {} /\ NoPassword \notin Passwords /\ NoSubject \notin Subjects

VARIABLES
    users,         \* rows of users
    refresh,       \* refresh_tokens, in the order they were stored
    resets,        \* password_reset_tokens
    now,           \* the clock
    req,           \* what each request has read and does next
    cut            \* history: refresh tokens there were at a user's last reset

sessionsVars == <<backend, users, refresh, resets, now, req, cut>>

Row == [email: Emails, pw: Passwords \cup {NoPassword}, sub: Subjects \cup {NoSubject},
        fails: Nat, locked: Nat]
RefreshToken == [user: Emails, expires: Nat, revoked: BOOLEAN, from: Nat]
PasswordResetToken == [user: Emails, expires: Nat, used: BOOLEAN]
Steps == {"idle", "create", "count", "unlock", "enforce", "save", "byEmail", "link",
          "invalidate", "saveReset", "confirm"}
\* `row`: the row to write; `tok`: the token presented (0: none); `drop`: the tokens the
\* transaction will revoke or invalidate; `stale`: `tok` was revoked at its snapshot;
\* `since`: the clock when the request began, created_at of the token it stores
Request == [step: Steps, row: Row, tok: Nat, drop: SUBSET Nat, stale: BOOLEAN, since: Nat]

NewRow(e, p, s) == [email |-> e, pw |-> p, sub |-> s, fails |-> 0, locked |-> 0]
At(step, row) ==
    [step |-> step, row |-> row, tok |-> 0, drop |-> {}, stale |-> FALSE, since |-> now]
Idle == [step |-> "idle", row |-> NewRow(CHOOSE e \in Emails : TRUE, NoPassword, NoSubject),
         tok |-> 0, drop |-> {}, stale |-> FALSE, since |-> 0]

SessionsInit ==
    /\ backend \in Backends
    /\ users = {} /\ refresh = <<>> /\ resets = <<>> /\ now = 0
    /\ req = [r \in Requests |-> Idle]
    /\ cut = [e \in Emails |-> 0]

-----------------------------------------------------------------------------
(* The repositories: what a query returns, and what a statement leaves of  *)
(* the table it is given.                                                  *)

PgGetByEmail(e) == {u \in users : u.email = e}
MgGetByEmail(e) == {u \in users : u.email = e}
GetByEmail(e) == On(PgGetByEmail(e), MgGetByEmail(e))

PgGetByID(id) == {u \in users : u.email = id}
MgGetByID(id) == {u \in users : u.email = id}
GetByID(id) == On(PgGetByID(id), MgGetByID(id))

PgGetByOIDCSub(s) == {u \in users : u.sub = s}
MgGetByOIDCSub(s) == {u \in users : u.sub = s}
GetByOIDCSub(s) == On(PgGetByOIDCSub(s), MgGetByOIDCSub(s))

\* both tables have a unique index on the address: a second row is refused
PgCreate(u) == users' = IF \E v \in users : v.email = u.email THEN users ELSE users \cup {u}
MgCreate(u) == users' = IF \E v \in users : v.email = u.email THEN users ELSE users \cup {u}
Create(u) == On(PgCreate(u), MgCreate(u))

\* the UPDATE names every column but the key
PgUpdate(u) ==
    users' = {IF v.email = u.email
              THEN [v EXCEPT !.pw = u.pw, !.sub = u.sub, !.fails = u.fails, !.locked = u.locked]
              ELSE v : v \in users}
\* ReplaceOne: the whole document
MgUpdate(u) == users' = {IF v.email = u.email THEN u ELSE v : v \in users}
Update(u) == On(PgUpdate(u), MgUpdate(u))

PgUpdatePassword(e, p) ==
    users' = {IF v.email = e THEN [v EXCEPT !.pw = p] ELSE v : v \in users}
MgUpdatePassword(e, p) ==
    users' = {IF v.email = e THEN [v EXCEPT !.pw = p] ELSE v : v \in users}
UpdatePassword(e, p) == On(PgUpdatePassword(e, p), MgUpdatePassword(e, p))

PgGetActiveRefreshTokens(e) ==
    {i \in DOMAIN refresh : refresh[i].user = e /\ ~refresh[i].revoked /\ refresh[i].expires > now}
MgGetActiveRefreshTokens(e) ==
    {i \in DOMAIN refresh : refresh[i].user = e /\ ~refresh[i].revoked /\ refresh[i].expires > now}
GetActiveRefreshTokens(e) ==
    On(PgGetActiveRefreshTokens(e), MgGetActiveRefreshTokens(e))


\* a token by its value: none when it is unknown
PgGetRefreshToken(t) == {refresh[i] : i \in DOMAIN refresh \cap {t}}
MgGetRefreshToken(t) == {refresh[i] : i \in DOMAIN refresh \cap {t}}
GetRefreshToken(t) == On(PgGetRefreshToken(t), MgGetRefreshToken(t))

PgGetPasswordResetToken(t) == {resets[i] : i \in DOMAIN resets \cap {t}}
MgGetPasswordResetToken(t) == {resets[i] : i \in DOMAIN resets \cap {t}}
GetPasswordResetToken(t) ==
    On(PgGetPasswordResetToken(t), MgGetPasswordResetToken(t))

PgSaveRefreshToken(ts, t) == Append(ts, t)
MgSaveRefreshToken(ts, t) == Append(ts, t)
SaveRefreshToken(ts, t) ==
    On(PgSaveRefreshToken(ts, t), MgSaveRefreshToken(ts, t))

PgRevokeRefreshToken(ts, i) == [ts EXCEPT ![i].revoked = TRUE]
MgRevokeRefreshToken(ts, i) == [ts EXCEPT ![i].revoked = TRUE]
RevokeRefreshToken(ts, i) ==
    On(PgRevokeRefreshToken(ts, i), MgRevokeRefreshToken(ts, i))

\* Faulty variant: the newest session survives.
RevokeAllButNewest(ts, e) ==
    [i \in DOMAIN ts |->
        [ts[i] EXCEPT !.revoked = @ \/ (ts[i].user = e /\ \E j \in DOMAIN ts : j > i)]]
PgRevokeAllUserTokens(ts, e) ==
    [i \in DOMAIN ts |-> [ts[i] EXCEPT !.revoked = @ \/ ts[i].user = e]]
MgRevokeAllUserTokens(ts, e) ==
    [i \in DOMAIN ts |-> [ts[i] EXCEPT !.revoked = @ \/ ts[i].user = e]]
RevokeAllUserTokens(ts, e) ==
    On(PgRevokeAllUserTokens(ts, e), MgRevokeAllUserTokens(ts, e))

PgSavePasswordResetToken(ps, t) == Append(ps, t)
MgSavePasswordResetToken(ps, t) == Append(ps, t)
SavePasswordResetToken(ps, t) ==
    On(PgSavePasswordResetToken(ps, t), MgSavePasswordResetToken(ps, t))

PgUnusedResetTokens(e) == {i \in DOMAIN resets : resets[i].user = e /\ ~resets[i].used}
MgUnusedResetTokens(e) == {i \in DOMAIN resets : resets[i].user = e /\ ~resets[i].used}
UnusedResetTokens(e) ==
    On(PgUnusedResetTokens(e), MgUnusedResetTokens(e))

PgMarkPasswordResetUsed(ps, i) == [ps EXCEPT ![i].used = TRUE]
MgMarkPasswordResetUsed(ps, i) == [ps EXCEPT ![i].used = TRUE]
MarkPasswordResetUsed(ps, i) ==
    On(PgMarkPasswordResetUsed(ps, i), MgMarkPasswordResetUsed(ps, i))

-----------------------------------------------------------------------------
(* Requests.                                                               *)

Goto(r, q) == req[r].step = "idle" /\ req' = [req EXCEPT ![r] = q]
Then(r, step) == req' = [req EXCEPT ![r].step = step]
Done(r) == req' = [req EXCEPT ![r] = Idle]
Tables == <<backend, users, refresh, resets, now, cut>>

\* The address is free: the row is created in a later statement.
Register(r, e, p) ==
    /\ GetByEmail(e) = {}
    /\ Goto(r, At("create", NewRow(e, p, NoSubject)))
    /\ UNCHANGED Tables

\* Register and SyncOIDCUser insert the row; a duplicate address is a conflict.
CreateUser(r) ==
    /\ req[r].step = "create"
    /\ Create(req[r].row) /\ Done(r)
    /\ UNCHANGED <<backend, refresh, resets, now, cut>>

\* Faulty variant: a lock that has run out is not renewed until the counter starts again.
CountFailureOnce(u) ==
    [u EXCEPT !.fails = @ + 1,
              !.locked = IF u.fails + 1 = Threshold THEN now + LockFor ELSE 0]
\* A wrong password is counted, and locks the account from the threshold on.
CountFailure(u) ==
    [u EXCEPT !.fails = @ + 1,
              !.locked = IF u.fails + 1 >= Threshold THEN now + LockFor ELSE @]

\* The credentials are read and compared; what follows depends on the row read.
Login(r, e, p) ==
    \E u \in GetByEmail(e) :
        /\ u.locked <= now
        /\ IF p # u.pw
           THEN u.fails < MaxFails /\ Goto(r, At("count", CountFailure(u)))
           ELSE IF u.fails > 0 \/ u.locked # 0
           THEN Goto(r, At("unlock", [u EXCEPT !.fails = 0, !.locked = 0]))
           ELSE Goto(r, At("enforce", u))
        /\ UNCHANGED Tables

\* The row read is written back: counter and lock after a failure (the request ends), their
\* reset before a session is opened, or the subject linked by SyncOIDCUser.
WriteUser(r) ==
    /\ req[r].step \in {"count", "unlock", "link"}
    /\ Update(req[r].row)
    /\ IF req[r].step = "unlock" THEN Then(r, "enforce") ELSE Done(r)
    /\ UNCHANGED <<backend, refresh, resets, now, cut>>

\* A refresh token that is neither revoked nor expired, and whose user exists.
RefreshSession(r, t) ==
    /\ \E k \in GetRefreshToken(t) :
        /\ ~k.revoked /\ now <= k.expires
        /\ \E u \in GetByID(k.user) : Goto(r, [At("enforce", u) EXCEPT !.tok = t])
    /\ UNCHANGED Tables

\* The active sessions `A` without the oldest ones, so that `n` remain.  The order is that of
\* created_at, which every token outlives by the same time; equal times come in any order.
Excess(A, n) ==
    {D \in SUBSET A :
        /\ Cardinality(A \ D) <= n /\ (D # {} => Cardinality(A \ D) = n)
        /\ \A i \in D, j \in A \ D : refresh[i].expires <= refresh[j].expires}
\* Faulty variant: one session too many is kept.
KeepOneTooMany(A) == Excess(A, MaxSessions)
\* The sessions to revoke, so that with the new one at most MaxSessions remain.
Oldest(A) == Excess(A, MaxSessions - 1)

\* The transaction reads the active sessions and picks the ones to revoke.
EnforceMaxSessions(r) ==
    /\ req[r].step = "enforce"
    /\ \E drop \in Oldest(GetActiveRefreshTokens(req[r].row.email)) :
           LET t == req[r].tok IN
           req' = [req EXCEPT ![r].step = "save", ![r].drop = drop,
                              ![r].stale = t # 0 /\ refresh[t].revoked]
    /\ UNCHANGED Tables

\* The tokens the transaction revokes: the oldest sessions and the one rotated.
Rotated(q) == q.drop \cup (IF q.tok = 0 THEN {} ELSE {q.tok})

\* The transaction revokes, stores the new token and commits; MongoDB starts it again when a
\* token it revokes was revoked meanwhile.
SaveSession(r) ==
    LET q == req[r]
        changed == {i \in Rotated(q) : refresh[i].revoked /\ ~(i = q.tok /\ q.stale)}
        kept == [i \in DOMAIN refresh |->
                    IF i \in Rotated(q) THEN RevokeRefreshToken(refresh, i)[i] ELSE refresh[i]]
    IN  /\ q.step = "save"
        /\ IF Commits(changed)
           THEN /\ Len(refresh) < MaxTokens
                /\ refresh' = SaveRefreshToken(kept,
                       [user |-> q.row.email, expires |-> q.since + RefreshFor,
                        revoked |-> FALSE, from |-> q.tok])
                /\ Done(r)
           ELSE UNCHANGED refresh /\ Then(r, "enforce")
        /\ UNCHANGED <<backend, users, resets, now, cut>>

\* One statement, whatever the state of the token.
Logout(t) ==
    /\ t \in DOMAIN refresh
    /\ refresh' = RevokeRefreshToken(refresh, t)
    /\ UNCHANGED <<backend, users, resets, now, req, cut>>

\* A known address; an unknown one gets a dummy answer and nothing is stored.
RequestPasswordReset(r, e) ==
    /\ \E u \in GetByEmail(e) : Goto(r, At("invalidate", u))
    /\ UNCHANGED Tables

\* The transaction's first statement: the reset tokens still unused.
InvalidateUserResetTokens(r) ==
    /\ req[r].step = "invalidate"
    /\ req' = [req EXCEPT ![r].step = "saveReset",
                          ![r].drop = UnusedResetTokens(req[r].row.email)]
    /\ UNCHANGED Tables

\* They are invalidated and the new token is stored, in one commit.
SavePasswordReset(r) ==
    LET q == req[r]
        kept == [i \in DOMAIN resets |->
                    IF i \in q.drop THEN MarkPasswordResetUsed(resets, i)[i] ELSE resets[i]]
    IN  /\ q.step = "saveReset"
        /\ IF Commits({i \in q.drop : resets[i].used})
           THEN /\ Len(resets) < MaxResets
                /\ resets' = SavePasswordResetToken(kept,
                       [user |-> q.row.email, expires |-> q.since + ResetFor, used |-> FALSE])
                /\ Done(r)
           ELSE UNCHANGED resets /\ Then(r, "invalidate")
        /\ UNCHANGED <<backend, users, refresh, now, cut>>

\* A reset token that is neither used nor expired; the new password is hashed meanwhile.
ConfirmPasswordReset(r, t, p) ==
    /\ \E k \in GetPasswordResetToken(t) :
        /\ ~k.used /\ now <= k.expires
        /\ Goto(r, [At("confirm", NewRow(k.user, p, NoSubject)) EXCEPT !.tok = t])
    /\ UNCHANGED Tables

\* One transaction: the password, the token, every session of the user.  It is one step, at its
\* last statement, which reads the sessions: what the statements before it write is seen by
\* nobody until the commit, and blocks or restarts whoever writes the same row meanwhile.  A
\* session stored between that statement and the commit is one stored after the reset.
CommitPasswordReset(r) ==
    LET e == req[r].row.email IN
    /\ req[r].step = "confirm"
    /\ UpdatePassword(e, req[r].row.pw)
    /\ resets' = MarkPasswordResetUsed(resets, req[r].tok)
    /\ refresh' = RevokeAllUserTokens(refresh, e)
    /\ cut' = [cut EXCEPT ![e] = Len(refresh)]
    /\ Done(r)
    /\ UNCHANGED <<backend, now>>

\* An OIDC identity that is not linked yet is looked up by its address next.
SyncOIDCUser(r, s, e) ==
    /\ GetByOIDCSub(s) = {}
    /\ Goto(r, At("byEmail", NewRow(e, NoPassword, s)))
    /\ UNCHANGED Tables

\* The address is known: its row is linked; or it is not: an account is provisioned.
LinkOrProvision(r) ==
    LET q == req[r].row
        known == GetByEmail(q.email)
    IN  /\ req[r].step = "byEmail"
        /\ \/ \E u \in known : req' = [req EXCEPT ![r] = At("link", [u EXCEPT !.sub = q.sub])]
           \/ known = {} /\ Then(r, "create")
        /\ UNCHANGED Tables

\* A statement fails or the process stops: a transaction not committed leaves nothing.
FailRequest(r) ==
    /\ req[r].step # "idle" /\ Done(r)
    /\ UNCHANGED Tables

SessionsTick ==
    /\ now < MaxTime /\ now' = now + 1
    /\ UNCHANGED <<backend, users, refresh, resets, req, cut>>

-----------------------------------------------------------------------------
(* The handlers: any valid payload; then the steps of the request.         *)

HandleRegister(r) == \E e \in Emails, p \in Passwords : Register(r, e, p)
HandleLogin(r) == \E e \in Emails, p \in Passwords : Login(r, e, p)
HandleLogout == \E t \in DOMAIN refresh : Logout(t)
HandleRefresh(r) == \E t \in DOMAIN refresh : RefreshSession(r, t)
HandleRequestPasswordReset(r) == \E e \in Emails : RequestPasswordReset(r, e)
HandleConfirmPasswordReset(r) ==
    \E t \in DOMAIN resets, p \in Passwords : ConfirmPasswordReset(r, t, p)
\* the middleware of a deployment that trusts an identity provider
OIDCAuthMiddleware(r) == \E s \in Subjects, e \in Emails : SyncOIDCUser(r, s, e)

SessionsNext ==
    \/ \E r \in Requests :
        \/ HandleRegister(r) \/ HandleLogin(r) \/ HandleRefresh(r)
        \/ HandleRequestPasswordReset(r) \/ HandleConfirmPasswordReset(r)
        \/ OIDCAuthMiddleware(r)
        \/ CreateUser(r) \/ WriteUser(r) \/ LinkOrProvision(r)
        \/ EnforceMaxSessions(r) \/ SaveSession(r)
        \/ InvalidateUserResetTokens(r) \/ SavePasswordReset(r)
        \/ CommitPasswordReset(r)
        \/ FailRequest(r)
    \/ HandleLogout
    \/ SessionsTick

SessionsSpec == SessionsInit /\ [][SessionsNext]_sessionsVars

-----------------------------------------------------------------------------
(* Properties.                                                             *)

SessionsTypeOK ==
    /\ backend \in Backends
    /\ users \subseteq Row
    /\ refresh \in Seq(RefreshToken) /\ resets \in Seq(PasswordResetToken)
    /\ now \in Nat /\ req \in [Requests -> Request] /\ cut \in [Emails -> Nat]

\* A user's active sessions exceed the limit by at most one per other request in flight
\* (enforceMaxSessions reads and revokes in a transaction that locks nothing it reads), and a
\* later login brings them back.
SessionsBounded ==
    \A e \in Emails :
        Cardinality(GetActiveRefreshTokens(e)) <= MaxSessions + Cardinality(Requests) - 1

\* A refresh token has at most one successor per request that presented it before the first
\* of them revoked it: RefreshSession checks `Revoked` outside its transaction.
RotationBounded ==
    \A t \in DOMAIN refresh :
        Cardinality({i \in DOMAIN refresh : refresh[i].from = t}) <= Cardinality(Requests)

\* An account is locked exactly when its counter has reached the threshold, although every
\* login, reset and OIDC link writes back a whole row it read earlier.
LockMatchesCount == \A u \in users : u.locked # 0 <=> u.fails >= Threshold

\* Every session opened before the user's last password reset is over, also one whose
\* rotation or revocation was in flight when the reset committed.
ResetEndsSessions ==
    \A e \in Emails : \A i \in DOMAIN refresh :
        refresh[i].user = e /\ i <= cut[e] => refresh[i].revoked

\* A user has no more sessions, and a refresh token no more successors, than the limit and the
\* requests in flight at once allow.
TokensBounded == SessionsBounded /\ RotationBounded
=============================================================================
