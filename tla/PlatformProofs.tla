--------------------------- MODULE PlatformProofs ---------------------------
(***************************************************************************)
(* Proofs about the modules that every feature stands on, for any number of*)
(* requests, events, handlers, migrations and modules: Sessions, RateLimit,*)
(* RabbitMQ, Migrate and Startup.                                          *)
(***************************************************************************)
EXTENDS Sessions, RateLimit, MCPlatform, FiniteSetTheorems,
        WellFoundedInduction, NaturalsInduction, TLAPS

-----------------------------------------------------------------------------
(* Accounts and tokens.                                                    *)

\* An account row is locked exactly from the threshold on.
RowOK(u) == u.locked # 0 <=> u.fails >= Threshold

\* Every row a request holds, and may write, has a lock that matches its counter.
RowsSound == \A r \in Requests : RowOK(req[r].row)

\* The refresh token a request rotates exists, and a login rotates none (0).
Rotates(q) == q.step \in {"unlock", "enforce", "save"}
TokensKnown == \A r \in Requests : Rotates(req[r]) => req[r].tok \in 0 .. Len(refresh)

\* A reset saw the tokens there were: a token that is issued later is after its cut.
CutKnown == \A e \in Emails : cut[e] <= Len(refresh)

\* The inductive invariant of the accounts.
SessionsIInv ==
    /\ SessionsTypeOK /\ RowsSound /\ TokensKnown /\ CutKnown
    /\ LockMatchesCount /\ ResetEndsSessions

\* A new row, and the request that holds it.
LEMMA NewRowFacts ==
    ASSUME NEW e \in Emails, NEW p \in Passwords \cup {NoPassword},
           NEW s \in Subjects \cup {NoSubject}
    PROVE  NewRow(e, p, s) \in Row /\ RowOK(NewRow(e, p, s))
BY SessionsAssumption DEF NewRow, Row, RowOK

\* A request that goes on with a row holds that row and nothing else.
LEMMA AtFacts ==
    ASSUME NEW step \in Steps, NEW row \in Row, now \in Nat
    PROVE  /\ At(step, row) \in Request /\ At(step, row).row = row
           /\ At(step, row).step = step /\ At(step, row).tok = 0
BY DEF At, Request

\* A goroutine without a request is sound.
LEMMA IdleFacts == Idle \in Request /\ RowOK(Idle.row) /\ ~Rotates(Idle)
<1> DEFINE e == CHOOSE e \in Emails : TRUE
<1>1. e \in Emails
    BY SessionsAssumption
<1>2. /\ NewRow(e, NoPassword, NoSubject) \in Row
      /\ RowOK(NewRow(e, NoPassword, NoSubject))
    BY <1>1, NewRowFacts
<1>3. "idle" \in Steps
    BY DEF Steps
<1> QED
    BY <1>2, <1>3 DEF Idle, Request, Rotates

\* Counting a failure locks the row from the threshold on.
LEMMA CountFailureFacts ==
    ASSUME now \in Nat, NEW u \in Row, RowOK(u)
    PROVE  CountFailure(u) \in Row /\ RowOK(CountFailure(u))
<1> DEFINE f == u.fails + 1
           l == IF f >= Threshold THEN now + LockFor ELSE u.locked
<1>1. CountFailure(u) = [u EXCEPT !.fails = f, !.locked = l]
    BY DEF CountFailure
<1>2. u.fails \in Nat /\ u.locked \in Nat /\ f \in Nat /\ l \in Nat
    BY SessionsAssumption DEF Row
<1>3. l # 0 <=> f >= Threshold
    BY <1>2, SessionsAssumption DEF RowOK
<1>4. /\ CountFailure(u) \in Row
      /\ CountFailure(u).fails = f /\ CountFailure(u).locked = l
    BY <1>1, <1>2 DEF Row
<1> QED
    BY <1>3, <1>4 DEF RowOK

\* A step that leaves the tables alone keeps the invariant, when the request it makes holds a
\* sound row and a token that exists.
LEMMA RequestMoves ==
    ASSUME SessionsIInv, NEW r \in Requests, NEW q \in Request, RowOK(q.row),
           Rotates(q) => q.tok \in 0 .. Len(refresh),
           req' = [req EXCEPT ![r] = q], UNCHANGED Tables
    PROVE  SessionsIInv'
<1> USE DEF SessionsIInv
<1>1. UNCHANGED <<backend, users, refresh, resets, now, cut>>
    BY DEF Tables
<1>2. /\ req' \in [Requests -> Request]
      /\ \A d \in Requests : req'[d] = IF d = r THEN q ELSE req[d]
    BY DEF SessionsTypeOK
<1>3. SessionsTypeOK'
    BY <1>1, <1>2 DEF SessionsTypeOK
<1>4. RowsSound'
    BY <1>2 DEF RowsSound, RowOK
<1>5. TokensKnown'
    BY <1>1, <1>2 DEF TokensKnown, Rotates
<1>6. CutKnown' /\ LockMatchesCount' /\ ResetEndsSessions'
    BY <1>1 DEF CutKnown, LockMatchesCount, ResetEndsSessions
<1> QED
    BY <1>3, <1>4, <1>5, <1>6

\* What a request that was idle, or stops, leaves of the requests.
LEMMA DoneFacts ==
    ASSUME SessionsIInv, NEW r \in Requests, Done(r)
    PROVE  /\ req' \in [Requests -> Request] /\ RowsSound'
           /\ \A d \in Requests : Rotates(req[d])' => Rotates(req[d]) /\ req'[d] = req[d]
<1>1. /\ req' \in [Requests -> Request]
      /\ \A d \in Requests : req'[d] = IF d = r THEN Idle ELSE req[d]
    BY IdleFacts DEF SessionsIInv, SessionsTypeOK, Done
<1> QED
    BY <1>1, IdleFacts DEF SessionsIInv, RowsSound, RowOK, Rotates

\* What the queries return.
LEMMA QueryFacts ==
    /\ \A e : GetByEmail(e) = {u \in users : u.email = e}
    /\ \A e : GetByID(e) = {u \in users : u.email = e}
    /\ \A t : GetRefreshToken(t) = {refresh[i] : i \in DOMAIN refresh \cap {t}}
    /\ \A t : GetPasswordResetToken(t) = {resets[i] : i \in DOMAIN resets \cap {t}}
    /\ \A e : GetActiveRefreshTokens(e) \subseteq DOMAIN refresh
    /\ \A e : UnusedResetTokens(e) \subseteq DOMAIN resets
BY DEF GetByEmail, PgGetByEmail, MgGetByEmail, GetByID, PgGetByID, MgGetByID, GetRefreshToken,
       PgGetRefreshToken, MgGetRefreshToken, GetPasswordResetToken, PgGetPasswordResetToken,
       MgGetPasswordResetToken, GetActiveRefreshTokens, PgGetActiveRefreshTokens,
       MgGetActiveRefreshTokens, UnusedResetTokens, PgUnusedResetTokens, MgUnusedResetTokens, On

\* A handler reads, and the request goes on with what it read.
LEMMA HandlerStep ==
    ASSUME SessionsIInv, NEW r \in Requests,
           \/ HandleRegister(r) \/ HandleLogin(r) \/ HandleRefresh(r)
           \/ HandleRequestPasswordReset(r) \/ HandleConfirmPasswordReset(r)
           \/ OIDCAuthMiddleware(r)
    PROVE  SessionsIInv'
<1> USE DEF SessionsIInv
<1>1. \A u \in users : u \in Row /\ RowOK(u)
    BY DEF SessionsTypeOK, LockMatchesCount, RowOK
<1>2. SUFFICES \E q \in Request : /\ RowOK(q.row) /\ (Rotates(q) => q.tok \in 0 .. Len(refresh))
                                  /\ req' = [req EXCEPT ![r] = q] /\ UNCHANGED Tables
    BY RequestMoves
<1>3. {"create", "count", "unlock", "enforce", "byEmail", "invalidate", "confirm"} \subseteq Steps
    BY DEF Steps
<1>4. refresh \in Seq(RefreshToken) /\ resets \in Seq(PasswordResetToken) /\ now \in Nat
    BY DEF SessionsTypeOK
<1>5. CASE HandleRegister(r)
  <2>1. PICK e \in Emails, p \in Passwords : Register(r, e, p)
      BY <1>5 DEF HandleRegister
  <2> DEFINE q == At("create", NewRow(e, p, NoSubject))
  <2>2. q \in Request /\ RowOK(q.row) /\ ~Rotates(q)
      BY <1>3, <1>4, NewRowFacts, AtFacts DEF Rotates
  <2> QED
      BY <2>1, <2>2 DEF Register, Goto
<1>6. CASE HandleLogin(r)
  <2>1. PICK e \in Emails, p \in Passwords : Login(r, e, p)
      BY <1>6 DEF HandleLogin
  <2>2. PICK u \in users :
            /\ UNCHANGED Tables
            /\ \/ Goto(r, At("count", CountFailure(u)))
               \/ Goto(r, At("unlock", [u EXCEPT !.fails = 0, !.locked = 0]))
               \/ Goto(r, At("enforce", u))
      BY <2>1, QueryFacts DEF Login
  <2>3. CASE Goto(r, At("count", CountFailure(u)))
    <3>1. CountFailure(u) \in Row /\ RowOK(CountFailure(u))
        BY <1>1, <1>4, CountFailureFacts
    <3> DEFINE row == CountFailure(u)
               q == At("count", row)
    <3>2. q \in Request /\ q.row = row /\ ~Rotates(q)
        BY <1>3, <1>4, <3>1, AtFacts DEF Rotates
    <3>3. req' = [req EXCEPT ![r] = q]
        BY <2>3 DEF Goto
    <3> HIDE DEF q
    <3> QED
        BY <2>2, <3>1, <3>2, <3>3
  <2>4. CASE Goto(r, At("unlock", [u EXCEPT !.fails = 0, !.locked = 0]))
    <3> DEFINE row == [u EXCEPT !.fails = 0, !.locked = 0]
               q == At("unlock", row)
    <3>1. row \in Row /\ row.fails = 0 /\ row.locked = 0
        BY <1>1 DEF Row
    <3> HIDE DEF row
    <3>2. RowOK(row)
        BY <3>1, SessionsAssumption DEF RowOK
    <3>3. q \in Request /\ q.row = row /\ q.tok = 0 /\ 0 \in 0 .. Len(refresh)
        BY <1>3, <1>4, <3>1, AtFacts
    <3>4. req' = [req EXCEPT ![r] = q]
        BY <2>4 DEF Goto, row
    <3> HIDE DEF q
    <3> QED
        BY <2>2, <3>2, <3>3, <3>4
  <2>5. CASE Goto(r, At("enforce", u))
    <3> DEFINE q == At("enforce", u)
    <3>1. q \in Request /\ q.row = u /\ q.tok = 0
        BY <1>1, <1>3, <1>4, AtFacts
    <3>2. 0 \in 0 .. Len(refresh)
        BY <1>4
    <3>3. req' = [req EXCEPT ![r] = q]
        BY <2>5 DEF Goto
    <3> HIDE DEF q
    <3> QED
        BY <1>1, <2>2, <3>1, <3>2, <3>3
  <2> QED
      BY <2>2, <2>3, <2>4, <2>5
<1>7. CASE HandleRefresh(r)
  <2>1. PICK t \in DOMAIN refresh : RefreshSession(r, t)
      BY <1>7 DEF HandleRefresh
  <2>2. PICK u \in users : UNCHANGED Tables /\ Goto(r, [At("enforce", u) EXCEPT !.tok = t])
      BY <2>1, QueryFacts DEF RefreshSession
  <2>3. At("enforce", u) \in Request /\ At("enforce", u).row = u
      BY <1>1, <1>3, <1>4, AtFacts
  <2>4. t \in Nat /\ t \in 0 .. Len(refresh)
      BY <1>4
  <2> DEFINE q == [At("enforce", u) EXCEPT !.tok = t]
  <2>5. q \in Request /\ q.row = u /\ q.tok = t
      BY <2>3, <2>4 DEF Request
  <2> QED
      BY <1>1, <2>2, <2>4, <2>5 DEF Goto
<1>8. CASE HandleRequestPasswordReset(r)
  <2>1. PICK e \in Emails : RequestPasswordReset(r, e)
      BY <1>8 DEF HandleRequestPasswordReset
  <2>2. PICK u \in users : UNCHANGED Tables /\ Goto(r, At("invalidate", u))
      BY <2>1, QueryFacts DEF RequestPasswordReset
  <2> DEFINE q == At("invalidate", u)
  <2>3. q \in Request /\ q.row = u /\ ~Rotates(q)
      BY <1>1, <1>3, <1>4, AtFacts DEF Rotates
  <2> HIDE DEF q
  <2> QED
      BY <1>1, <2>2, <2>3 DEF Goto, q
<1>9. CASE HandleConfirmPasswordReset(r)
  <2>1. PICK t \in DOMAIN resets, p \in Passwords : ConfirmPasswordReset(r, t, p)
      BY <1>9 DEF HandleConfirmPasswordReset
  <2>2. PICK k \in GetPasswordResetToken(t) :
            Goto(r, [At("confirm", NewRow(k.user, p, NoSubject)) EXCEPT !.tok = t])
      BY <2>1 DEF ConfirmPasswordReset
  <2>3. k.user \in Emails /\ t \in Nat
    <3>1. resets[t] \in PasswordResetToken /\ t \in Nat
        BY <1>4
    <3>2. k = resets[t]
        BY QueryFacts
    <3> QED
        BY <3>1, <3>2 DEF PasswordResetToken
  <2> DEFINE a == At("confirm", NewRow(k.user, p, NoSubject))
             q == [a EXCEPT !.tok = t]
  <2>4. a \in Request /\ RowOK(a.row) /\ ~Rotates(a)
      BY <1>3, <1>4, <2>3, NewRowFacts, AtFacts DEF Rotates
  <2>5. q \in Request /\ q.row = a.row /\ q.step = a.step
    <3> HIDE DEF a
    <3> QED
        BY <2>3, <2>4 DEF Request
  <2> QED
      BY <2>1, <2>2, <2>4, <2>5 DEF Goto, Rotates, ConfirmPasswordReset
<1>10. CASE OIDCAuthMiddleware(r)
  <2>1. PICK s \in Subjects, e \in Emails : SyncOIDCUser(r, s, e)
      BY <1>10 DEF OIDCAuthMiddleware
  <2> DEFINE row == NewRow(e, NoPassword, s)
             q == At("byEmail", row)
  <2>2. row \in Row /\ RowOK(row)
      BY NewRowFacts
  <2> HIDE DEF row
  <2>3. q \in Request /\ q.row = row /\ ~Rotates(q)
      BY <1>3, <1>4, <2>2, AtFacts DEF Rotates
  <2>4. req' = [req EXCEPT ![r] = q] /\ UNCHANGED Tables
      BY <2>1 DEF SyncOIDCUser, Goto, row
  <2> HIDE DEF q
  <2> QED
      BY <2>2, <2>3, <2>4
<1> QED
    BY <1>5, <1>6, <1>7, <1>8, <1>9, <1>10

\* A transaction reads, a link is found, or the request stops.
LEMMA ReadStep ==
    ASSUME SessionsIInv, NEW r \in Requests,
           EnforceMaxSessions(r) \/ InvalidateUserResetTokens(r) \/ LinkOrProvision(r)
             \/ FailRequest(r)
    PROVE  SessionsIInv'
<1> USE DEF SessionsIInv
<1>1. /\ req[r] \in Request /\ RowOK(req[r].row) /\ req[r].row \in Row
      /\ refresh \in Seq(RefreshToken) /\ resets \in Seq(PasswordResetToken) /\ now \in Nat
    BY DEF SessionsTypeOK, RowsSound, Request
<1>2. CASE EnforceMaxSessions(r)
  <2> DEFINE A == GetActiveRefreshTokens(req[r].row.email)
  <2>0. PICK drop \in Oldest(A) :
            /\ req' = [req EXCEPT ![r].step = "save", ![r].drop = drop,
                                  ![r].stale = req[r].tok # 0 /\ refresh[req[r].tok].revoked]
            /\ UNCHANGED Tables
      BY <1>2 DEF EnforceMaxSessions
  <2> DEFINE t == req[r].tok
             q == [req[r] EXCEPT !.step = "save", !.drop = drop,
                                 !.stale = t # 0 /\ refresh[t].revoked]
  <2>1. t \in 0 .. Len(refresh)
      BY <1>2 DEF EnforceMaxSessions, TokensKnown, Rotates
  <2>2. drop \in SUBSET Nat
      BY <1>1, <2>0, QueryFacts DEF Oldest, Excess
  <2>3. (t # 0 /\ refresh[t].revoked) \in BOOLEAN
    <3>1. CASE t = 0
        BY <3>1
    <3>2. CASE t # 0
      <4>1. refresh[t] \in RefreshToken
          BY <1>1, <2>1, <3>2
      <4> QED
          BY <3>2, <4>1 DEF RefreshToken
    <3> QED
        BY <3>1, <3>2
  <2>4. q \in Request /\ q.row = req[r].row /\ q.tok = t
    <3> DEFINE stale == t # 0 /\ refresh[t].revoked
    <3>1. drop \in SUBSET Nat /\ stale \in BOOLEAN /\ "save" \in Steps
        BY <2>2, <2>3 DEF Steps
    <3>2. /\ q = [req[r] EXCEPT !.step = "save", !.drop = drop, !.stale = stale]
          /\ t = req[r].tok
        OBVIOUS
    <3> HIDE DEF stale, t, q
    <3> QED
        BY <1>1, <3>1, <3>2 DEF Request
  <2>5. req' = [req EXCEPT ![r] = q] /\ UNCHANGED Tables
      BY <2>0 DEF SessionsTypeOK
  <2> HIDE DEF q
  <2> QED
      BY <1>1, <2>1, <2>4, <2>5, RequestMoves
<1>3. CASE InvalidateUserResetTokens(r)
  <2> DEFINE U == UnusedResetTokens(req[r].row.email)
             q == [req[r] EXCEPT !.step = "saveReset", !.drop = U]
  <2>1. U \in SUBSET Nat
      BY <1>1, QueryFacts
  <2>2. q \in Request /\ q.row = req[r].row /\ ~Rotates(q)
    <3> HIDE DEF U
    <3> QED
        BY <1>1, <2>1 DEF Request, Steps, Rotates
  <2>3. req' = [req EXCEPT ![r] = q] /\ UNCHANGED Tables
      BY <1>3 DEF InvalidateUserResetTokens, SessionsTypeOK
  <2> HIDE DEF q
  <2> QED
      BY <1>1, <2>2, <2>3, RequestMoves
<1>4. CASE LinkOrProvision(r)
  <2>1. UNCHANGED Tables
      BY <1>4 DEF LinkOrProvision
  <2>2. CASE \E u \in users : req' = [req EXCEPT ![r] = At("link", [u EXCEPT !.sub = req[r].row.sub])]
    <3>1. PICK u \in users : req' = [req EXCEPT ![r] = At("link", [u EXCEPT !.sub = req[r].row.sub])]
        BY <2>2
    <3> DEFINE row == [u EXCEPT !.sub = req[r].row.sub]
    <3>2. row \in Row /\ RowOK(row)
        BY <1>1 DEF SessionsTypeOK, LockMatchesCount, Row, RowOK
    <3>3. "link" \in Steps
        BY DEF Steps
    <3> DEFINE q == At("link", row)
    <3>4. q \in Request /\ q.row = row /\ ~Rotates(q)
        BY <1>1, <3>2, <3>3, AtFacts DEF Rotates
    <3> HIDE DEF q
    <3> QED
        BY <2>1, <3>1, <3>2, <3>4, RequestMoves DEF q
  <2>3. CASE Then(r, "create")
    <3> DEFINE q == [req[r] EXCEPT !.step = "create"]
    <3>1. q \in Request /\ q.row = req[r].row /\ ~Rotates(q)
        BY <1>1 DEF Request, Steps, Rotates
    <3>2. req' = [req EXCEPT ![r] = q]
        BY <2>3 DEF Then, SessionsTypeOK
    <3> HIDE DEF q
    <3> QED
        BY <1>1, <2>1, <3>1, <3>2, RequestMoves
  <2> QED
      BY <1>4, <2>2, <2>3, QueryFacts DEF LinkOrProvision
<1>5. CASE FailRequest(r)
    BY <1>5, IdleFacts, RequestMoves DEF FailRequest, Done
<1> QED
    BY <1>2, <1>3, <1>4, <1>5

\* Writing sound rows keeps the invariant, whatever the request does next.
LEMMA RowsWritten ==
    ASSUME SessionsIInv, NEW r \in Requests, UNCHANGED <<backend, refresh, resets, now, cut>>,
           \A u \in users' : u \in Row /\ RowOK(u),
           \/ Done(r)
           \/ req[r].step = "unlock" /\ Then(r, "enforce")
    PROVE  SessionsIInv'
<1> USE DEF SessionsIInv
<1>1. /\ req' \in [Requests -> Request] /\ RowsSound'
      /\ \A d \in Requests : Rotates(req[d])' => Rotates(req[d]) /\ req'[d].tok = req[d].tok
  <2>1. CASE Done(r)
      BY <2>1, DoneFacts
  <2>2. CASE req[r].step = "unlock" /\ Then(r, "enforce")
    <3> DEFINE q == [req[r] EXCEPT !.step = "enforce"]
    <3>1. q \in Request /\ q.row = req[r].row /\ q.tok = req[r].tok
        BY <2>2 DEF SessionsTypeOK, Request, Steps
    <3>2. req' = [req EXCEPT ![r] = q]
        BY <2>2 DEF Then, SessionsTypeOK
    <3> HIDE DEF q
    <3>3. /\ req' \in [Requests -> Request]
          /\ \A d \in Requests : req'[d] = IF d = r THEN q ELSE req[d]
        BY <3>1, <3>2 DEF SessionsTypeOK
    <3>4. RowsSound'
        BY <3>1, <3>3 DEF RowsSound, RowOK
    <3> QED
        BY <2>2, <3>1, <3>3, <3>4 DEF Rotates
  <2> QED
      BY <2>1, <2>2
<1>2. SessionsTypeOK'
    BY <1>1 DEF SessionsTypeOK
<1>3. TokensKnown'
    BY <1>1 DEF TokensKnown
<1>4. LockMatchesCount'
    BY DEF LockMatchesCount, RowOK
<1>5. CutKnown' /\ ResetEndsSessions'
    BY DEF CutKnown, ResetEndsSessions
<1> QED
    BY <1>1, <1>2, <1>3, <1>4, <1>5

\* Registering, counting a failure, resetting the counter, linking a subject.
LEMMA WriteStep ==
    ASSUME SessionsIInv, NEW r \in Requests, CreateUser(r) \/ WriteUser(r)
    PROVE  SessionsIInv'
<1> USE DEF SessionsIInv
<1> DEFINE q == req[r].row
<1>1. q \in Row /\ RowOK(q) /\ \A u \in users : u \in Row /\ RowOK(u)
    BY DEF SessionsTypeOK, RowsSound, Request, LockMatchesCount, RowOK
<1>2. CASE CreateUser(r)
  <2>1. users' \subseteq users \cup {q}
      BY <1>2 DEF CreateUser, Create, PgCreate, MgCreate, On
  <2> QED
      BY <1>1, <1>2, <2>1, RowsWritten DEF CreateUser
<1>3. CASE WriteUser(r)
  <2>1. Update(q)
      BY <1>3 DEF WriteUser
  <2>2. ASSUME NEW u \in users' PROVE u \in Row /\ RowOK(u)
    <3>1. CASE backend = "mongo"
      <4>1. u \in users \cup {q}
          BY <2>1, <2>2, <3>1 DEF Update, MgUpdate, On
      <4> QED
          BY <1>1, <4>1
    <3>2. CASE backend # "mongo"
      <4>1. PICK v \in users :
                u = IF v.email = q.email
                    THEN [v EXCEPT !.pw = q.pw, !.sub = q.sub, !.fails = q.fails,
                                   !.locked = q.locked]
                    ELSE v
          BY <2>1, <2>2, <3>2 DEF Update, PgUpdate, On
      <4>2. CASE v.email = q.email
        <5> HIDE DEF q
        <5>1. u \in Row /\ u.fails = q.fails /\ u.locked = q.locked
            BY <1>1, <4>1, <4>2 DEF Row
        <5> QED
            BY <1>1, <5>1 DEF RowOK
      <4>3. CASE v.email # q.email
          BY <1>1, <4>1, <4>3
      <4> QED
          BY <4>2, <4>3
    <3> QED
        BY <3>1, <3>2
  <2> QED
      BY <1>3, <2>2, RowsWritten DEF WriteUser
<1> QED
    BY <1>2, <1>3

\* A statement or transaction that leaves the users alone, only revokes refresh tokens and adds
\* at most one.
LEMMA TokensWritten ==
    ASSUME SessionsIInv, UNCHANGED <<backend, users, now, cut>>,
           refresh' \in Seq(RefreshToken), resets' \in Seq(PasswordResetToken),
           Len(refresh') >= Len(refresh),
           \A i \in 1 .. Len(refresh) : /\ refresh'[i].user = refresh[i].user
                                        /\ refresh[i].revoked => refresh'[i].revoked,
           req' \in [Requests -> Request], RowsSound',
           \A d \in Requests : Rotates(req[d])' => Rotates(req[d]) /\ req'[d].tok = req[d].tok
    PROVE  SessionsIInv'
<1> USE DEF SessionsIInv
<1>1. SessionsTypeOK'
    BY DEF SessionsTypeOK
<1>2. Len(refresh) \in Nat /\ Len(refresh') \in Nat
    BY DEF SessionsTypeOK
<1>3. TokensKnown'
    BY <1>2 DEF TokensKnown, SessionsTypeOK, Request
<1>4. \A e \in Emails : cut[e] \in Nat /\ cut[e] <= Len(refresh)
    BY DEF CutKnown, SessionsTypeOK
<1>5. CutKnown'
    BY <1>2, <1>4 DEF CutKnown
<1>6. ResetEndsSessions'
  <2> SUFFICES ASSUME NEW e \in Emails, NEW i \in DOMAIN refresh', refresh'[i].user = e,
                      i <= cut[e]
               PROVE  refresh'[i].revoked
      BY DEF ResetEndsSessions
  <2>1. i \in 1 .. Len(refresh) /\ i \in DOMAIN refresh
      BY <1>2, <1>4 DEF SessionsTypeOK
  <2>2. refresh[i].user = e
      BY <2>1
  <2>3. refresh[i].revoked
      BY <2>1, <2>2 DEF ResetEndsSessions
  <2> QED
      BY <2>1, <2>3
<1>7. LockMatchesCount'
    BY DEF LockMatchesCount
<1> QED
    BY <1>1, <1>3, <1>5, <1>6, <1>7

\* Revoking a token changes nothing else of it.
LEMMA RevokeFacts ==
    ASSUME NEW ts \in Seq(RefreshToken), NEW t
    PROVE  /\ RevokeRefreshToken(ts, t) \in Seq(RefreshToken)
           /\ Len(RevokeRefreshToken(ts, t)) = Len(ts)
           /\ \A i \in 1 .. Len(ts) :
                /\ RevokeRefreshToken(ts, t)[i].user = ts[i].user
                /\ RevokeRefreshToken(ts, t)[i].from = ts[i].from
                /\ RevokeRefreshToken(ts, t)[i].expires = ts[i].expires
                /\ i = t => RevokeRefreshToken(ts, t)[i].revoked
                /\ ts[i].revoked => RevokeRefreshToken(ts, t)[i].revoked
<1>1. RevokeRefreshToken(ts, t) = [ts EXCEPT ![t].revoked = TRUE]
    BY DEF RevokeRefreshToken, PgRevokeRefreshToken, MgRevokeRefreshToken, On
<1>2. \A k \in RefreshToken : /\ [k EXCEPT !.revoked = TRUE] \in RefreshToken
                              /\ [k EXCEPT !.revoked = TRUE].user = k.user
                              /\ [k EXCEPT !.revoked = TRUE].from = k.from
                              /\ [k EXCEPT !.revoked = TRUE].expires = k.expires
                              /\ [k EXCEPT !.revoked = TRUE].revoked
    BY DEF RefreshToken
<1>3. ts \in [1 .. Len(ts) -> RefreshToken] /\ Len(ts) \in Nat
    OBVIOUS
<1> DEFINE n == Len(ts)
           rs == [ts EXCEPT ![t].revoked = TRUE]
<1>4. ASSUME NEW f \in [1 .. n -> RefreshToken]
      PROVE  /\ [f EXCEPT ![t].revoked = TRUE] \in [1 .. n -> RefreshToken]
             /\ \A i \in 1 .. n : [f EXCEPT ![t].revoked = TRUE][i]
                                  = IF i = t THEN [f[i] EXCEPT !.revoked = TRUE] ELSE f[i]
  <2> HIDE DEF n
  <2> QED
      BY <1>2
<1>5. /\ rs \in [1 .. n -> RefreshToken]
      /\ \A i \in 1 .. n : rs[i] = IF i = t THEN [ts[i] EXCEPT !.revoked = TRUE] ELSE ts[i]
    BY <1>3, <1>4
<1>6. \A i \in 1 .. n : /\ rs[i].user = ts[i].user /\ rs[i].from = ts[i].from /\ rs[i].expires = ts[i].expires
                        /\ i = t => rs[i].revoked
                        /\ ts[i].revoked => rs[i].revoked
  <2> HIDE DEF n, rs
  <2> QED
      BY <1>2, <1>3, <1>5 DEF n
<1>7. rs \in Seq(RefreshToken) /\ Len(rs) = n
  <2> HIDE DEF rs
  <2> QED
      BY <1>3, <1>5
<1> QED
    BY <1>1, <1>6, <1>7

\* A sequence that is built token by token has the length of the one it is built from.
LEMMA Rebuilt ==
    ASSUME NEW S, NEW ts \in Seq(S), NEW f, f = [i \in DOMAIN ts |-> f[i]],
           \A i \in 1 .. Len(ts) : f[i] \in S
    PROVE  f \in Seq(S) /\ Len(f) = Len(ts)
<1>1. DOMAIN ts = 1 .. Len(ts) /\ Len(ts) \in Nat
    OBVIOUS
<1>2. f \in [1 .. Len(ts) -> S]
    BY <1>1
<1> QED
    BY <1>1, <1>2

\* A login or a refresh commits: tokens are revoked, one is added.
LEMMA SaveStep == ASSUME SessionsIInv, NEW r \in Requests, SaveSession(r) PROVE SessionsIInv'
<1> USE DEF SessionsIInv
<1> DEFINE q == req[r]
           changed == {i \in Rotated(q) : refresh[i].revoked /\ ~(i = q.tok /\ q.stale)}
           kept == [i \in DOMAIN refresh |->
                       IF i \in Rotated(q) THEN RevokeRefreshToken(refresh, i)[i] ELSE refresh[i]]
           new == [user |-> q.row.email, expires |-> q.since + RefreshFor,
                   revoked |-> FALSE, from |-> q.tok]
<1>1. /\ q.step = "save" /\ UNCHANGED <<backend, users, resets, now, cut>>
      /\ \/ refresh' = SaveRefreshToken(kept, new) /\ Done(r)
         \/ UNCHANGED refresh /\ Then(r, "enforce")
    BY DEF SaveSession
<1>2. /\ refresh \in Seq(RefreshToken) /\ resets \in Seq(PasswordResetToken) /\ now \in Nat
      /\ q \in Request /\ RowOK(q.row)
    BY DEF SessionsTypeOK, RowsSound
<1>3. CASE refresh' = SaveRefreshToken(kept, new) /\ Done(r)
  <2>1. new \in RefreshToken
      BY <1>2, SessionsAssumption DEF RefreshToken, Request, Row
  <2>2. \A i \in 1 .. Len(refresh) : /\ kept[i] \in RefreshToken
                                     /\ kept[i].user = refresh[i].user
                                     /\ refresh[i].revoked => kept[i].revoked
    <3> TAKE i \in 1 .. Len(refresh)
    <3>1. refresh[i] \in RefreshToken /\ i \in DOMAIN refresh
        BY <1>2
    <3>2. /\ RevokeRefreshToken(refresh, i)[i] \in RefreshToken
          /\ RevokeRefreshToken(refresh, i)[i].user = refresh[i].user
          /\ refresh[i].revoked => RevokeRefreshToken(refresh, i)[i].revoked
      <4>1. /\ RevokeRefreshToken(refresh, i) \in Seq(RefreshToken)
            /\ Len(RevokeRefreshToken(refresh, i)) = Len(refresh)
            /\ RevokeRefreshToken(refresh, i)[i].user = refresh[i].user
            /\ refresh[i].revoked => RevokeRefreshToken(refresh, i)[i].revoked
          BY <1>2, RevokeFacts
      <4> QED
          BY <4>1
    <3> QED
        BY <3>1, <3>2
  <2>3. kept \in Seq(RefreshToken) /\ Len(kept) = Len(refresh)
    <3>1. kept = [i \in DOMAIN refresh |-> kept[i]]
        OBVIOUS
    <3> HIDE DEF kept
    <3> QED
        BY <1>2, <2>2, <3>1, Rebuilt
  <2>4. refresh' = Append(kept, new)
      BY <1>3 DEF SaveRefreshToken, PgSaveRefreshToken, MgSaveRefreshToken, On
  <2>5. /\ refresh' \in Seq(RefreshToken) /\ Len(refresh') >= Len(refresh)
        /\ \A i \in 1 .. Len(refresh) : refresh'[i] = kept[i]
    <3> HIDE DEF kept, new
    <3>1. Len(refresh) \in Nat
        BY <1>2
    <3> QED
        BY <2>1, <2>3, <2>4, <3>1
  <2>6. /\ req' \in [Requests -> Request] /\ RowsSound'
        /\ \A d \in Requests : Rotates(req[d])' => Rotates(req[d]) /\ req'[d].tok = req[d].tok
      BY <1>3, DoneFacts
  <2>7. \A i \in 1 .. Len(refresh) : /\ refresh'[i].user = refresh[i].user
                                     /\ refresh[i].revoked => refresh'[i].revoked
      BY <2>2, <2>5
  <2>8. resets' \in Seq(PasswordResetToken)
      BY <1>1, <1>2
  <2> HIDE DEF kept, new
  <2> QED
      BY <1>1, <2>5, <2>6, <2>7, <2>8, TokensWritten
<1>4. CASE UNCHANGED refresh /\ Then(r, "enforce")
  <2> DEFINE p == [q EXCEPT !.step = "enforce"]
  <2>1. p \in Request /\ p.row = q.row /\ p.tok = q.tok
      BY <1>2 DEF Request, Steps
  <2>2. req' = [req EXCEPT ![r] = p]
      BY <1>4 DEF Then, SessionsTypeOK
  <2>3. q.tok \in 0 .. Len(refresh)
      BY <1>1 DEF TokensKnown, Rotates
  <2>4. UNCHANGED Tables
      BY <1>1, <1>4 DEF Tables
  <2> HIDE DEF p
  <2> QED
      BY <1>2, <2>1, <2>2, <2>3, <2>4, RequestMoves
<1> QED
    BY <1>1, <1>3, <1>4

\* A logout revokes one token.
LEMMA LogoutStep == ASSUME SessionsIInv, HandleLogout PROVE SessionsIInv'
<1> USE DEF SessionsIInv
<1>1. PICK t \in DOMAIN refresh : Logout(t)
    BY DEF HandleLogout
<1>2. /\ refresh' = RevokeRefreshToken(refresh, t)
      /\ UNCHANGED <<backend, users, resets, now, req, cut>>
    BY <1>1 DEF Logout
<1>3. refresh \in Seq(RefreshToken) /\ resets \in Seq(PasswordResetToken)
    BY DEF SessionsTypeOK
<1>4. /\ refresh' \in Seq(RefreshToken) /\ Len(refresh') = Len(refresh) /\ Len(refresh) \in Nat
      /\ \A i \in 1 .. Len(refresh) : /\ refresh'[i].user = refresh[i].user
                                      /\ refresh[i].revoked => refresh'[i].revoked
    BY <1>2, <1>3, RevokeFacts
<1>5. req' \in [Requests -> Request] /\ RowsSound'
    BY <1>2 DEF SessionsTypeOK, RowsSound, RowOK
<1>6. \A d \in Requests : Rotates(req[d])' => Rotates(req[d]) /\ req'[d].tok = req[d].tok
    BY <1>2 DEF Rotates
<1>7. Len(refresh') >= Len(refresh) /\ resets' \in Seq(PasswordResetToken)
    BY <1>2, <1>3, <1>4
<1> QED
    BY <1>2, <1>4, <1>5, <1>6, <1>7, TokensWritten

\* Marking a reset token used keeps the type.
LEMMA MarkFacts ==
    ASSUME NEW ps \in Seq(PasswordResetToken), NEW t
    PROVE  /\ MarkPasswordResetUsed(ps, t) \in Seq(PasswordResetToken)
           /\ Len(MarkPasswordResetUsed(ps, t)) = Len(ps)
<1> DEFINE n == Len(ps)
           rs == [ps EXCEPT ![t].used = TRUE]
<1>1. \A k \in PasswordResetToken : [k EXCEPT !.used = TRUE] \in PasswordResetToken
    BY DEF PasswordResetToken
<1>2. ps \in [1 .. n -> PasswordResetToken] /\ n \in Nat
    OBVIOUS
<1>3. ASSUME NEW f \in [1 .. n -> PasswordResetToken]
      PROVE  [f EXCEPT ![t].used = TRUE] \in [1 .. n -> PasswordResetToken]
  <2> HIDE DEF n
  <2> QED
      BY <1>1
<1>4. rs \in [1 .. n -> PasswordResetToken]
    BY <1>2, <1>3
<1>5. rs \in Seq(PasswordResetToken) /\ Len(rs) = n
  <2> HIDE DEF rs
  <2> QED
      BY <1>2, <1>4
<1> QED
    BY <1>5 DEF MarkPasswordResetUsed, PgMarkPasswordResetUsed, MgMarkPasswordResetUsed, On

\* A reset token is stored and the ones before it are invalidated.
LEMMA SaveResetStep ==
    ASSUME SessionsIInv, NEW r \in Requests, SavePasswordReset(r) PROVE SessionsIInv'
<1> USE DEF SessionsIInv
<1> DEFINE q == req[r]
           kept == [i \in DOMAIN resets |->
                       IF i \in q.drop THEN MarkPasswordResetUsed(resets, i)[i] ELSE resets[i]]
           new == [user |-> q.row.email, expires |-> q.since + ResetFor, used |-> FALSE]
<1>1. /\ UNCHANGED <<backend, users, refresh, now, cut>>
      /\ \/ resets' = SavePasswordResetToken(kept, new) /\ Done(r)
         \/ UNCHANGED resets /\ Then(r, "invalidate")
    BY DEF SavePasswordReset
<1>2. /\ refresh \in Seq(RefreshToken) /\ resets \in Seq(PasswordResetToken) /\ now \in Nat
      /\ q \in Request /\ RowOK(q.row)
    BY DEF SessionsTypeOK, RowsSound
<1>3. CASE resets' = SavePasswordResetToken(kept, new) /\ Done(r)
  <2>1. new \in PasswordResetToken
      BY <1>2, SessionsAssumption DEF PasswordResetToken, Request, Row
  <2>2. \A i \in 1 .. Len(resets) : kept[i] \in PasswordResetToken
    <3> TAKE i \in 1 .. Len(resets)
    <3>1. resets[i] \in PasswordResetToken /\ i \in DOMAIN resets
        BY <1>2
    <3>2. MarkPasswordResetUsed(resets, i)[i] \in PasswordResetToken
      <4>1. /\ MarkPasswordResetUsed(resets, i) \in Seq(PasswordResetToken)
            /\ Len(MarkPasswordResetUsed(resets, i)) = Len(resets)
          BY <1>2, MarkFacts
      <4> QED
          BY <4>1
    <3> QED
        BY <3>1, <3>2
  <2>3. kept \in Seq(PasswordResetToken)
    <3>1. kept = [i \in DOMAIN resets |-> kept[i]]
        OBVIOUS
    <3> HIDE DEF kept
    <3> QED
        BY <1>2, <2>2, <3>1, Rebuilt
  <2>4. resets' = Append(kept, new)
      BY <1>3 DEF SavePasswordResetToken, PgSavePasswordResetToken, MgSavePasswordResetToken, On
  <2>5. resets' \in Seq(PasswordResetToken)
    <3> HIDE DEF kept, new
    <3> QED
        BY <2>1, <2>3, <2>4
  <2>6. /\ req' \in [Requests -> Request] /\ RowsSound'
        /\ \A d \in Requests : Rotates(req[d])' => Rotates(req[d]) /\ req'[d].tok = req[d].tok
      BY <1>3, DoneFacts
  <2>7. /\ refresh' \in Seq(RefreshToken) /\ Len(refresh') >= Len(refresh)
        /\ \A i \in 1 .. Len(refresh) : /\ refresh'[i].user = refresh[i].user
                                        /\ refresh[i].revoked => refresh'[i].revoked
    <3>1. Len(refresh) \in Nat
        BY <1>2
    <3> QED
        BY <1>1, <1>2, <3>1
  <2> HIDE DEF kept, new
  <2> QED
      BY <1>1, <2>5, <2>6, <2>7, TokensWritten
<1>4. CASE UNCHANGED resets /\ Then(r, "invalidate")
  <2> DEFINE p == [q EXCEPT !.step = "invalidate"]
  <2>1. p \in Request /\ p.row = q.row /\ ~Rotates(p)
      BY <1>2 DEF Request, Steps, Rotates
  <2>2. req' = [req EXCEPT ![r] = p]
      BY <1>4 DEF Then, SessionsTypeOK
  <2>3. UNCHANGED Tables
      BY <1>1, <1>4 DEF Tables
  <2> HIDE DEF p
  <2> QED
      BY <1>2, <2>1, <2>2, <2>3, RequestMoves
<1> QED
    BY <1>1, <1>3, <1>4

\* Revoking all tokens of a user.
LEMMA RevokeAllFacts ==
    ASSUME NEW ts \in Seq(RefreshToken), NEW e
    PROVE  /\ RevokeAllUserTokens(ts, e) \in Seq(RefreshToken)
           /\ Len(RevokeAllUserTokens(ts, e)) = Len(ts)
           /\ \A i \in 1 .. Len(ts) :
                /\ RevokeAllUserTokens(ts, e)[i].user = ts[i].user
                /\ RevokeAllUserTokens(ts, e)[i].from = ts[i].from
                /\ RevokeAllUserTokens(ts, e)[i].expires = ts[i].expires
                /\ RevokeAllUserTokens(ts, e)[i].revoked <=> ts[i].revoked \/ ts[i].user = e
<1> DEFINE rs == [i \in DOMAIN ts |-> [ts[i] EXCEPT !.revoked = ts[i].revoked \/ ts[i].user = e]]
<1>1. RevokeAllUserTokens(ts, e) = rs
    BY DEF RevokeAllUserTokens, PgRevokeAllUserTokens, MgRevokeAllUserTokens, On
<1>2. ASSUME NEW k \in RefreshToken, NEW b \in BOOLEAN
      PROVE  /\ [k EXCEPT !.revoked = b] \in RefreshToken
             /\ [k EXCEPT !.revoked = b].user = k.user
             /\ [k EXCEPT !.revoked = b].from = k.from
             /\ [k EXCEPT !.revoked = b].expires = k.expires
             /\ [k EXCEPT !.revoked = b].revoked = b
    BY DEF RefreshToken
<1>3. \A i \in 1 .. Len(ts) : /\ rs[i] \in RefreshToken
                              /\ rs[i].user = ts[i].user
                              /\ rs[i].from = ts[i].from /\ rs[i].expires = ts[i].expires
                              /\ rs[i].revoked <=> ts[i].revoked \/ ts[i].user = e
  <2> TAKE i \in 1 .. Len(ts)
  <2> DEFINE b == ts[i].revoked \/ ts[i].user = e
  <2>1. ts[i] \in RefreshToken /\ i \in DOMAIN ts
      OBVIOUS
  <2>2. b \in BOOLEAN
      OBVIOUS
  <2>3. rs[i] = [ts[i] EXCEPT !.revoked = b]
      BY <2>1
  <2>4. /\ rs[i] \in RefreshToken /\ rs[i].user = ts[i].user /\ rs[i].revoked = b
        /\ rs[i].from = ts[i].from /\ rs[i].expires = ts[i].expires
    <3> HIDE DEF rs, b
    <3> QED
        BY <1>2, <2>1, <2>2, <2>3
  <2> QED
      BY <2>4
<1>4. rs \in Seq(RefreshToken) /\ Len(rs) = Len(ts)
  <2>1. rs = [i \in DOMAIN ts |-> rs[i]]
      OBVIOUS
  <2> HIDE DEF rs
  <2> QED
      BY <1>3, <2>1, Rebuilt
<1> HIDE DEF rs
<1> QED
    BY <1>1, <1>3, <1>4

\* The commit of a password reset ends every session of the user.
LEMMA CommitResetStep ==
    ASSUME SessionsIInv, NEW r \in Requests, CommitPasswordReset(r) PROVE SessionsIInv'
<1> USE DEF SessionsIInv
<1> DEFINE q == req[r].row
           e == q.email
<1>1. /\ UpdatePassword(e, q.pw) /\ resets' = MarkPasswordResetUsed(resets, req[r].tok)
      /\ refresh' = RevokeAllUserTokens(refresh, e) /\ cut' = [cut EXCEPT ![e] = Len(refresh)]
      /\ Done(r) /\ UNCHANGED <<backend, now>>
    BY DEF CommitPasswordReset
<1>2. /\ refresh \in Seq(RefreshToken) /\ resets \in Seq(PasswordResetToken)
      /\ Len(refresh) \in Nat /\ cut \in [Emails -> Nat] /\ q \in Row /\ e \in Emails
    BY DEF SessionsTypeOK, Request, Row
<1>3. /\ refresh' \in Seq(RefreshToken) /\ Len(refresh') = Len(refresh)
      /\ \A i \in 1 .. Len(refresh) :
           /\ refresh'[i].user = refresh[i].user
           /\ refresh'[i].revoked <=> refresh[i].revoked \/ refresh[i].user = e
  <2> HIDE DEF e
  <2> QED
      BY <1>1, <1>2, RevokeAllFacts
<1>4. \A u \in users' : u \in Row /\ RowOK(u)
  <2> SUFFICES ASSUME NEW u \in users' PROVE u \in Row /\ RowOK(u)
      OBVIOUS
  <2>1. PICK v \in users : u = IF v.email = e THEN [v EXCEPT !.pw = q.pw] ELSE v
      BY <1>1 DEF UpdatePassword, PgUpdatePassword, MgUpdatePassword, On
  <2>2. v \in Row /\ RowOK(v) /\ q.pw \in Passwords \cup {NoPassword}
      BY <1>2 DEF SessionsTypeOK, LockMatchesCount, RowOK, Row
  <2>3. u \in Row /\ u.fails = v.fails /\ u.locked = v.locked
    <3> HIDE DEF q
    <3> QED
        BY <2>1, <2>2 DEF Row
  <2> QED
      BY <2>2, <2>3 DEF RowOK
<1>5. /\ req' \in [Requests -> Request] /\ RowsSound'
      /\ \A d \in Requests : Rotates(req[d])' => Rotates(req[d]) /\ req'[d] = req[d]
    BY <1>1, DoneFacts
<1>6. resets' \in Seq(PasswordResetToken)
    BY <1>1, <1>2, MarkFacts
<1>7. /\ cut' \in [Emails -> Nat] /\ cut'[e] = Len(refresh)
      /\ \A d \in Emails : d # e => cut'[d] = cut[d]
  <2> HIDE DEF e
  <2> QED
      BY <1>1, <1>2
<1>8. SessionsTypeOK'
    BY <1>1, <1>3, <1>4, <1>5, <1>6, <1>7 DEF SessionsTypeOK
<1>9. TokensKnown' /\ LockMatchesCount'
    BY <1>3, <1>4, <1>5 DEF TokensKnown, LockMatchesCount, RowOK
<1>10. \A d \in Emails : cut'[d] <= Len(refresh)
  <2> TAKE d \in Emails
  <2>1. CASE d = e
      BY <1>2, <1>7, <2>1
  <2>2. CASE d # e
      BY <1>7, <2>2 DEF CutKnown
  <2> QED
      BY <2>1, <2>2
<1>11. CutKnown'
    BY <1>3, <1>10 DEF CutKnown
<1>12. ResetEndsSessions'
  <2> SUFFICES ASSUME NEW d \in Emails, NEW i \in DOMAIN refresh', refresh'[i].user = d,
                      i <= cut'[d]
               PROVE  refresh'[i].revoked
      BY DEF ResetEndsSessions
  <2>1. i \in 1 .. Len(refresh) /\ i \in DOMAIN refresh
      BY <1>2, <1>3
  <2>2. refresh[i].user = d
      BY <1>3, <2>1
  <2>3. CASE d = e
      BY <1>3, <2>1, <2>2, <2>3
  <2>4. CASE d # e
    <3>1. refresh[i].revoked
        BY <1>7, <2>1, <2>2, <2>4 DEF ResetEndsSessions
    <3> QED
        BY <1>3, <2>1, <3>1
  <2> QED
      BY <2>3, <2>4
<1> QED
    BY <1>5, <1>8, <1>9, <1>11, <1>12

\* Time passes.
LEMMA SessionsTickStep == ASSUME SessionsIInv, SessionsTick PROVE SessionsIInv'
<1>1. now' \in Nat /\ UNCHANGED <<backend, users, refresh, resets, req, cut>>
    BY DEF SessionsIInv, SessionsTypeOK, SessionsTick
<1> QED
    BY <1>1 DEF SessionsIInv, SessionsTypeOK, RowsSound, TokensKnown, Rotates, CutKnown, RowOK,
                LockMatchesCount, ResetEndsSessions

\* The tables are empty at first.
LEMMA SessionsInitIInv == SessionsInit => SessionsIInv
<1> SUFFICES ASSUME SessionsInit PROVE SessionsIInv
    OBVIOUS
<1>1. /\ backend \in Backends /\ users = {} /\ refresh = <<>> /\ resets = <<>> /\ now = 0
      /\ req = [r \in Requests |-> Idle] /\ cut = [e \in Emails |-> 0]
    BY DEF SessionsInit
<1>2. SessionsTypeOK
    BY <1>1, IdleFacts DEF SessionsTypeOK
<1>3. RowsSound /\ TokensKnown
    BY <1>1, IdleFacts DEF RowsSound, TokensKnown
<1>4. CutKnown
  <2>1. Len(refresh) = 0 /\ \A e \in Emails : cut[e] = 0
      BY <1>1
  <2> SUFFICES ASSUME NEW e \in Emails PROVE cut[e] <= Len(refresh)
      BY DEF CutKnown
  <2>2. cut[e] = 0
      BY <2>1
  <2> QED
      BY <2>1, <2>2
<1>5. LockMatchesCount /\ ResetEndsSessions
    BY <1>1 DEF LockMatchesCount, ResetEndsSessions
<1> QED
    BY <1>2, <1>3, <1>4, <1>5 DEF SessionsIInv

\* Every step keeps the invariant.
LEMMA SessionsStep == SessionsIInv /\ [SessionsNext]_sessionsVars => SessionsIInv'
<1> SUFFICES ASSUME SessionsIInv, [SessionsNext]_sessionsVars PROVE SessionsIInv'
    OBVIOUS
<1>1. CASE UNCHANGED sessionsVars
    BY <1>1 DEF sessionsVars, SessionsIInv, SessionsTypeOK, RowsSound, TokensKnown, Rotates,
                CutKnown, RowOK, LockMatchesCount, ResetEndsSessions
<1>2. CASE SessionsNext
    BY <1>2, HandlerStep, ReadStep, WriteStep, SaveStep, LogoutStep, SaveResetStep,
       CommitResetStep, SessionsTickStep
       DEF SessionsNext
<1> QED
    BY <1>1, <1>2

\* The inductive invariant of the accounts holds in every reachable state.
THEOREM SessionsInvariant == SessionsSpec => []SessionsIInv
BY SessionsInitIInv, SessionsStep, PTL DEF SessionsSpec

\* Types of the three tables and of what requests hold.
THEOREM SessionsTypes == SessionsSpec => []SessionsTypeOK
BY SessionsInvariant, PTL DEF SessionsIInv

\* An account is locked exactly when its counter has reached the threshold, although requests
\* write back whole rows they read earlier.
THEOREM LockAlwaysMatches == SessionsSpec => []LockMatchesCount
BY SessionsInvariant, PTL DEF SessionsIInv

\* A password reset ends every session opened before it, also one whose rotation was in flight.
THEOREM ResetsEndSessions == SessionsSpec => []ResetEndsSessions
BY SessionsInvariant, PTL DEF SessionsIInv

-----------------------------------------------------------------------------
(* How many tokens an account has.                                         *)

\* Requests that have picked the sessions to revoke, and what they will revoke.
Saving(e) == {r \in Requests : req[r].step = "save" /\ req[r].row.email = e}
Revokes(Q) == UNION {Rotated(req[r]) : r \in Q}

\* Whichever of the pending transactions commit first, those that follow find room.
SavesFit ==
    \A e \in Emails : \A Q \in SUBSET Saving(e) :
        Cardinality(GetActiveRefreshTokens(e) \ Revokes(Q)) + Cardinality(Q)
            <= MaxSessions + Cardinality(Requests) - 1

\* The tokens a token was exchanged for, and the requests that may still exchange it.
Successors(t) == {i \in DOMAIN refresh : refresh[i].from = t}
Presenting(t) == {r \in Requests : Rotates(req[r]) /\ req[r].tok = t}

\* Every successor was a request that presented the token before the first of them revoked it.
RotationsFit ==
    \A t \in DOMAIN refresh :
        /\ Cardinality(Successors(t)) + Cardinality(Presenting(t)) <= Cardinality(Requests)
        /\ ~refresh[t].revoked => Successors(t) = {}

\* A token is exchanged for a later one.
FromOlder == \A i \in DOMAIN refresh : refresh[i].from < i

\* The inductive invariant of the numbers of tokens: the one of the accounts, and room for what
\* is under way.
TokensIInv == SessionsIInv /\ SavesFit /\ RotationsFit /\ FromOlder

\* A part of a finite set has no more elements.
LEMMA PartCounts ==
    ASSUME NEW A, NEW B, IsFiniteSet(B), A \subseteq B
    PROVE  IsFiniteSet(A) /\ Cardinality(A) \in Nat /\ Cardinality(B) \in Nat /\ Cardinality(A) <= Cardinality(B)
<1>1. IsFiniteSet(A) /\ Cardinality(A) <= Cardinality(B)
    BY FS_Subset
<1> QED
    BY <1>1, FS_CardinalityType

\* One element more.
LEMMA OneMore ==
    ASSUME NEW B, IsFiniteSet(B), NEW x
    PROVE  /\ IsFiniteSet(B \cup {x}) /\ Cardinality(B \cup {x}) \in Nat
           /\ Cardinality(B \cup {x}) <= Cardinality(B) + 1
           /\ x \notin B => Cardinality(B \cup {x}) = Cardinality(B) + 1
BY FS_AddElement, FS_CardinalityType

\* The tokens of a table are finitely many.
LEMMA TokensFinite ==
    ASSUME NEW ts \in Seq(RefreshToken)
    PROVE  IsFiniteSet(DOMAIN ts) /\ DOMAIN ts = 1 .. Len(ts) /\ Len(ts) \in Nat
<1>1. DOMAIN ts = 1 .. Len(ts) /\ Len(ts) \in Nat
    OBVIOUS
<1>2. IsFiniteSet(1 .. Len(ts))
    BY <1>1, FS_Interval
<1> QED
    BY <1>1, <1>2

\* Sizes the invariant speaks of.
LEMMA SizesKnown ==
    /\ IsFiniteSet(Requests) /\ Cardinality(Requests) \in Nat
    /\ MaxSessions \in Nat /\ MaxSessions >= 1
    /\ \A Q \in SUBSET Requests : /\ IsFiniteSet(Q) /\ Cardinality(Q) \in Nat
                                  /\ Cardinality(Q) <= Cardinality(Requests)
    /\ SessionsTypeOK => \A e : /\ IsFiniteSet(GetActiveRefreshTokens(e))
                                /\ GetActiveRefreshTokens(e) \subseteq 1 .. Len(refresh)
    /\ SessionsTypeOK => /\ IsFiniteSet(DOMAIN refresh) /\ DOMAIN refresh = 1 .. Len(refresh)
                         /\ Len(refresh) \in Nat
<1>1. IsFiniteSet(Requests) /\ Cardinality(Requests) \in Nat /\ MaxSessions \in Nat /\ MaxSessions >= 1
    BY SessionsAssumption, FS_CardinalityType
<1>2. \A Q \in SUBSET Requests : /\ IsFiniteSet(Q) /\ Cardinality(Q) \in Nat
                                 /\ Cardinality(Q) <= Cardinality(Requests)
    BY <1>1, PartCounts
<1>3. SessionsTypeOK => /\ IsFiniteSet(DOMAIN refresh) /\ DOMAIN refresh = 1 .. Len(refresh)
                        /\ Len(refresh) \in Nat
    BY TokensFinite DEF SessionsTypeOK
<1>4. SessionsTypeOK => \A e : /\ IsFiniteSet(GetActiveRefreshTokens(e))
                               /\ GetActiveRefreshTokens(e) \subseteq 1 .. Len(refresh)
    BY <1>3, QueryFacts, PartCounts
<1> QED
    BY <1>1, <1>2, <1>3, <1>4

-----------------------------------------------------------------------------
\* Sessions end and pending transactions stop: there is room as before.
LEMMA SavesShrink ==
    ASSUME TokensIInv, \A e \in Emails : GetActiveRefreshTokens(e)' \subseteq GetActiveRefreshTokens(e),
           \A d \in Requests : req'[d].step = "save" => req'[d] = req[d]
    PROVE  SavesFit'
<1> SUFFICES ASSUME NEW e \in Emails, NEW Q \in SUBSET Saving(e)'
             PROVE  Cardinality(GetActiveRefreshTokens(e)' \ Revokes(Q)') + Cardinality(Q)
                      <= MaxSessions + Cardinality(Requests) - 1
    BY DEF SavesFit
<1>1. \A d \in Q : d \in Requests /\ req'[d] = req[d]
    BY DEF Saving
<1>2. Q \in SUBSET Saving(e)
    BY <1>1 DEF Saving
<1>3. Revokes(Q)' = Revokes(Q)
    BY <1>1 DEF Revokes, Rotated
<1> DEFINE A == GetActiveRefreshTokens(e) \ Revokes(Q)
           B == GetActiveRefreshTokens(e)' \ Revokes(Q)'
<1>4. B \subseteq A
    BY <1>3
<1>5. IsFiniteSet(GetActiveRefreshTokens(e))
    BY SizesKnown DEF TokensIInv, SessionsIInv
<1>6. IsFiniteSet(A)
    BY <1>5, FS_Subset
<1>7. Cardinality(A) + Cardinality(Q) <= MaxSessions + Cardinality(Requests) - 1
    BY <1>2 DEF TokensIInv, SavesFit
<1>8. Cardinality(Q) \in Nat
    BY <1>2, SizesKnown DEF Saving
<1> HIDE DEF A, B
<1>9. Cardinality(B) <= Cardinality(A) /\ Cardinality(A) \in Nat /\ Cardinality(B) \in Nat
    BY <1>4, <1>6, PartCounts
<1>10. Cardinality(B) + Cardinality(Q) <= MaxSessions + Cardinality(Requests) - 1
    BY <1>7, <1>8, <1>9, SizesKnown
<1> QED
    BY <1>10 DEF B

\* Tokens are only revoked, and no request presents another one.
LEMMA RotationsShrink ==
    ASSUME TokensIInv, SessionsIInv', Len(refresh') = Len(refresh),
           \A i \in 1 .. Len(refresh) : refresh'[i].from = refresh[i].from
                                        /\ (refresh[i].revoked => refresh'[i].revoked),
           \A d \in Requests : Rotates(req'[d]) /\ req'[d].tok # 0
                                  => Rotates(req[d]) /\ req[d].tok = req'[d].tok
    PROVE  RotationsFit' /\ FromOlder'
<1>1. /\ DOMAIN refresh = 1 .. Len(refresh) /\ DOMAIN refresh' = 1 .. Len(refresh) /\ Len(refresh) \in Nat
      /\ IsFiniteSet(DOMAIN refresh)
    BY TokensFinite DEF TokensIInv, SessionsIInv, SessionsTypeOK
<1>2. FromOlder'
    BY <1>1 DEF TokensIInv, FromOlder
<1>3. ASSUME NEW t \in DOMAIN refresh'
      PROVE  /\ Cardinality(Successors(t)') + Cardinality(Presenting(t)') <= Cardinality(Requests)
             /\ ~refresh'[t].revoked => Successors(t)' = {}
  <2>1. t \in DOMAIN refresh /\ t # 0
      BY <1>1
  <2>2. Successors(t)' = Successors(t)
      BY <1>1 DEF Successors
  <2>3. Presenting(t)' \subseteq Presenting(t) /\ Presenting(t) \in SUBSET Requests
      BY <2>1 DEF Presenting, Rotates
  <2>4. Cardinality(Presenting(t)') <= Cardinality(Presenting(t)) /\ Cardinality(Presenting(t)') \in Nat
        /\ Cardinality(Presenting(t)) \in Nat
      BY <2>3, SizesKnown, PartCounts
  <2>5. Cardinality(Successors(t)) \in Nat
      BY <1>1, PartCounts DEF Successors
  <2>6. Cardinality(Successors(t)) + Cardinality(Presenting(t)) <= Cardinality(Requests)
      BY <2>1 DEF TokensIInv, RotationsFit
  <2>7. ~refresh'[t].revoked => Successors(t) = {}
      BY <1>1, <2>1 DEF TokensIInv, RotationsFit
  <2>8. Cardinality(Successors(t)) + Cardinality(Presenting(t)') <= Cardinality(Requests)
      BY <2>4, <2>5, <2>6, SizesKnown
  <2> QED
      BY <2>2, <2>7, <2>8
<1> QED
    BY <1>2, <1>3 DEF RotationsFit

\* A step that changes no table.
LEMMA TablesStay ==
    ASSUME UNCHANGED Tables
    PROVE  /\ refresh' = refresh /\ \A e : GetActiveRefreshTokens(e)' = GetActiveRefreshTokens(e)
BY DEF Tables, GetActiveRefreshTokens, PgGetActiveRefreshTokens, MgGetActiveRefreshTokens, On

\* Requests that go on with the token they had, or with none, and do not revoke yet.
LEMMA QuietStep ==
    ASSUME TokensIInv, SessionsIInv', Len(refresh') = Len(refresh),
           \A i \in 1 .. Len(refresh) : refresh'[i].from = refresh[i].from
                                        /\ (refresh[i].revoked => refresh'[i].revoked),
           \A e \in Emails : GetActiveRefreshTokens(e)' \subseteq GetActiveRefreshTokens(e),
           \A d \in Requests : Rotates(req'[d]) =>
               \/ req'[d] = req[d]
               \/ /\ req'[d].step # "save"
                  /\ req'[d].tok = 0 \/ (Rotates(req[d]) /\ req[d].tok = req'[d].tok)
    PROVE  TokensIInv'
<1>1. \A d \in Requests : req'[d].step = "save" => req'[d] = req[d]
    BY DEF Rotates
<1>2. \A d \in Requests : Rotates(req'[d]) /\ req'[d].tok # 0 => Rotates(req[d]) /\ req[d].tok = req'[d].tok
    OBVIOUS
<1> QED
    BY <1>1, <1>2, SavesShrink, RotationsShrink DEF TokensIInv

\* The same for a step of one request that revokes no token.
LEMMA QuietRequest ==
    ASSUME TokensIInv, SessionsIInv', UNCHANGED <<backend, refresh, now>>,
           NEW r \in Requests, \A d \in Requests \ {r} : req'[d] = req[d],
           Rotates(req'[r]) => /\ req'[r].step # "save"
                               /\ req'[r].tok = 0 \/ (Rotates(req[r]) /\ req[r].tok = req'[r].tok)
    PROVE  TokensIInv'
<1>1. \A e \in Emails : GetActiveRefreshTokens(e)' \subseteq GetActiveRefreshTokens(e)
    BY DEF GetActiveRefreshTokens, PgGetActiveRefreshTokens, MgGetActiveRefreshTokens, On
<1> QED
    BY <1>1, QuietStep

\* A request that stops, or was idle, presents and revokes nothing any more.
LEMMA QuietDone ==
    ASSUME TokensIInv, SessionsIInv', UNCHANGED <<backend, refresh, now>>, NEW r \in Requests, Done(r)
    PROVE  TokensIInv'
<1>1. req'[r] = Idle /\ \A d \in Requests \ {r} : req'[d] = req[d]
    BY DEF Done, TokensIInv, SessionsIInv, SessionsTypeOK
<1> QED
    BY <1>1, IdleFacts, QuietRequest

\* A handler that presents no refresh token.
LEMMA QuietHandlers ==
    ASSUME TokensIInv, SessionsIInv', NEW r \in Requests,
           \/ HandleRegister(r) \/ HandleLogin(r) \/ HandleRequestPasswordReset(r)
           \/ HandleConfirmPasswordReset(r) \/ OIDCAuthMiddleware(r)
    PROVE  TokensIInv'
<1>1. req \in [Requests -> Request] /\ (UNCHANGED Tables => UNCHANGED <<backend, refresh, now>>)
    BY DEF TokensIInv, SessionsIInv, SessionsTypeOK, Tables
<1>2. \A step, row : At(step, row).step = step /\ At(step, row).tok = 0
    BY DEF At
<1>3. ASSUME NEW step, NEW row, step # "save", req' = [req EXCEPT ![r] = At(step, row)], UNCHANGED Tables
      PROVE  TokensIInv'
  <2>1. req'[r] = At(step, row) /\ \A d \in Requests \ {r} : req'[d] = req[d]
      BY <1>1, <1>3
  <2> QED
      BY <1>1, <1>2, <1>3, <2>1, QuietRequest
<1>4. CASE HandleRegister(r)
    BY <1>3, <1>4 DEF HandleRegister, Register, Goto
<1>5. CASE HandleLogin(r)
    BY <1>3, <1>5 DEF HandleLogin, Login, Goto
<1>6. CASE HandleRequestPasswordReset(r)
    BY <1>3, <1>6 DEF HandleRequestPasswordReset, RequestPasswordReset, Goto
<1>7. CASE OIDCAuthMiddleware(r)
    BY <1>3, <1>7 DEF OIDCAuthMiddleware, SyncOIDCUser, Goto
<1>8. CASE HandleConfirmPasswordReset(r)
  <2>1. PICK t, row : /\ req' = [req EXCEPT ![r] = [At("confirm", row) EXCEPT !.tok = t]]
                      /\ UNCHANGED Tables
      BY <1>8 DEF HandleConfirmPasswordReset, ConfirmPasswordReset, Goto
  <2> DEFINE q == [At("confirm", row) EXCEPT !.tok = t]
  <2>2. q.step = "confirm"
      BY DEF At
  <2> HIDE DEF q
  <2>3. req'[r] = q /\ \A d \in Requests \ {r} : req'[d] = req[d]
      BY <1>1, <2>1 DEF q
  <2> QED
      BY <1>1, <2>1, <2>2, <2>3, QuietRequest DEF Rotates
<1> QED
    BY <1>4, <1>5, <1>6, <1>7, <1>8

\* A refresh token is presented: it is not revoked, so nobody has exchanged it yet.
LEMMA RefreshFits ==
    ASSUME TokensIInv, SessionsIInv', NEW r \in Requests, HandleRefresh(r)
    PROVE  TokensIInv'
<1>1. PICK t \in DOMAIN refresh : RefreshSession(r, t)
    BY DEF HandleRefresh
<1>2. PICK u : /\ UNCHANGED Tables
               /\ req' = [req EXCEPT ![r] = [At("enforce", u) EXCEPT !.tok = t]]
    BY <1>1 DEF RefreshSession, Goto
<1>3. ~refresh[t].revoked
    BY <1>1, QueryFacts DEF RefreshSession
<1> DEFINE q == [At("enforce", u) EXCEPT !.tok = t]
<1>4. q.step = "enforce" /\ q.tok = t
    BY DEF At
<1> HIDE DEF q
<1>5. req'[r] = q /\ \A d \in Requests \ {r} : req'[d] = req[d]
    BY <1>2 DEF q, TokensIInv, SessionsIInv, SessionsTypeOK
<1>6. refresh' = refresh /\ \A e : GetActiveRefreshTokens(e)' = GetActiveRefreshTokens(e)
    BY <1>2, TablesStay
<1>7. SavesFit'
  <2>1. \A d \in Requests : req'[d].step = "save" => req'[d] = req[d]
      BY <1>4, <1>5
  <2> QED
      BY <1>6, <2>1, SavesShrink
<1>8. FromOlder'
    BY <1>6 DEF TokensIInv, FromOlder
<1>9. ASSUME NEW k \in DOMAIN refresh
      PROVE  /\ Cardinality(Successors(k)') + Cardinality(Presenting(k)') <= Cardinality(Requests)
             /\ ~refresh[k].revoked => Successors(k)' = {}
  <2>1. Successors(k)' = Successors(k)
      BY <1>6 DEF Successors
  <2>2. /\ Cardinality(Successors(k)) + Cardinality(Presenting(k)) <= Cardinality(Requests)
        /\ ~refresh[k].revoked => Successors(k) = {}
      BY DEF TokensIInv, RotationsFit
  <2>3. CASE k = t
    <3>1. Successors(k)' = {} /\ Cardinality(Successors(k)') = 0
        BY <1>3, <2>1, <2>2, <2>3, FS_EmptySet
    <3>2. Cardinality(Presenting(k)') <= Cardinality(Requests) /\ Cardinality(Presenting(k)') \in Nat
        BY SizesKnown DEF Presenting
    <3> QED
        BY <3>1, <3>2
  <2>4. CASE k # t
    <3>1. Presenting(k)' \subseteq Presenting(k) /\ Presenting(k) \in SUBSET Requests
        BY <1>4, <1>5, <2>4 DEF Presenting
    <3>2. /\ Cardinality(Presenting(k)') <= Cardinality(Presenting(k))
          /\ Cardinality(Presenting(k)') \in Nat /\ Cardinality(Presenting(k)) \in Nat
        BY <3>1, SizesKnown, PartCounts
    <3>3. Cardinality(Successors(k)) \in Nat
        BY SizesKnown, PartCounts DEF Successors, TokensIInv, SessionsIInv
    <3>4. Cardinality(Successors(k)) + Cardinality(Presenting(k)') <= Cardinality(Requests)
        BY <2>2, <3>2, <3>3, SizesKnown
    <3> QED
        BY <2>1, <2>2, <3>4
  <2> QED
      BY <2>3, <2>4
<1>10. RotationsFit'
    BY <1>6, <1>9 DEF RotationsFit
<1> QED
    BY <1>7, <1>8, <1>10 DEF TokensIInv

\* A transaction picks the oldest sessions: when it commits, there is room for its own and for one
\* of every other request.
LEMMA EnforceFits ==
    ASSUME TokensIInv, SessionsIInv', NEW r \in Requests, EnforceMaxSessions(r)
    PROVE  TokensIInv'
<1> DEFINE e0 == req[r].row.email
<1>0. PICK drop \in Oldest(GetActiveRefreshTokens(e0)) :
          /\ req' = [req EXCEPT ![r].step = "save", ![r].drop = drop,
                                ![r].stale = req[r].tok # 0 /\ refresh[req[r].tok].revoked]
          /\ UNCHANGED Tables
    BY DEF EnforceMaxSessions
<1> DEFINE q == [req[r] EXCEPT !.step = "save", !.drop = drop,
                               !.stale = req[r].tok # 0 /\ refresh[req[r].tok].revoked]
<1>1. req[r] \in Request /\ req \in [Requests -> Request] /\ req[r].step = "enforce"
    BY DEF TokensIInv, SessionsIInv, SessionsTypeOK, EnforceMaxSessions
<1>2. UNCHANGED Tables /\ req' = [req EXCEPT ![r] = q]
    BY <1>0, <1>1
<1>3. /\ q.step = "save" /\ q.tok = req[r].tok /\ q.row = req[r].row
      /\ q.drop = drop
  <2> DEFINE stale == req[r].tok # 0 /\ refresh[req[r].tok].revoked
  <2>1. q = [req[r] EXCEPT !.step = "save", !.drop = drop, !.stale = stale]
      OBVIOUS
  <2> HIDE DEF q, stale
  <2>2. q.step = "save" /\ q.tok = req[r].tok /\ q.row = req[r].row /\ q.drop = drop
      BY <1>1, <2>1 DEF Request
  <2> QED
      BY <2>2
<1> HIDE DEF q
<1>4. req'[r] = q /\ \A d \in Requests \ {r} : req'[d] = req[d]
    BY <1>1, <1>2
<1>5. refresh' = refresh /\ \A e : GetActiveRefreshTokens(e)' = GetActiveRefreshTokens(e)
    BY <1>2, TablesStay
<1>6. RotationsFit' /\ FromOlder'
  <2>1. \A d \in Requests : Rotates(req'[d]) /\ req'[d].tok # 0 => Rotates(req[d]) /\ req[d].tok = req'[d].tok
      BY <1>1, <1>3, <1>4 DEF Rotates
  <2> QED
      BY <1>5, <2>1, RotationsShrink
<1>7. ASSUME NEW e \in Emails, NEW Q \in SUBSET Saving(e)'
      PROVE  Cardinality(GetActiveRefreshTokens(e) \ Revokes(Q)') + Cardinality(Q)
                <= MaxSessions + Cardinality(Requests) - 1
  <2> DEFINE A == GetActiveRefreshTokens(e)
  <2>0. Q \in SUBSET Requests /\ Cardinality(Q) \in Nat /\ Cardinality(Q) <= Cardinality(Requests)
      BY SizesKnown DEF Saving
  <2>1. IsFiniteSet(A) /\ A \subseteq Nat
    <3>1. \A i \in 1 .. Len(refresh) : i \in Nat
        OBVIOUS
    <3> QED
        BY <3>1, SizesKnown DEF TokensIInv, SessionsIInv
  <2>2. CASE r \in Q
    <3>1. e = e0
        BY <1>3, <1>4, <2>2 DEF Saving
    <3>2. drop \subseteq Revokes(Q)'
        BY <1>3, <1>4, <2>2, <3>1 DEF Revokes, Rotated
    <3>3. A \ Revokes(Q)' \subseteq A \ drop /\ IsFiniteSet(A \ drop)
        BY <2>1, <3>2, FS_Subset
    <3>4. Cardinality(A \ drop) <= MaxSessions - 1
        BY <1>0, <3>1 DEF Oldest, Excess
    <3>5. /\ Cardinality(A \ Revokes(Q)') <= Cardinality(A \ drop)
          /\ Cardinality(A \ Revokes(Q)') \in Nat /\ Cardinality(A \ drop) \in Nat
        BY <3>3, PartCounts
    <3> QED
        BY <2>0, <3>4, <3>5, SizesKnown
  <2>3. CASE r \notin Q
    <3>1. \A d \in Q : req'[d] = req[d] /\ d \in Requests
        BY <1>4, <2>0, <2>3
    <3>2. Q \in SUBSET Saving(e)
        BY <3>1 DEF Saving
    <3>3. Revokes(Q)' = Revokes(Q)
        BY <3>1 DEF Revokes, Rotated
    <3> QED
        BY <3>2, <3>3 DEF TokensIInv, SavesFit
  <2> QED
      BY <2>2, <2>3
<1>8. SavesFit'
    BY <1>5, <1>7 DEF SavesFit
<1> QED
    BY <1>6, <1>8 DEF TokensIInv

\* What a commit of a login or a refresh leaves of the table.
LEMMA SavedTokens ==
    ASSUME SessionsIInv, NEW r \in Requests, SaveSession(r), ~(UNCHANGED refresh /\ Then(r, "enforce"))
    PROVE  /\ Done(r) /\ Len(refresh') = Len(refresh) + 1 /\ UNCHANGED <<backend, now>>
           /\ \A i \in 1 .. Len(refresh) :
                /\ refresh'[i].user = refresh[i].user /\ refresh'[i].from = refresh[i].from
                /\ refresh'[i].expires = refresh[i].expires
                /\ refresh[i].revoked => refresh'[i].revoked
                /\ i \in Rotated(req[r]) => refresh'[i].revoked
           /\ refresh'[Len(refresh) + 1].user = req[r].row.email
           /\ refresh'[Len(refresh) + 1].from = req[r].tok
<1> DEFINE q == req[r]
           kept == [i \in DOMAIN refresh |->
                       IF i \in Rotated(q) THEN RevokeRefreshToken(refresh, i)[i] ELSE refresh[i]]
           new == [user |-> q.row.email, expires |-> q.since + RefreshFor,
                   revoked |-> FALSE, from |-> q.tok]
<1>1. refresh' = SaveRefreshToken(kept, new) /\ Done(r) /\ UNCHANGED <<backend, now>>
    BY DEF SaveSession
<1>2. refresh \in Seq(RefreshToken) /\ DOMAIN refresh = 1 .. Len(refresh) /\ Len(refresh) \in Nat
    BY DEF SessionsIInv, SessionsTypeOK
<1>3. ASSUME NEW i \in 1 .. Len(refresh)
      PROVE  /\ kept[i] \in RefreshToken
             /\ kept[i].user = refresh[i].user /\ kept[i].from = refresh[i].from
             /\ kept[i].expires = refresh[i].expires
             /\ refresh[i].revoked => kept[i].revoked
             /\ i \in Rotated(q) => kept[i].revoked
  <2> DEFINE rs == RevokeRefreshToken(refresh, i)
  <2>1. refresh[i] \in RefreshToken /\ i \in DOMAIN refresh
      BY <1>2
  <2>2. /\ rs \in Seq(RefreshToken) /\ Len(rs) = Len(refresh)
        /\ rs[i].user = refresh[i].user /\ rs[i].from = refresh[i].from
        /\ rs[i].expires = refresh[i].expires /\ rs[i].revoked
      BY <1>2, RevokeFacts
  <2>3. rs[i] \in RefreshToken
    <3> HIDE DEF rs
    <3> QED
        BY <1>2, <2>2
  <2>4. kept[i] = IF i \in Rotated(q) THEN rs[i] ELSE refresh[i]
      BY <2>1
  <2> HIDE DEF rs, kept
  <2> QED
      BY <2>1, <2>2, <2>3, <2>4
<1>4. kept \in Seq(RefreshToken) /\ Len(kept) = Len(refresh)
  <2>1. kept = [i \in DOMAIN refresh |-> kept[i]]
      OBVIOUS
  <2> HIDE DEF kept
  <2> QED
      BY <1>2, <1>3, <2>1, Rebuilt
<1>5. refresh' = Append(kept, new)
    BY <1>1 DEF SaveRefreshToken, PgSaveRefreshToken, MgSaveRefreshToken, On
<1>6. new.user = q.row.email /\ new.from = q.tok /\ new \in RefreshToken
  <2>1. now \in Nat /\ q \in Request
      BY DEF SessionsIInv, SessionsTypeOK
  <2> QED
      BY <2>1, SessionsAssumption DEF RefreshToken, Request, Row
<1> HIDE DEF kept, new
<1>7. /\ Len(refresh') = Len(refresh) + 1 /\ refresh'[Len(refresh) + 1] = new
      /\ \A i \in 1 .. Len(refresh) : refresh'[i] = kept[i]
  <2>1. ASSUME NEW ts \in Seq(RefreshToken), NEW k \in RefreshToken
        PROVE  /\ Len(Append(ts, k)) = Len(ts) + 1 /\ Append(ts, k)[Len(ts) + 1] = k
               /\ \A i \in 1 .. Len(ts) : Append(ts, k)[i] = ts[i]
      OBVIOUS
  <2> QED
      BY <1>4, <1>5, <1>6, <2>1
<1> QED
    BY <1>1, <1>3, <1>6, <1>7

\* A commit uses the room its request has kept, and the token it presented has one successor more
\* and one request less.
LEMMA CommitFits ==
    ASSUME TokensIInv, SessionsIInv', NEW r \in Requests, SaveSession(r)
    PROVE  TokensIInv'
<1> DEFINE n == Len(refresh)
           m == Len(refresh) + 1
           e0 == req[r].row.email
           t0 == req[r].tok
<1>1. CASE UNCHANGED refresh /\ Then(r, "enforce")
  <2>1. req[r].step = "save" /\ req[r] \in Request /\ req \in [Requests -> Request]
        /\ UNCHANGED <<backend, refresh, now>>
      BY <1>1 DEF SaveSession, TokensIInv, SessionsIInv, SessionsTypeOK
  <2>2. /\ req'[r] = [req[r] EXCEPT !.step = "enforce"]
        /\ \A d \in Requests \ {r} : req'[d] = req[d]
      BY <1>1, <2>1 DEF Then
  <2>3. req'[r].step = "enforce" /\ req'[r].tok = req[r].tok
      BY <2>1, <2>2 DEF Request
  <2> QED
      BY <2>1, <2>2, <2>3, QuietRequest DEF Rotates
<1>2. CASE ~(UNCHANGED refresh /\ Then(r, "enforce"))
  <2>1. /\ Done(r) /\ Len(refresh') = m /\ UNCHANGED <<backend, now>>
        /\ \A i \in 1 .. n :
             /\ refresh'[i].user = refresh[i].user /\ refresh'[i].from = refresh[i].from
             /\ refresh'[i].expires = refresh[i].expires
             /\ refresh[i].revoked => refresh'[i].revoked
             /\ i \in Rotated(req[r]) => refresh'[i].revoked
        /\ refresh'[m].user = e0 /\ refresh'[m].from = t0
      BY <1>2, SavedTokens DEF TokensIInv
  <2>2. /\ DOMAIN refresh = 1 .. n /\ DOMAIN refresh' = 1 .. m /\ n \in Nat /\ m \in Nat
        /\ IsFiniteSet(DOMAIN refresh) /\ IsFiniteSet(DOMAIN refresh')
      BY <2>1, TokensFinite DEF TokensIInv, SessionsIInv, SessionsTypeOK
  <2>3. req[r].step = "save" /\ Rotates(req[r])
      BY DEF SaveSession, Rotates
  <2>4. t0 \in 0 .. n
      BY <2>3 DEF TokensIInv, SessionsIInv, TokensKnown
  <2>5. \A d \in Requests : Rotates(req'[d]) => d # r /\ Rotates(req[d]) /\ req'[d] = req[d]
    <3>1. req'[r] = Idle
        BY <2>1 DEF Done, TokensIInv, SessionsIInv, SessionsTypeOK
    <3>2. \A d \in Requests : Rotates(req'[d]) => Rotates(req[d]) /\ req'[d] = req[d]
        BY <2>1, DoneFacts DEF TokensIInv
    <3> QED
        BY <3>1, <3>2, IdleFacts
  <2>6. ASSUME NEW e \in Emails
        PROVE  /\ GetActiveRefreshTokens(e)' \subseteq (GetActiveRefreshTokens(e) \ Rotated(req[r])) \cup {m}
               /\ e # e0 => GetActiveRefreshTokens(e)' \subseteq GetActiveRefreshTokens(e)
    <3>1. /\ GetActiveRefreshTokens(e) = {i \in DOMAIN refresh : refresh[i].user = e /\ ~refresh[i].revoked
                                                                 /\ refresh[i].expires > now}
          /\ GetActiveRefreshTokens(e)' = {i \in DOMAIN refresh' : refresh'[i].user = e /\ ~refresh'[i].revoked
                                                                   /\ refresh'[i].expires > now'}
        BY DEF GetActiveRefreshTokens, PgGetActiveRefreshTokens, MgGetActiveRefreshTokens, On
    <3>2. \A i \in 1 .. m : i \in 1 .. n \/ i = m
        BY <2>2
    <3> HIDE DEF n, m, e0
    <3> QED
        BY <2>1, <2>2, <3>1, <3>2
  <2> HIDE DEF n, m, e0, t0
  <2>7. ASSUME NEW e \in Emails, NEW Q \in SUBSET Saving(e)'
        PROVE  Cardinality(GetActiveRefreshTokens(e)' \ Revokes(Q)') + Cardinality(Q)
                  <= MaxSessions + Cardinality(Requests) - 1
    <3> DEFINE A == GetActiveRefreshTokens(e)
               B == GetActiveRefreshTokens(e)' \ Revokes(Q)'
    <3>1. \A d \in Q : d \in Requests /\ d # r /\ req'[d] = req[d]
        BY <2>5 DEF Saving, Rotates
    <3>2. Q \in SUBSET Saving(e) /\ r \notin Q /\ IsFiniteSet(Q) /\ Cardinality(Q) \in Nat
        BY <3>1, SizesKnown DEF Saving
    <3>3. Revokes(Q)' = Revokes(Q)
        BY <3>1 DEF Revokes, Rotated
    <3>4. IsFiniteSet(A)
        BY SizesKnown DEF TokensIInv, SessionsIInv
    <3>5. CASE e = e0
      <4> DEFINE P == Q \cup {r}
                 C == A \ Revokes(P)
      <4>1. P \in SUBSET Saving(e) /\ Cardinality(P) = Cardinality(Q) + 1
          BY <2>3, <3>2, <3>5, OneMore DEF Saving, e0
      <4>2. Revokes(P) = Revokes(Q) \cup Rotated(req[r])
          BY DEF Revokes
      <4>3. B \subseteq C \cup {m}
          BY <2>6, <3>3, <4>2
      <4>4. IsFiniteSet(C)
          BY <3>4, FS_Subset
      <4>5. Cardinality(C) + Cardinality(P) <= MaxSessions + Cardinality(Requests) - 1
          BY <4>1 DEF TokensIInv, SavesFit
      <4> HIDE DEF B, C, P
      <4>6. Cardinality(C \cup {m}) <= Cardinality(C) + 1 /\ Cardinality(C) \in Nat /\ IsFiniteSet(C \cup {m})
          BY <4>4, OneMore, FS_CardinalityType
      <4>7. Cardinality(B) <= Cardinality(C \cup {m}) /\ Cardinality(B) \in Nat /\ Cardinality(C \cup {m}) \in Nat
          BY <4>3, <4>6, PartCounts
      <4>8. Cardinality(B) + Cardinality(Q) <= MaxSessions + Cardinality(Requests) - 1
          BY <3>2, <4>1, <4>5, <4>6, <4>7, SizesKnown
      <4> QED
          BY <4>8 DEF B
    <3>6. CASE e # e0
      <4> DEFINE C == A \ Revokes(Q)
      <4>1. B \subseteq C
          BY <2>6, <3>3, <3>6
      <4>2. IsFiniteSet(C)
          BY <3>4, FS_Subset
      <4>3. Cardinality(C) + Cardinality(Q) <= MaxSessions + Cardinality(Requests) - 1
          BY <3>2 DEF TokensIInv, SavesFit
      <4> HIDE DEF B, C
      <4>4. Cardinality(B) <= Cardinality(C) /\ Cardinality(B) \in Nat /\ Cardinality(C) \in Nat
          BY <4>1, <4>2, PartCounts
      <4>5. Cardinality(B) + Cardinality(Q) <= MaxSessions + Cardinality(Requests) - 1
          BY <3>2, <4>3, <4>4, SizesKnown
      <4> QED
          BY <4>5 DEF B
    <3> QED
        BY <3>5, <3>6
  <2>8. \A i \in 1 .. n : refresh[i].from < i /\ refresh[i].from \in Nat
    <3>1. \A i \in 1 .. n : refresh[i] \in RefreshToken
        BY <2>2 DEF TokensIInv, SessionsIInv, SessionsTypeOK
    <3> QED
        BY <2>2, <3>1 DEF TokensIInv, FromOlder, RefreshToken
  <2>9. m = n + 1 /\ t0 < m /\ t0 # m
      BY <2>2, <2>4 DEF m, n
  <2>10. FromOlder'
    <3> SUFFICES ASSUME NEW i \in 1 .. m PROVE refresh'[i].from < i
        BY <2>2 DEF FromOlder
    <3>1. CASE i \in 1 .. n
        BY <2>1, <2>8, <3>1
    <3>2. CASE i = m
        BY <2>1, <2>9, <3>2
    <3> QED
        BY <2>2, <2>9, <3>1, <3>2
  <2>11. ASSUME NEW t \in 1 .. m
         PROVE  /\ Cardinality(Successors(t)') + Cardinality(Presenting(t)') <= Cardinality(Requests)
                /\ ~refresh'[t].revoked => Successors(t)' = {}
    <3>1. \A d \in Presenting(t)' : d \in Presenting(t) \ {r}
        BY <2>5 DEF Presenting
    <3>2. \A i \in Successors(t)' : (i \in Successors(t) /\ i \in 1 .. n) \/ (i = m /\ t = t0)
      <4>1. \A i \in 1 .. m : i \in 1 .. n \/ i = m
          BY <2>2, <2>9
      <4> QED
          BY <2>1, <2>2, <4>1 DEF Successors
    <3>3. CASE t = m
      <4>1. Successors(t)' = {}
        <5>1. \A i \in 1 .. n : refresh[i].from # m
            BY <2>2, <2>8, <2>9
        <5>2. \A i \in Successors(t) : i \in 1 .. n /\ refresh[i].from = t
            BY <2>2 DEF Successors
        <5> QED
            BY <2>9, <3>2, <3>3, <5>1, <5>2
      <4>2. Presenting(t)' = {}
        <5>1. \A d \in Requests : Rotates(req[d]) => req[d].tok # m
            BY <2>2, <2>9 DEF TokensIInv, SessionsIInv, TokensKnown, n
        <5> QED
            BY <3>1, <3>3, <5>1 DEF Presenting
      <4>3. Cardinality({}) = 0
          BY FS_EmptySet
      <4> QED
          BY <4>1, <4>2, <4>3, SizesKnown
    <3>4. CASE t \in 1 .. n
      <4>1. /\ Cardinality(Successors(t)) + Cardinality(Presenting(t)) <= Cardinality(Requests)
            /\ ~refresh[t].revoked => Successors(t) = {}
          BY <2>2, <3>4 DEF TokensIInv, RotationsFit
      <4>2. /\ IsFiniteSet(Successors(t)) /\ Cardinality(Successors(t)) \in Nat
            /\ IsFiniteSet(Presenting(t)) /\ Cardinality(Presenting(t)) \in Nat
        <5>1. Successors(t) \subseteq DOMAIN refresh /\ Presenting(t) \subseteq Requests
            BY DEF Successors, Presenting
        <5> QED
            BY <2>2, <5>1, SizesKnown, PartCounts
      <4>3. CASE t = t0
        <5>1. r \in Presenting(t) /\ t \in Rotated(req[r])
            BY <2>2, <2>3, <3>4, <4>3 DEF Presenting, Rotated, t0
        <5>2. Cardinality(Presenting(t) \ {r}) = Cardinality(Presenting(t)) - 1 /\ IsFiniteSet(Presenting(t) \ {r})
            BY <4>2, <5>1, FS_RemoveElement
        <5>3. Presenting(t)' \subseteq Presenting(t) \ {r}
            BY <3>1
        <5>4. Cardinality(Presenting(t)') <= Cardinality(Presenting(t)) - 1 /\ Cardinality(Presenting(t)') \in Nat
            BY <5>2, <5>3, PartCounts
        <5>5. Successors(t)' \subseteq Successors(t) \cup {m}
            BY <3>2
        <5>6. IsFiniteSet(Successors(t) \cup {m}) /\ Cardinality(Successors(t) \cup {m}) <= Cardinality(Successors(t)) + 1
            BY <4>2, OneMore
        <5>7. /\ Cardinality(Successors(t)') <= Cardinality(Successors(t) \cup {m})
              /\ Cardinality(Successors(t)') \in Nat /\ Cardinality(Successors(t) \cup {m}) \in Nat
            BY <5>5, <5>6, PartCounts
        <5>8. Cardinality(Successors(t)') + Cardinality(Presenting(t)') <= Cardinality(Requests)
            BY <4>1, <4>2, <5>4, <5>6, <5>7, SizesKnown
        <5>9. refresh'[t].revoked
            BY <2>1, <3>4, <5>1
        <5> QED
            BY <5>8, <5>9
      <4>4. CASE t # t0
        <5>1. Successors(t)' \subseteq Successors(t) /\ Presenting(t)' \subseteq Presenting(t)
            BY <3>1, <3>2, <4>4
        <5>2. /\ Cardinality(Successors(t)') <= Cardinality(Successors(t)) /\ Cardinality(Successors(t)') \in Nat
              /\ Cardinality(Presenting(t)') <= Cardinality(Presenting(t)) /\ Cardinality(Presenting(t)') \in Nat
            BY <4>2, <5>1, PartCounts
        <5>3. Cardinality(Successors(t)') + Cardinality(Presenting(t)') <= Cardinality(Requests)
            BY <4>1, <4>2, <5>2, SizesKnown
        <5>4. ~refresh'[t].revoked => Successors(t)' = {}
            BY <2>1, <3>4, <4>1, <5>1
        <5> QED
            BY <5>3, <5>4
      <4> QED
          BY <4>3, <4>4
    <3> QED
        BY <2>2, <2>9, <3>3, <3>4
  <2>12. SavesFit' /\ RotationsFit'
      BY <2>2, <2>7, <2>11 DEF SavesFit, RotationsFit
  <2> QED
      BY <2>10, <2>12 DEF TokensIInv
<1> QED
    BY <1>1, <1>2

\* The steps that neither present a refresh token nor store one.
LEMMA OtherFits ==
    ASSUME TokensIInv, SessionsIInv', NEW r \in Requests,
           \/ CreateUser(r) \/ WriteUser(r) \/ LinkOrProvision(r)
           \/ InvalidateUserResetTokens(r) \/ SavePasswordReset(r) \/ FailRequest(r)
    PROVE  TokensIInv'
<1>1. req \in [Requests -> Request] /\ req[r] \in Request
    BY DEF TokensIInv, SessionsIInv, SessionsTypeOK
<1>2. UNCHANGED <<backend, refresh, now>>
    BY DEF CreateUser, WriteUser, LinkOrProvision, InvalidateUserResetTokens, SavePasswordReset, FailRequest, Tables
<1>3. CASE Done(r)
    BY <1>2, <1>3, QuietDone
<1>4. ASSUME NEW step, Then(r, step),
                \/ step = "enforce" /\ req[r].step = "unlock"
                \/ step \in {"create", "invalidate"}
      PROVE  TokensIInv'
  <2>1. req'[r] = [req[r] EXCEPT !.step = step] /\ \A d \in Requests \ {r} : req'[d] = req[d]
      BY <1>1, <1>4 DEF Then
  <2>2. req'[r].step = step /\ req'[r].tok = req[r].tok
      BY <1>1, <2>1 DEF Request
  <2> QED
      BY <1>2, <1>4, <2>1, <2>2, QuietRequest DEF Rotates
<1>5. CASE CreateUser(r) \/ FailRequest(r)
    BY <1>3, <1>5 DEF CreateUser, FailRequest
<1>6. CASE WriteUser(r)
    BY <1>3, <1>4, <1>6 DEF WriteUser
<1>7. CASE SavePasswordReset(r)
    BY <1>3, <1>4, <1>7 DEF SavePasswordReset
<1>8. CASE LinkOrProvision(r)
  <2>1. CASE Then(r, "create")
      BY <1>4, <2>1
  <2>2. CASE ~Then(r, "create")
    <3>1. PICK row : req' = [req EXCEPT ![r] = At("link", row)]
        BY <1>8, <2>2 DEF LinkOrProvision
    <3>2. req'[r] = At("link", row) /\ \A d \in Requests \ {r} : req'[d] = req[d]
        BY <1>1, <3>1
    <3>3. req'[r].step = "link"
        BY <3>2 DEF At
    <3> QED
        BY <1>2, <3>2, <3>3, QuietRequest DEF Rotates
  <2> QED
      BY <2>1, <2>2
<1>9. CASE InvalidateUserResetTokens(r)
  <2> DEFINE drop == UnusedResetTokens(req[r].row.email)
  <2>1. req' = [req EXCEPT ![r].step = "saveReset", ![r].drop = drop]
      BY <1>9 DEF InvalidateUserResetTokens
  <2> HIDE DEF drop
  <2>2. /\ req'[r] = [req[r] EXCEPT !.step = "saveReset", !.drop = drop]
        /\ \A d \in Requests \ {r} : req'[d] = req[d]
      BY <1>1, <2>1
  <2>3. req'[r].step = "saveReset"
      BY <1>1, <2>2 DEF Request
  <2> QED
      BY <1>2, <2>2, <2>3, QuietRequest DEF Rotates
<1> QED
    BY <1>5, <1>6, <1>7, <1>8, <1>9

\* A logout, a password reset and time only end sessions.
LEMMA EndsFit ==
    ASSUME TokensIInv, SessionsIInv',
           HandleLogout \/ SessionsTick \/ (\E r \in Requests : CommitPasswordReset(r))
    PROVE  TokensIInv'
<1>1. refresh \in Seq(RefreshToken) /\ DOMAIN refresh = 1 .. Len(refresh) /\ Len(refresh) \in Nat
    BY DEF TokensIInv, SessionsIInv, SessionsTypeOK
<1>2. refresh' \in Seq(RefreshToken) /\ DOMAIN refresh' = 1 .. Len(refresh')
    BY DEF SessionsIInv, SessionsTypeOK
<1>3. ASSUME Len(refresh') = Len(refresh), now \in Nat, now' \in Nat, now <= now',
             \A i \in 1 .. Len(refresh) : /\ refresh'[i].user = refresh[i].user
                                          /\ refresh'[i].expires = refresh[i].expires
                                          /\ refresh[i].revoked => refresh'[i].revoked
      PROVE  \A e : GetActiveRefreshTokens(e)' \subseteq GetActiveRefreshTokens(e)
  <2> SUFFICES ASSUME NEW e, NEW i \in GetActiveRefreshTokens(e)' PROVE i \in GetActiveRefreshTokens(e)
      OBVIOUS
  <2>1. i \in DOMAIN refresh' /\ refresh'[i].user = e /\ ~refresh'[i].revoked /\ refresh'[i].expires > now'
      BY DEF GetActiveRefreshTokens, PgGetActiveRefreshTokens, MgGetActiveRefreshTokens, On
  <2>2. i \in DOMAIN refresh /\ refresh[i].user = e /\ ~refresh[i].revoked /\ refresh[i].expires > now'
      BY <1>1, <1>2, <1>3, <2>1
  <2>3. refresh[i].expires \in Nat
    <3>1. refresh[i] \in RefreshToken
        BY <1>1, <2>2
    <3> QED
        BY <3>1 DEF RefreshToken
  <2>4. refresh[i].expires > now
      BY <1>3, <2>2, <2>3
  <2> QED
      BY <2>2, <2>4 DEF GetActiveRefreshTokens, PgGetActiveRefreshTokens, MgGetActiveRefreshTokens, On
<1>4. CASE HandleLogout
  <2>1. PICK t \in DOMAIN refresh : refresh' = RevokeRefreshToken(refresh, t) /\ UNCHANGED <<now, req>>
      BY <1>4 DEF HandleLogout, Logout
  <2>2. /\ Len(refresh') = Len(refresh)
        /\ \A i \in 1 .. Len(refresh) :
             /\ refresh'[i].user = refresh[i].user /\ refresh'[i].from = refresh[i].from
             /\ refresh'[i].expires = refresh[i].expires
             /\ refresh[i].revoked => refresh'[i].revoked
      BY <1>1, <2>1, RevokeFacts
  <2>3. now \in Nat /\ now' \in Nat /\ now <= now'
      BY <2>1 DEF TokensIInv, SessionsIInv, SessionsTypeOK
  <2>4. \A d \in Requests : req'[d] = req[d]
      BY <2>1
  <2> QED
      BY <1>3, <2>2, <2>3, <2>4, QuietStep
<1>5. CASE SessionsTick
  <2>1. now \in Nat /\ now' \in Nat /\ now <= now' /\ UNCHANGED <<refresh, req>>
      BY <1>5 DEF SessionsTick, TokensIInv, SessionsIInv, SessionsTypeOK
  <2> QED
      BY <1>3, <2>1, QuietStep
<1>6. ASSUME NEW r \in Requests, CommitPasswordReset(r) PROVE TokensIInv'
  <2> DEFINE e0 == req[r].row.email
  <2>1. refresh' = RevokeAllUserTokens(refresh, e0) /\ UNCHANGED now /\ Done(r)
      BY <1>6 DEF CommitPasswordReset
  <2> HIDE DEF e0
  <2>2. /\ Len(refresh') = Len(refresh)
        /\ \A i \in 1 .. Len(refresh) :
             /\ refresh'[i].user = refresh[i].user /\ refresh'[i].from = refresh[i].from
             /\ refresh'[i].expires = refresh[i].expires
             /\ refresh[i].revoked => refresh'[i].revoked
      BY <1>1, <2>1, RevokeAllFacts
  <2>3. now \in Nat /\ now' \in Nat /\ now <= now'
      BY <2>1 DEF TokensIInv, SessionsIInv, SessionsTypeOK
  <2>4. \A d \in Requests : Rotates(req'[d]) => req'[d] = req[d]
      BY <2>1, DoneFacts DEF TokensIInv
  <2> QED
      BY <1>3, <2>2, <2>3, <2>4, QuietStep
<1> QED
    BY <1>4, <1>5, <1>6

\* At first there is no token.
LEMMA TokensInit == SessionsInit => TokensIInv
<1> SUFFICES ASSUME SessionsInit PROVE TokensIInv
    OBVIOUS
<1>1. SessionsIInv /\ refresh = <<>> /\ req = [r \in Requests |-> Idle]
    BY SessionsInitIInv DEF SessionsInit
<1>2. DOMAIN refresh = {}
    BY <1>1
<1>3. RotationsFit /\ FromOlder
    BY <1>2 DEF RotationsFit, FromOlder
<1>4. ASSUME NEW e \in Emails, NEW Q \in SUBSET Saving(e)
      PROVE  Cardinality(GetActiveRefreshTokens(e) \ Revokes(Q)) + Cardinality(Q)
                <= MaxSessions + Cardinality(Requests) - 1
  <2>1. Q = {}
      BY <1>1, IdleFacts DEF Saving, Rotates
  <2>2. GetActiveRefreshTokens(e) \ Revokes(Q) = {}
      BY <1>2, QueryFacts
  <2>3. Cardinality({}) = 0
      BY FS_EmptySet
  <2> QED
      BY <2>1, <2>2, <2>3, SizesKnown
<1> QED
    BY <1>1, <1>3, <1>4 DEF TokensIInv, SavesFit

\* Every step keeps the sizes.
LEMMA TokensStep == TokensIInv /\ [SessionsNext]_sessionsVars => TokensIInv'
<1> SUFFICES ASSUME TokensIInv, [SessionsNext]_sessionsVars PROVE TokensIInv'
    OBVIOUS
<1>1. SessionsIInv'
    BY SessionsStep DEF TokensIInv
<1>2. CASE UNCHANGED sessionsVars
  <2>1. UNCHANGED Tables /\ \A d \in Requests : req'[d] = req[d]
      BY <1>2 DEF sessionsVars, Tables
  <2>2. refresh' = refresh /\ \A e : GetActiveRefreshTokens(e)' = GetActiveRefreshTokens(e)
      BY <2>1, TablesStay
  <2> QED
      BY <1>1, <2>1, <2>2, QuietStep
<1>3. CASE SessionsNext
    BY <1>1, <1>3, QuietHandlers, RefreshFits, EnforceFits, CommitFits, OtherFits, EndsFit
       DEF SessionsNext
<1> QED
    BY <1>2, <1>3

\* The inductive invariant of the tokens holds in every reachable state.
THEOREM TokensInvariant == SessionsSpec => []TokensIInv
BY TokensInit, TokensStep, PTL DEF SessionsSpec

\* However many logins and refreshes of a user overlap, she never has more active sessions than the
\* limit and one for each other request in flight, and a refresh token is exchanged at most once by
\* each request that presented it before it was revoked.
THEOREM TokensStayBounded == SessionsSpec => []TokensBounded
<1>1. TokensIInv => TokensBounded
  <2> SUFFICES ASSUME TokensIInv PROVE TokensBounded
      OBVIOUS
  <2>1. ASSUME NEW e \in Emails
        PROVE  Cardinality(GetActiveRefreshTokens(e)) <= MaxSessions + Cardinality(Requests) - 1
    <3>1. {} \in SUBSET Saving(e) /\ GetActiveRefreshTokens(e) \ Revokes({}) = GetActiveRefreshTokens(e)
        BY DEF Revokes
    <3>2. Cardinality({}) = 0
        BY FS_EmptySet
    <3>3. Cardinality(GetActiveRefreshTokens(e)) \in Nat
        BY SizesKnown, FS_CardinalityType DEF TokensIInv, SessionsIInv
    <3>4. Cardinality(GetActiveRefreshTokens(e) \ Revokes({})) + Cardinality({})
             <= MaxSessions + Cardinality(Requests) - 1
        BY <3>1 DEF TokensIInv, SavesFit
    <3>5. Cardinality(GetActiveRefreshTokens(e)) + 0 <= MaxSessions + Cardinality(Requests) - 1
        BY <3>1, <3>2, <3>4
    <3> QED
        BY <3>3, <3>5
  <2>2. ASSUME NEW t \in DOMAIN refresh
        PROVE  Cardinality({i \in DOMAIN refresh : refresh[i].from = t}) <= Cardinality(Requests)
    <3>1. Cardinality(Successors(t)) + Cardinality(Presenting(t)) <= Cardinality(Requests)
        BY DEF TokensIInv, RotationsFit
    <3>2. Cardinality(Presenting(t)) \in Nat
        BY SizesKnown DEF Presenting
    <3>3. Cardinality(Successors(t)) \in Nat
        BY SizesKnown, PartCounts DEF Successors, TokensIInv, SessionsIInv
    <3>4. Cardinality(Successors(t)) <= Cardinality(Requests)
        BY <3>1, <3>2, <3>3, SizesKnown
    <3> QED
        BY <3>4 DEF Successors
  <2> QED
      BY <2>1, <2>2 DEF TokensBounded, SessionsBounded, RotationBounded
<1> QED
    BY <1>1, TokensInvariant, PTL

-----------------------------------------------------------------------------
(* Rate limiting: a store hands out at most its burst and what it refills. *)

\* A request does not read a time that is yet to come.
ReadsThePast == \A c \in Clients : rl[c].at <= clock

\* What the tokens in a bucket and those it has handed out amount to.  A bucket's time may run
\* backwards, and its tokens below zero, so what was handed out is bounded by `seen` as well.
Backed(b, n) ==
    b.live => /\ n + b.tok <= Burst + b.ref
              /\ n <= Burst + b.seen
              /\ b.seen <= clock

\* A bucket that is gone left early enough for its successor to start full: before the oldest
\* time a script that is still to run can carry, or before now.
RedisForgets(k) ==
    redis[k].live \/ granted["redis"][k] = 0 \/ granted["redis"][k] + MaxDelay <= clock
MemoryForgets(k) == memory[k].live \/ granted["memory"][k] <= clock

\* The buckets of both stores, and the times of those that are gone.
BucketsBacked ==
    \A k \in Keys :
        /\ Backed(redis[k], granted["redis"][k]) /\ RedisForgets(k)
        /\ Backed(memory[k], granted["memory"][k]) /\ MemoryForgets(k)

\* The inductive invariant of the rate limits.
RateLimitIInv == RateLimitTypeOK /\ ReadsThePast /\ BucketsBacked /\ GrantsBounded

-----------------------------------------------------------------------------
\* A request at work is at a check, and its key is one of the keys.
LEMMA AtCheck ==
    ASSUME RateLimitTypeOK, NEW c \in Clients, rl[c].pc # "idle"
    PROVE  rl[c].i \in 1..Len(Checks) /\ Checks[rl[c].i] \in Keys
BY RateLimitAssumption DEF RateLimitTypeOK, Keys

\* A refill at time `at` keeps the type, and the clock as the time it was made.
LEMMA RefillType ==
    ASSUME clock \in Nat, NEW b \in Bucket, NEW at \in Nat
    PROVE  /\ tokenBucketLua(b, at) \in Bucket /\ Take(tokenBucketLua(b, at)) \in Bucket
           /\ MemoryRefill(b) \in Bucket /\ Take(MemoryRefill(b)) \in Bucket
<1> USE RateLimitAssumption DEF Bucket
<1>1. \A n \in Int : AtMostBurst(n) \in Int
    BY DEF AtMostBurst
<1>2. tokenBucketLua(b, at) \in Bucket
    BY <1>1 DEF tokenBucketLua
<1>3. MemoryRefill(b) \in Bucket
    BY <1>1 DEF MemoryRefill
<1>4. ASSUME NEW r \in Bucket PROVE Take(r) \in Bucket
  <2>1. r.tok \in Int /\ Take(r) = [r EXCEPT !.tok = IF r.tok >= 1 THEN r.tok - 1 ELSE r.tok]
      BY DEF Take
  <2>2. \A t \in Int : [r EXCEPT !.tok = t] \in Bucket
      OBVIOUS
  <2>3. (IF r.tok >= 1 THEN r.tok - 1 ELSE r.tok) \in Int
      BY <2>1
  <2> QED
      BY <2>1, <2>2, <2>3, Zenon
<1> QED
    BY <1>2, <1>3, <1>4

\* What a bucket backs, before a refill, it backs after it and after a token is taken, whether
\* the token is counted (the answer arrives) or not.
LEMMA RefillBacked ==
    ASSUME clock \in Nat, NEW b \in Bucket, NEW at \in Nat, at <= clock, NEW n \in Nat,
           Backed(b, n), ~b.live => n <= at, n <= Burst + clock,
           NEW r, r = tokenBucketLua(b, at)
    PROVE  /\ Backed(Take(r), n)
           /\ Allows(r) => Backed(Take(r), n + 1) /\ n + 1 <= Burst + clock
           /\ Take(r).live
<1>1. r \in Bucket /\ r.live /\ r.ref = at /\ r.seen = clock
    BY RefillType DEF tokenBucketLua
<1>2. n + r.tok <= Burst + at
  <2>1. CASE b.live
    <3>1. r.tok <= b.tok + (at - b.ref)
        BY <2>1, RateLimitAssumption DEF tokenBucketLua, AtMostBurst, Bucket
    <3> QED
        BY SMTT(40), <1>1, <2>1, <3>1, RateLimitAssumption DEF Backed, Bucket
  <2>2. CASE ~b.live
      BY <2>2, RateLimitAssumption DEF tokenBucketLua
  <2> QED
      BY <2>1, <2>2
<1>3. Take(r).live /\ Take(r).ref = at /\ Take(r).seen = clock
    BY <1>1 DEF Take, Bucket
<1>4. Take(r).tok = IF r.tok >= 1 THEN r.tok - 1 ELSE r.tok
    BY <1>1 DEF Take, Bucket
<1>5. Backed(Take(r), n)
    BY <1>1, <1>2, <1>3, <1>4, RateLimitAssumption DEF Backed, Bucket
<1>6. ASSUME Allows(r) PROVE Backed(Take(r), n + 1) /\ n + 1 <= Burst + clock
    BY <1>1, <1>2, <1>3, <1>4, <1>6, RateLimitAssumption DEF Backed, Bucket, Allows
<1> QED
    BY <1>3, <1>5, <1>6

\* The memory store's refill is the script's, at the present time.
LEMMA MemoryRefillsNow ==
    ASSUME NEW b PROVE MemoryRefill(b) = tokenBucketLua(b, clock)
BY DEF MemoryRefill, tokenBucketLua

-----------------------------------------------------------------------------
\* The initial state satisfies the invariant.
LEMMA RateLimitInitIInv == RateLimitInit => RateLimitIInv
<1> SUFFICES ASSUME RateLimitInit PROVE RateLimitIInv
    OBVIOUS
<1>1. RateLimitTypeOK
    BY RateLimitAssumption
       DEF RateLimitInit, RateLimitTypeOK, NoBucket, Bucket, Away, Caller, Stores
<1>2. ReadsThePast
  <2> SUFFICES ASSUME NEW c \in Clients PROVE rl[c].at <= clock
      BY DEF ReadsThePast
  <2>1. rl[c].at = 0
      BY DEF RateLimitInit, Away
  <2>2. clock \in Nat
      BY <1>1 DEF RateLimitTypeOK
  <2> QED
      BY <2>1, <2>2
<1>3. BucketsBacked /\ GrantsBounded
    BY RateLimitAssumption
       DEF RateLimitInit, BucketsBacked, GrantsBounded, Backed, RedisForgets, MemoryForgets,
           NoBucket, Stores
<1> QED
    BY <1>1, <1>2, <1>3 DEF RateLimitIInv

\* An answer moves the request to a check of the list, or away.
LEMMA AnswerFacts ==
    ASSUME RateLimitTypeOK, ReadsThePast, NEW c \in Clients, rl[c].pc # "idle",
           NEW allowed \in BOOLEAN, Answer(c, allowed)
    PROVE  /\ rl' \in [Clients -> Caller]
           /\ \A d \in Clients : rl'[d].pc # "idle" => rl'[d].i \in DOMAIN Checks
           /\ \A d \in Clients : rl'[d].at <= clock
<1>1. rl[c].i \in 1..Len(Checks)
    BY AtCheck
<1>2. rl'[c] \in Caller /\ rl'[c].at <= clock
    BY <1>1 DEF Answer, RateLimitTypeOK, Caller, Away
<1>3. rl'[c].pc # "idle" => rl'[c].i \in DOMAIN Checks
    BY <1>1, RateLimitAssumption DEF Answer, RateLimitTypeOK, Caller, Away
<1> QED
    BY <1>2, <1>3 DEF Answer, RateLimitTypeOK, ReadsThePast

\* The script on Redis: answered or lost, it keeps the invariant.
LEMMA AllowStep == ASSUME RateLimitIInv, NEW c \in Clients, allowE(c) PROVE RateLimitIInv'
<1> DEFINE k == Checks[rl[c].i]
           at == rl[c].at
           b == tokenBucketLua(redis[k], at)
           n == granted["redis"][k]
<1> USE RateLimitAssumption DEF RateLimitIInv
<1>1. k \in Keys /\ at \in Nat /\ at <= clock /\ clock - at <= MaxDelay /\ rl[c].pc # "idle"
    BY AtCheck DEF allowE, RateLimitTypeOK, Caller, ReadsThePast
<1>2. clock \in Nat /\ redis[k] \in Bucket /\ n \in Nat /\ n <= Burst + clock
    BY <1>1 DEF RateLimitTypeOK, GrantsBounded, Stores
<1>3. ~redis[k].live => n <= at
    BY SMTT(30), <1>1, <1>2 DEF BucketsBacked, RedisForgets
<1>4. Backed(redis[k], n)
    BY <1>1 DEF BucketsBacked
<1>5. /\ b \in Bucket /\ Take(b) \in Bucket /\ Take(b).live
      /\ Backed(Take(b), n)
      /\ Allows(b) => Backed(Take(b), n + 1) /\ n + 1 <= Burst + clock
    BY <1>1, <1>2, <1>3, <1>4, RefillType, RefillBacked
<1>6. /\ redis' = [redis EXCEPT ![k] = Take(b)]
      /\ UNCHANGED <<clock, memory, healthy, consecOK, probe>>
    BY DEF allowE
<1>7. /\ rl' \in [Clients -> Caller]
      /\ \A d \in Clients : rl'[d].pc # "idle" => rl'[d].i \in DOMAIN Checks
      /\ \A d \in Clients : rl'[d].at <= clock
  <2>1. CASE Answer(c, Allows(b))
    <3>1. Allows(b) \in BOOLEAN
        BY DEF Allows
    <3> QED
        BY <1>1, <2>1, <3>1, AnswerFacts
  <2>2. CASE rl' = [rl EXCEPT ![c].pc = "mark"]
      BY <1>1, <2>2 DEF RateLimitTypeOK, ReadsThePast, Caller
  <2> QED
      BY <2>1, <2>2 DEF allowE
<1>8. \/ granted' = granted
      \/ Allows(b) /\ granted' = [granted EXCEPT !["redis"][k] = @ + 1]
    BY DEF allowE, Grant
<1>9. RateLimitTypeOK'
  <2>1. redis' \in [Keys -> Bucket]
      BY <1>1, <1>5, <1>6 DEF RateLimitTypeOK
  <2>2. granted' \in [Stores -> [Keys -> Nat]]
    <3>1. granted["redis"] \in [Keys -> Nat] /\ "redis" \in Stores
        BY DEF RateLimitTypeOK, Stores
    <3>2. [granted["redis"] EXCEPT ![k] = n + 1] \in [Keys -> Nat]
      <4> HIDE DEF k, n
      <4>1. n + 1 \in Nat
        <5>1. n \in Nat
            BY <1>2
        <5> QED
            BY <5>1
      <4> QED
          BY <3>1, <4>1
    <3> QED
        BY <1>8, <3>1, <3>2 DEF RateLimitTypeOK
  <2> QED
      BY <1>6, <1>7, <2>1, <2>2 DEF RateLimitTypeOK
<1>10. ReadsThePast'
    BY <1>6, <1>7 DEF ReadsThePast
<1>11. /\ granted'["memory"] = granted["memory"]
       /\ \A j \in Keys : j # k => granted'["redis"][j] = granted["redis"][j]
       /\ Backed(Take(b), granted'["redis"][k])
       /\ granted'["redis"][k] <= Burst + clock
    BY <1>1, <1>2, <1>5, <1>8 DEF RateLimitTypeOK, Stores
<1>12. BucketsBacked'
  <2> SUFFICES ASSUME NEW j \in Keys
               PROVE  /\ Backed(redis[j], granted["redis"][j])' /\ RedisForgets(j)'
                      /\ Backed(memory[j], granted["memory"][j])' /\ MemoryForgets(j)'
      BY DEF BucketsBacked
  <2>1. Backed(memory[j], granted["memory"][j])' /\ MemoryForgets(j)'
      BY <1>6, <1>11 DEF BucketsBacked, Backed, MemoryForgets
  <2>2. CASE j = k
    <3>1. redis'[j] = Take(b)
        BY <1>6, <2>2 DEF RateLimitTypeOK
    <3> QED
        BY <1>5, <1>6, <1>11, <2>1, <2>2, <3>1 DEF Backed, RedisForgets
  <2>3. CASE j # k
    <3>1. redis'[j] = redis[j]
        BY <1>6, <2>3 DEF RateLimitTypeOK
    <3> QED
        BY <1>6, <1>11, <2>1, <2>3, <3>1 DEF BucketsBacked, Backed, RedisForgets
  <2> QED
      BY <2>2, <2>3
<1>13. GrantsBounded'
    BY <1>1, <1>6, <1>11 DEF GrantsBounded, Stores
<1> QED
    BY <1>9, <1>10, <1>12, <1>13

\* The memory store, which reads the clock under its lock.
LEMMA MemoryStep == ASSUME RateLimitIInv, NEW c \in Clients, MemoryAllow(c) PROVE RateLimitIInv'
<1> DEFINE k == Checks[rl[c].i]
           b == MemoryRefill(memory[k])
           n == granted["memory"][k]
<1> USE RateLimitAssumption DEF RateLimitIInv
<1>1. k \in Keys /\ rl[c].pc # "idle"
    BY AtCheck DEF MemoryAllow
<1>2. clock \in Nat /\ memory[k] \in Bucket /\ n \in Nat /\ n <= Burst + clock
    BY <1>1 DEF RateLimitTypeOK, GrantsBounded, Stores
<1>3. (~memory[k].live => n <= clock) /\ Backed(memory[k], n)
    BY <1>1 DEF BucketsBacked, MemoryForgets
<1>4. /\ b \in Bucket /\ Take(b) \in Bucket /\ Take(b).live
      /\ Backed(Take(b), n)
      /\ Allows(b) => Backed(Take(b), n + 1) /\ n + 1 <= Burst + clock
  <2> DEFINE m == memory[k]
  <2>1. b \in Bucket /\ Take(b) \in Bucket
      BY <1>2, RefillType
  <2>2. m \in Bucket /\ Backed(m, n) /\ (~m.live => n <= clock)
      BY <1>2, <1>3
  <2>3. b = tokenBucketLua(m, clock)
      BY MemoryRefillsNow
  <2>4. clock <= clock /\ n <= Burst + clock
      BY <1>2
  <2> HIDE DEF b, n, m
  <2>5. /\ Backed(Take(b), n)
        /\ Allows(b) => Backed(Take(b), n + 1) /\ n + 1 <= Burst + clock
        /\ Take(b).live
      BY <1>2, <2>2, <2>3, <2>4, RefillBacked
  <2> QED
      BY <2>1, <2>5
<1>5. /\ memory' = [memory EXCEPT ![k] = Take(b)]
      /\ UNCHANGED <<clock, redis, healthy, consecOK, probe>>
    BY DEF MemoryAllow
<1>6. /\ rl' \in [Clients -> Caller]
      /\ \A d \in Clients : rl'[d].pc # "idle" => rl'[d].i \in DOMAIN Checks
      /\ \A d \in Clients : rl'[d].at <= clock
  <2>1. Allows(b) \in BOOLEAN
      BY DEF Allows
  <2> QED
      BY <1>1, <2>1, AnswerFacts DEF MemoryAllow
<1>7. \/ granted' = granted
      \/ Allows(b) /\ granted' = [granted EXCEPT !["memory"][k] = @ + 1]
    BY DEF MemoryAllow, Grant
<1>8. RateLimitTypeOK'
  <2>1. memory' \in [Keys -> Bucket]
      BY <1>1, <1>4, <1>5 DEF RateLimitTypeOK
  <2>2. granted' \in [Stores -> [Keys -> Nat]]
    <3>1. granted["memory"] \in [Keys -> Nat] /\ "memory" \in Stores
        BY DEF RateLimitTypeOK, Stores
    <3>2. [granted["memory"] EXCEPT ![k] = n + 1] \in [Keys -> Nat]
      <4> HIDE DEF k, n
      <4>1. n + 1 \in Nat
        <5>1. n \in Nat
            BY <1>2
        <5> QED
            BY <5>1
      <4> QED
          BY <3>1, <4>1
    <3> QED
        BY <1>7, <3>1, <3>2 DEF RateLimitTypeOK
  <2> QED
      BY <1>5, <1>6, <2>1, <2>2 DEF RateLimitTypeOK
<1>9. ReadsThePast'
    BY <1>5, <1>6 DEF ReadsThePast
<1>10. /\ granted'["redis"] = granted["redis"]
       /\ \A j \in Keys : j # k => granted'["memory"][j] = granted["memory"][j]
       /\ Backed(Take(b), granted'["memory"][k])
       /\ granted'["memory"][k] <= Burst + clock
  <2>1. granted \in [Stores -> [Keys -> Nat]] /\ Stores = {"redis", "memory"} /\ Burst + clock \in Int
      BY <1>2 DEF RateLimitTypeOK, Stores
  <2>2. CASE granted' = granted
      BY <1>2, <1>4, <2>2
  <2>3. CASE Allows(b) /\ granted' = [granted EXCEPT !["memory"][k] = @ + 1]
    <3>1. /\ granted'["redis"] = granted["redis"] /\ granted'["memory"][k] = n + 1
          /\ \A j \in Keys : j # k => granted'["memory"][j] = granted["memory"][j]
        BY <1>1, <2>1, <2>3
    <3> QED
        BY <1>4, <2>3, <3>1
  <2> QED
      BY <1>7, <2>2, <2>3
<1>11. BucketsBacked'
  <2> SUFFICES ASSUME NEW j \in Keys
               PROVE  /\ Backed(redis[j], granted["redis"][j])' /\ RedisForgets(j)'
                      /\ Backed(memory[j], granted["memory"][j])' /\ MemoryForgets(j)'
      BY DEF BucketsBacked
  <2>1. Backed(redis[j], granted["redis"][j])' /\ RedisForgets(j)'
      BY <1>5, <1>10 DEF BucketsBacked, Backed, RedisForgets
  <2>2. CASE j = k
    <3>1. memory'[j] = Take(b)
        BY <1>5, <2>2 DEF RateLimitTypeOK
    <3> QED
        BY <1>4, <1>5, <1>10, <2>1, <2>2, <3>1 DEF Backed, MemoryForgets
  <2>3. CASE j # k
    <3>1. memory'[j] = memory[j]
        BY <1>5, <2>3 DEF RateLimitTypeOK
    <3> QED
        BY <1>5, <1>10, <2>1, <2>3, <3>1 DEF BucketsBacked, Backed, MemoryForgets
  <2> QED
      BY <2>2, <2>3
<1>12. GrantsBounded'
    BY <1>1, <1>5, <1>10 DEF GrantsBounded, Stores
<1> QED
    BY <1>8, <1>9, <1>11, <1>12

\* Steps of a request that touch no bucket.
LEMMA RequestStep ==
    ASSUME RateLimitIInv, NEW c \in Clients,
           RateLimitMiddleware(c) \/ RedisError(c) \/ markUnhealthy(c) \/ ZeroConsecOK(c)
    PROVE  RateLimitIInv'
<1> USE RateLimitAssumption DEF RateLimitIInv
<1>1. UNCHANGED <<clock, redis, memory, granted, probe>>
    BY DEF RateLimitMiddleware, RedisError, markUnhealthy, ZeroConsecOK
<1>2. healthy' \in BOOLEAN /\ consecOK' \in Nat
  <2>1. healthy' = healthy \/ healthy' = FALSE
      BY DEF RateLimitMiddleware, RedisError, markUnhealthy, ZeroConsecOK
  <2>2. consecOK' = consecOK \/ consecOK' = 0
      BY DEF RateLimitMiddleware, RedisError, markUnhealthy, ZeroConsecOK
  <2>3. healthy' \in BOOLEAN
      BY <2>1, Zenon DEF RateLimitTypeOK
  <2> QED
      BY <2>2, <2>3 DEF RateLimitTypeOK
<1>3. /\ rl' \in [Clients -> Caller]
      /\ \A d \in Clients : rl'[d].pc # "idle" => rl'[d].i \in DOMAIN Checks
      /\ \A d \in Clients : rl'[d].at <= clock
  <2>1. CASE RateLimitMiddleware(c)
    <3>1. PICK i \in 1..Len(Checks) : Allow(c, i)
        BY <2>1, AtCheck DEF RateLimitMiddleware
    <3>2. rl'[c] \in Caller /\ rl'[c].at <= clock /\ rl'[c].i \in DOMAIN Checks
        BY <3>1 DEF Allow, RateLimitTypeOK, Caller
    <3>3. rl' = [rl EXCEPT ![c] = rl'[c]]
        BY <3>1 DEF Allow, RateLimitTypeOK
    <3> QED
        BY <3>2, <3>3 DEF RateLimitTypeOK, ReadsThePast
  <2>2. CASE RedisError(c)
      BY <2>2, AtCheck DEF RedisError, RateLimitTypeOK, ReadsThePast, Caller
  <2>3. CASE markUnhealthy(c)
      BY <2>3, AtCheck DEF markUnhealthy, RateLimitTypeOK, ReadsThePast, Caller
  <2>4. CASE ZeroConsecOK(c)
      BY <2>4, AtCheck DEF ZeroConsecOK, RateLimitTypeOK, ReadsThePast, Caller
  <2> QED
      BY <2>1, <2>2, <2>3, <2>4
<1>4. RateLimitTypeOK' /\ ReadsThePast'
    BY <1>1, <1>2, <1>3 DEF RateLimitTypeOK, ReadsThePast
<1>5. BucketsBacked' /\ GrantsBounded'
    BY <1>1 DEF BucketsBacked, GrantsBounded, Backed, RedisForgets, MemoryForgets
<1> QED
    BY <1>4, <1>5

\* The probe touches neither bucket nor request.
LEMMA ProbeStep == ASSUME RateLimitIInv, runProbe \/ Promote PROVE RateLimitIInv'
<1>1. UNCHANGED <<clock, redis, memory, granted, rl>>
    BY DEF runProbe, Promote
<1>2. healthy' \in BOOLEAN /\ consecOK' \in Nat /\ probe' \in Nat
  <2>1. CASE runProbe
      BY <2>1 DEF RateLimitIInv, RateLimitTypeOK, runProbe
  <2>2. CASE Promote
      BY <2>2, Zenon DEF RateLimitIInv, RateLimitTypeOK, Promote
  <2> QED
      BY <2>1, <2>2
<1> QED
    BY <1>1, <1>2
       DEF RateLimitIInv, RateLimitTypeOK, ReadsThePast, BucketsBacked, GrantsBounded, Backed,
           RedisForgets, MemoryForgets

\* What a live bucket has handed out, when nobody saw it for longer than its burst.
LEMMA JanitorStep == ASSUME RateLimitIInv, initJanitor PROVE RateLimitIInv'
<1> USE RateLimitAssumption DEF RateLimitIInv
<1>1. /\ memory' = [k \in Keys |-> IF memory[k].seen < clock - IdleCutoff THEN NoBucket
                                   ELSE memory[k]]
      /\ UNCHANGED <<clock, redis, granted, healthy, consecOK, probe, rl>>
    BY DEF initJanitor
<1>2. RateLimitTypeOK' /\ ReadsThePast' /\ GrantsBounded'
    BY <1>1 DEF RateLimitTypeOK, ReadsThePast, GrantsBounded, NoBucket, Bucket
<1>3. BucketsBacked'
  <2> SUFFICES ASSUME NEW k \in Keys
               PROVE  /\ Backed(redis[k], granted["redis"][k])' /\ RedisForgets(k)'
                      /\ Backed(memory[k], granted["memory"][k])' /\ MemoryForgets(k)'
      BY DEF BucketsBacked
  <2>1. Backed(redis[k], granted["redis"][k])' /\ RedisForgets(k)'
      BY <1>1 DEF BucketsBacked, Backed, RedisForgets
  <2>2. CASE memory[k].seen < clock - IdleCutoff
    <3>1. granted["memory"][k] <= clock
      <4>1. granted["memory"][k] \in Nat /\ memory[k] \in Bucket /\ clock \in Nat
          BY DEF RateLimitTypeOK, Stores
      <4> QED
          BY <2>2, <4>1 DEF BucketsBacked, Backed, MemoryForgets, Bucket
    <3>2. memory'[k] = NoBucket /\ granted' = granted /\ clock' = clock
        BY <1>1, <2>2
    <3> QED
        BY <2>1, <3>1, <3>2 DEF Backed, MemoryForgets, NoBucket
  <2>3. CASE ~(memory[k].seen < clock - IdleCutoff)
    <3>1. memory'[k] = memory[k] /\ granted' = granted /\ clock' = clock
        BY <1>1, <2>3
    <3> QED
        BY <2>1, <3>1 DEF BucketsBacked, Backed, MemoryForgets
  <2> QED
      BY <2>2, <2>3
<1> QED
    BY <1>2, <1>3

\* A key expires so late that its bucket had time to fill, and every script that is still to
\* run carries a later time.
LEMMA ExpireKeyStep == ASSUME RateLimitIInv, NEW k \in Keys, ExpireKey(k) PROVE RateLimitIInv'
<1> USE RateLimitAssumption DEF RateLimitIInv
<1>1. /\ redis[k].live /\ clock >= redis[k].seen + TTL
      /\ redis' = [redis EXCEPT ![k] = NoBucket]
      /\ UNCHANGED <<clock, memory, granted, healthy, consecOK, probe, rl>>
    BY DEF ExpireKey
<1>2. RateLimitTypeOK' /\ ReadsThePast' /\ GrantsBounded'
    BY <1>1 DEF RateLimitTypeOK, ReadsThePast, GrantsBounded, NoBucket, Bucket
<1>3. granted["redis"][k] + MaxDelay <= clock
  <2>1. granted["redis"][k] \in Nat /\ redis[k].seen \in Nat /\ clock \in Nat
      BY DEF RateLimitTypeOK, Stores, Bucket
  <2>2. granted["redis"][k] <= Burst + redis[k].seen
      BY <1>1 DEF BucketsBacked, Backed
  <2> QED
      BY SMTT(40), <1>1, <2>1, <2>2 DEF TTL
<1>4. BucketsBacked'
  <2> SUFFICES ASSUME NEW j \in Keys
               PROVE  /\ Backed(redis[j], granted["redis"][j])' /\ RedisForgets(j)'
                      /\ Backed(memory[j], granted["memory"][j])' /\ MemoryForgets(j)'
      BY DEF BucketsBacked
  <2>1. Backed(memory[j], granted["memory"][j])' /\ MemoryForgets(j)'
      BY <1>1 DEF BucketsBacked, Backed, MemoryForgets
  <2>2. CASE j = k
    <3>1. redis'[j] = NoBucket /\ granted' = granted /\ clock' = clock
        BY <1>1, <2>2 DEF RateLimitTypeOK
    <3> QED
        BY <1>3, <2>1, <2>2, <3>1 DEF Backed, RedisForgets, NoBucket
  <2>3. CASE j # k
    <3>1. redis'[j] = redis[j] /\ granted' = granted /\ clock' = clock
        BY <1>1, <2>3 DEF RateLimitTypeOK
    <3> QED
        BY <2>1, <3>1 DEF BucketsBacked, Backed, RedisForgets
  <2> QED
      BY <2>2, <2>3
<1> QED
    BY <1>2, <1>4

\* Time only loosens the bounds.
LEMMA TickStep == ASSUME RateLimitIInv, RateLimitTick PROVE RateLimitIInv'
<1> USE RateLimitAssumption DEF RateLimitIInv
<1>1. /\ clock \in Nat /\ clock' = clock + 1
      /\ UNCHANGED <<redis, memory, granted, healthy, consecOK, probe, rl>>
    BY DEF RateLimitTick, RateLimitTypeOK
<1>2. RateLimitTypeOK'
    BY <1>1 DEF RateLimitTypeOK
<1>3. ReadsThePast'
  <2> SUFFICES ASSUME NEW c \in Clients PROVE rl[c].at <= clock + 1
      BY <1>1 DEF ReadsThePast
  <2>1. rl[c].at \in Nat /\ rl[c].at <= clock
      BY DEF ReadsThePast, RateLimitTypeOK, Caller
  <2> QED
      BY <1>1, <2>1
<1>4. ASSUME NEW k \in Keys
      PROVE  /\ Backed(redis[k], granted["redis"][k])' /\ RedisForgets(k)'
             /\ Backed(memory[k], granted["memory"][k])' /\ MemoryForgets(k)'
             /\ \A s \in Stores : granted'[s][k] <= Burst + clock'
  <2>1. /\ redis[k] \in Bucket /\ memory[k] \in Bucket
        /\ granted["redis"][k] \in Nat /\ granted["memory"][k] \in Nat
      BY DEF RateLimitTypeOK, Stores
  <2>2. Backed(redis[k], granted["redis"][k])' /\ Backed(memory[k], granted["memory"][k])'
    <3>1. Backed(redis[k], granted["redis"][k]) /\ Backed(memory[k], granted["memory"][k])
        BY DEF BucketsBacked
    <3>2. ASSUME NEW b \in Bucket, NEW n \in Nat, Backed(b, n)
          PROVE  b.live => /\ n + b.tok <= Burst + b.ref
                           /\ n <= Burst + b.seen
                           /\ b.seen <= clock + 1
        BY <1>1, <3>2 DEF Backed, Bucket
    <3> QED
        BY <1>1, <2>1, <3>1, <3>2 DEF Backed
  <2>3. RedisForgets(k)' /\ MemoryForgets(k)'
      BY <1>1, <2>1 DEF BucketsBacked, RedisForgets, MemoryForgets
  <2>4. \A s \in Stores : granted'[s][k] <= Burst + clock'
      BY <1>1, <2>1 DEF GrantsBounded, Stores
  <2> QED
      BY <2>2, <2>3, <2>4
<1>5. BucketsBacked' /\ GrantsBounded'
    BY <1>4 DEF BucketsBacked, GrantsBounded
<1> QED
    BY <1>2, <1>3, <1>5

\* Every step keeps the invariant.
LEMMA RateLimitStep == RateLimitIInv /\ [RateLimitNext]_rateLimitVars => RateLimitIInv'
<1> SUFFICES ASSUME RateLimitIInv, [RateLimitNext]_rateLimitVars PROVE RateLimitIInv'
    OBVIOUS
<1>1. CASE UNCHANGED rateLimitVars
    BY <1>1 DEF rateLimitVars, RateLimitIInv, RateLimitTypeOK, ReadsThePast, BucketsBacked,
                GrantsBounded, Backed, RedisForgets, MemoryForgets
<1>2. CASE RateLimitNext
    BY <1>2, AllowStep, MemoryStep, RequestStep, ProbeStep, JanitorStep, ExpireKeyStep, TickStep
       DEF RateLimitNext
<1> QED
    BY <1>1, <1>2

\* The inductive invariant holds in every reachable state.
THEOREM RateLimitInvariant == RateLimitSpec => []RateLimitIInv
BY RateLimitInitIInv, RateLimitStep, PTL DEF RateLimitSpec

\* Types: among them that a request at work is always at one of its checks.
THEOREM RateLimitTypes == RateLimitSpec => []RateLimitTypeOK
BY RateLimitInvariant, PTL DEF RateLimitIInv

\* No store hands out more than its burst and one token per refill time, although timestamps
\* reach the script out of order, answers are lost, and buckets are dropped and start full.
THEOREM GrantsStayBounded == RateLimitSpec => []GrantsBounded
BY RateLimitInvariant, PTL DEF RateLimitIInv

-----------------------------------------------------------------------------
(* The RabbitMQ bus: an event the broker has queued is never lost.         *)

\* A loop whose delivery the broker still holds and that has not dealt with it.
Held(c) == loop[c].live /\ loop[c].at \in {"run", "route"}

\* The property without the loops that are about to acknowledge: what they acknowledge is
\* accounted for elsewhere.
Accounted(e) ==
    \/ \E h \in Handlers : <<h, e>> \in handled
    \/ \E m \in Msg : m.e = e /\ main[m] + retry[m] > 0
    \/ \E c \in Loops : Held(c) /\ loop[c].m.e = e
    \/ dead[e] > 0 /\ failures[e] > Tiers

\* That holds for all that has been accepted.
AllAccounted == \A e \in accepted : Accounted(e)

\* The retry count of a copy is no more than the failures its event has had, and less when the
\* last of them is still to be routed.
CopiesCounted ==
    /\ \A m \in Msg : main[m] + retry[m] > 0 => m.n <= failures[m.e]
    /\ \A c \in Loops :
        /\ loop[c].at \in {"run", "ack"} => loop[c].m.n <= failures[loop[c].m.e]
        /\ loop[c].at = "route" => loop[c].m.n < failures[loop[c].m.e]

\* The inductive invariant of the bus.
RabbitIInv == RabbitTypeOK /\ CopiesCounted /\ AllAccounted

-----------------------------------------------------------------------------
\* A copy is an event and a count; a loop that does not run is a loop.
LEMMA Shapes ==
    /\ \A m \in Msg : m.e \in Events /\ m.n \in 0..Tiers
    /\ \A e \in Events : [e |-> e, n |-> 0] \in Msg
    /\ NoLoop \in Loop /\ NoLoop.at = "none" /\ NoLoop.live = FALSE
<1>1. \A e \in Events : [e |-> e, n |-> 0] \in Msg
    BY RabbitAssumption DEF Msg
<1>2. (CHOOSE m \in Msg : TRUE) \in Msg
    BY <1>1, RabbitAssumption
<1> QED
    BY <1>1, <1>2 DEF Msg, NoLoop, Loop

\* Counting the deliveries of a set of loops gives a number, positive if there is one.
LEMMA CountLoops ==
    ASSUME NEW S \in SUBSET Loops
    PROVE  Cardinality(S) \in Nat /\ (S # {} <=> Cardinality(S) > 0)
<1>1. IsFiniteSet({"subscribe", "replay"})
  <2>1. {"subscribe", "replay"} = {"subscribe"} \cup {"replay"}
      OBVIOUS
  <2>2. IsFiniteSet({"subscribe"})
      BY FS_Singleton
  <2> QED
      BY <2>1, <2>2, FS_AddElement
<1>2. IsFiniteSet(Loops)
    BY <1>1, RabbitAssumption, FS_Product DEF Loops
<1>3. IsFiniteSet(S)
    BY <1>2, FS_Subset
<1>4. Cardinality(S) \in Nat /\ (Cardinality(S) = 0 <=> S = {})
    BY <1>3, FS_CardinalityType, FS_EmptySet
<1> QED
    BY <1>4

\* Closing channels queues exactly what their loops held.
LEMMA Requeue ==
    ASSUME RabbitTypeOK, NEW C \in SUBSET Loops, CloseChannels(C)
    PROVE  /\ main' \in [Msg -> Nat] /\ loop' \in [Loops -> Loop]
           /\ \A m \in Msg : main'[m] >= main[m]
           /\ \A c \in C \cap Unacked : main'[loop[c].m] > 0
           /\ \A m \in Msg : main'[m] > main[m] => \E c \in C \cap Unacked : loop[c].m = m
           /\ \A c \in Loops : /\ loop'[c].at = loop[c].at /\ loop'[c].m = loop[c].m
                               /\ loop'[c].live <=> loop[c].live /\ c \notin C
<1> DEFINE S(m) == {c \in C \cap Unacked : loop[c].m = m}
<1>1. \A m \in Msg : main'[m] = main[m] + Cardinality(S(m))
    BY DEF CloseChannels
<1>2. \A m \in Msg : Cardinality(S(m)) \in Nat /\ (S(m) # {} <=> Cardinality(S(m)) > 0)
  <2> TAKE m \in Msg
  <2>1. S(m) \in SUBSET Loops
      OBVIOUS
  <2> QED
      BY <2>1, CountLoops
<1>3. \A m \in Msg : main[m] \in Nat
    BY DEF RabbitTypeOK
<1>4. \A m \in Msg : /\ main'[m] \in Nat /\ main'[m] >= main[m]
                     /\ main'[m] > main[m] <=> S(m) # {}
                     /\ S(m) # {} => main'[m] > 0
  <2> HIDE DEF S
  <2> QED
      BY <1>1, <1>2, <1>3
<1>5. main' \in [Msg -> Nat]
  <2>1. main' = [m \in Msg |-> main'[m]]
      BY DEF CloseChannels
  <2> QED
      BY <1>4, <2>1
<1>6. ASSUME NEW c \in C \cap Unacked PROVE main'[loop[c].m] > 0
  <2>1. loop[c].m \in Msg /\ c \in S(loop[c].m)
      BY DEF RabbitTypeOK, Loop
  <2> QED
      BY <1>4, <2>1
<1>7. \A c \in Loops : /\ loop'[c] = IF c \in C THEN [loop[c] EXCEPT !.live = FALSE] ELSE loop[c]
                       /\ loop[c] \in Loop
    BY DEF CloseChannels, RabbitTypeOK
<1>8. \A c \in Loops : /\ loop'[c] \in Loop
                       /\ loop'[c].at = loop[c].at /\ loop'[c].m = loop[c].m
                       /\ loop'[c].live <=> loop[c].live /\ c \notin C
    BY <1>7 DEF Loop
<1>9. loop' \in [Loops -> Loop]
    BY <1>8 DEF CloseChannels
<1> QED
    BY <1>4, <1>5, <1>6, <1>8, <1>9

-----------------------------------------------------------------------------
\* Closing channels keeps the accounts and the counts.
LEMMA RequeueStep ==
    ASSUME RabbitIInv, NEW C \in SUBSET Loops, CloseChannels(C),
           UNCHANGED <<retry, dead, historyVars>>
    PROVE  CopiesCounted' /\ AllAccounted'
<1> USE DEF RabbitIInv
<1>1. /\ main' \in [Msg -> Nat] /\ loop' \in [Loops -> Loop]
      /\ \A m \in Msg : main'[m] >= main[m]
      /\ \A c \in C \cap Unacked : main'[loop[c].m] > 0
      /\ \A m \in Msg : main'[m] > main[m] => \E c \in C \cap Unacked : loop[c].m = m
      /\ \A c \in Loops : /\ loop'[c].at = loop[c].at /\ loop'[c].m = loop[c].m
                          /\ loop'[c].live <=> loop[c].live /\ c \notin C
    BY Requeue
<1>2. \A m \in Msg : main[m] \in Nat /\ retry[m] \in Nat /\ main'[m] \in Nat
    BY <1>1 DEF RabbitTypeOK
<1>3. /\ retry' = retry /\ dead' = dead /\ accepted' = accepted /\ handled' = handled
      /\ failures' = failures
    BY DEF historyVars
<1>4. ASSUME NEW m \in Msg, main'[m] + retry'[m] > 0 PROVE m.n <= failures'[m.e]
  <2>1. CASE main'[m] > main[m]
    <3>1. PICK c \in C \cap Unacked : loop[c].m = m
        BY <1>1, <2>1
    <3>2. m.n \in Nat /\ failures[m.e] \in Nat
        BY Shapes, RabbitAssumption DEF RabbitTypeOK
    <3>3. loop[c].at \in {"run", "route", "ack"}
        BY DEF Unacked
    <3> QED
        BY <1>3, <3>1, <3>2, <3>3 DEF CopiesCounted
  <2>2. CASE ~(main'[m] > main[m])
    <3>1. main[m] + retry[m] > 0
        BY <1>1, <1>2, <1>3, <1>4, <2>2
    <3> QED
        BY <1>3, <3>1 DEF CopiesCounted
  <2> QED
      BY <2>1, <2>2
<1>5. CopiesCounted'
    BY <1>1, <1>3, <1>4 DEF CopiesCounted
<1>6. ASSUME NEW e \in accepted PROVE Accounted(e)'
  <2>1. CASE \E h \in Handlers : <<h, e>> \in handled
      BY <1>3, <2>1 DEF Accounted
  <2>2. CASE \E m \in Msg : m.e = e /\ main[m] + retry[m] > 0
    <3>1. PICK m \in Msg : m.e = e /\ main[m] + retry[m] > 0
        BY <2>2
    <3>2. main'[m] + retry'[m] > 0
        BY <1>1, <1>2, <1>3, <3>1
    <3> QED
        BY <3>1, <3>2 DEF Accounted
  <2>3. CASE \E c \in Loops : Held(c) /\ loop[c].m.e = e
    <3>1. PICK c \in Loops : Held(c) /\ loop[c].m.e = e
        BY <2>3
    <3>2. CASE c \in C
      <4>1. c \in C \cap Unacked /\ loop[c].m \in Msg
          BY <3>1, <3>2 DEF Unacked, Held, RabbitTypeOK, Loop
      <4>2. main'[loop[c].m] + retry'[loop[c].m] > 0
          BY <1>1, <1>2, <1>3, <4>1
      <4> QED
          BY <3>1, <4>1, <4>2 DEF Accounted
    <3>3. CASE c \notin C
      <4>1. Held(c)' /\ loop'[c].m.e = e
          BY <1>1, <3>1, <3>3 DEF Held
      <4> QED
          BY <4>1 DEF Accounted
    <3> QED
        BY <3>2, <3>3
  <2>4. CASE dead[e] > 0 /\ failures[e] > Tiers
      BY <1>3, <2>4 DEF Accounted
  <2> QED
      BY <2>1, <2>2, <2>3, <2>4 DEF AllAccounted, Accounted
<1>7. AllAccounted'
    BY <1>3, <1>6 DEF AllAccounted
<1> QED
    BY <1>5, <1>7

\* What keeps an event accounted for: nothing of it is taken away.
LEMMA Kept ==
    ASSUME NEW e, Accounted(e), handled \subseteq handled',
           \A m \in Msg : m.e = e /\ main[m] + retry[m] > 0
                            => \E k \in Msg : k.e = e /\ main'[k] + retry'[k] > 0,
           \A c \in Loops : Held(c) /\ loop[c].m.e = e => Held(c)' /\ loop'[c].m.e = e,
           dead[e] > 0 /\ failures[e] > Tiers => dead'[e] > 0 /\ failures'[e] > Tiers
    PROVE  Accounted(e)'
BY DEF Accounted

\* One loop moves, to a state that is a loop.
LEMMA MoveLoop ==
    ASSUME RabbitTypeOK, NEW c \in Loops, NEW l \in Loop, loop' = [loop EXCEPT ![c] = l]
    PROVE  /\ loop' \in [Loops -> Loop] /\ loop'[c] = l
           /\ \A d \in Loops : d # c => loop'[d] = loop[d]
BY DEF RabbitTypeOK

\* A queue gains or loses a copy.
LEMMA AddFacts ==
    ASSUME NEW S, NEW f \in [S -> Nat], NEW k \in S
    PROVE  /\ AddOne(f, k) \in [S -> Nat] /\ AddOne(f, k)[k] = f[k] + 1
           /\ \A j \in S : j # k => AddOne(f, k)[j] = f[j]
           /\ \A j \in S : AddOne(f, k)[j] >= f[j]
           /\ f[k] > 0 => TakeOne(f, k) \in [S -> Nat]
           /\ \A j \in S : j # k => TakeOne(f, k)[j] = f[j]
BY DEF AddOne, TakeOne

\* Publishing queues a first copy.
LEMMA PublishStep == ASSUME RabbitIInv, NEW e \in Events, Publish(e) PROVE RabbitIInv'
<1> DEFINE m == [e |-> e, n |-> 0]
<1> USE DEF RabbitIInv
<1>1. /\ main' = AddOne(main, m) /\ accepted' = accepted \cup {e}
      /\ UNCHANGED <<retry, dead, declared, clientVars, loop, handled, failures>>
    BY DEF Publish
<1>2. m \in Msg /\ m.e = e /\ m.n = 0
    BY Shapes
<1>3. /\ main \in [Msg -> Nat] /\ retry \in [Msg -> Nat] /\ failures \in [Events -> Nat]
    BY DEF RabbitTypeOK
<1>4. /\ main' \in [Msg -> Nat] /\ main'[m] = main[m] + 1
      /\ \A j \in Msg : j # m => main'[j] = main[j]
    BY <1>1, <1>2, <1>3, AddFacts
<1>5. RabbitTypeOK'
    BY <1>1, <1>4 DEF RabbitTypeOK, clientVars
<1>6. CopiesCounted'
  <2>1. ASSUME NEW j \in Msg, main'[j] + retry'[j] > 0 PROVE j.n <= failures'[j.e]
    <3>1. CASE j = m
        BY <1>1, <1>2, <1>3, <3>1
    <3>2. CASE j # m
        BY <1>1, <1>4, <2>1, <3>2 DEF CopiesCounted
    <3> QED
        BY <3>1, <3>2
  <2> QED
      BY <1>1, <2>1 DEF CopiesCounted
<1>7. AllAccounted'
  <2> SUFFICES ASSUME NEW x \in accepted' PROVE Accounted(x)'
      BY DEF AllAccounted
  <2>1. CASE x = e
    <3>1. main'[m] + retry'[m] > 0
        BY <1>1, <1>2, <1>3, <1>4
    <3> QED
        BY <1>2, <2>1, <3>1 DEF Accounted
  <2>2. CASE x # e
    <3>1. Accounted(x)
        BY <1>1, <2>2 DEF AllAccounted
    <3>2. \A j \in Msg : j.e = x => main'[j] = main[j]
        BY <1>2, <1>4, <2>2
    <3> QED
        BY <1>1, <3>1, <3>2, Kept DEF Held
  <2> QED
      BY <2>1, <2>2
<1> QED
    BY <1>5, <1>6, <1>7

\* A delivery is held by the loop that takes it.
LEMMA DeliverStep == ASSUME RabbitIInv, NEW c \in Loops, NEW m \in Msg, Deliver(c, m) PROVE RabbitIInv'
<1> DEFINE l == [loop[c] EXCEPT !.at = "run", !.m = m]
<1> USE DEF RabbitIInv
<1>1. /\ loop[c].at = "idle" /\ loop[c].live /\ main[m] > 0
      /\ main' = TakeOne(main, m) /\ loop' = [loop EXCEPT ![c] = l]
      /\ UNCHANGED <<retry, dead, declared, historyVars, clientVars>>
    BY DEF Deliver
<1>2. l \in Loop /\ l.at = "run" /\ l.m = m /\ l.live
    BY <1>1 DEF RabbitTypeOK, Loop
<1>3. /\ loop' \in [Loops -> Loop] /\ loop'[c] = l
      /\ \A d \in Loops : d # c => loop'[d] = loop[d]
    BY <1>1, <1>2, MoveLoop
<1>4. main \in [Msg -> Nat] /\ retry \in [Msg -> Nat]
    BY DEF RabbitTypeOK
<1>5. /\ main' \in [Msg -> Nat]
      /\ \A j \in Msg : j # m => main'[j] = main[j]
    BY <1>1, <1>4, AddFacts
<1>6. RabbitTypeOK'
    BY <1>1, <1>3, <1>5 DEF RabbitTypeOK, historyVars, clientVars
<1>7. m.n <= failures[m.e]
    BY <1>1, <1>4 DEF CopiesCounted
<1>8. CopiesCounted'
  <2>1. ASSUME NEW j \in Msg, main'[j] + retry'[j] > 0 PROVE j.n <= failures'[j.e]
      BY <1>1, <1>5, <1>7, <2>1 DEF CopiesCounted, historyVars
  <2>2. ASSUME NEW d \in Loops
        PROVE  /\ loop'[d].at \in {"run", "ack"} => loop'[d].m.n <= failures'[loop'[d].m.e]
               /\ loop'[d].at = "route" => loop'[d].m.n < failures'[loop'[d].m.e]
      BY <1>1, <1>2, <1>3, <1>7 DEF CopiesCounted, historyVars
  <2> QED
      BY <2>1, <2>2 DEF CopiesCounted
<1>9. AllAccounted'
  <2> SUFFICES ASSUME NEW x \in accepted PROVE Accounted(x)'
      BY <1>1 DEF AllAccounted, historyVars
  <2>1. CASE x = m.e
    <3>1. Held(c)' /\ loop'[c].m.e = x
        BY <1>2, <1>3, <2>1 DEF Held
    <3> QED
        BY <3>1 DEF Accounted
  <2>2. CASE x # m.e
    <3>1. \A j \in Msg : j.e = x => main'[j] = main[j]
        BY <1>5, <2>2
    <3>2. \A d \in Loops : Held(d) => Held(d)' /\ loop'[d] = loop[d]
        BY <1>1, <1>3 DEF Held
    <3> QED
        BY <1>1, <3>1, <3>2, Kept DEF AllAccounted, historyVars
  <2> QED
      BY <2>1, <2>2
<1> QED
    BY <1>6, <1>8, <1>9

\* A loop that holds nothing moves between its idle states, and the queues stay as they are.
LEMMA IdleMove ==
    ASSUME RabbitIInv, UNCHANGED <<main, retry, dead, historyVars>>,
           loop' \in [Loops -> Loop],
           \A c \in Loops : loop'[c] = loop[c] \/ (~Held(c) /\ loop'[c].at \in {"none", "idle"})
    PROVE  CopiesCounted' /\ AllAccounted'
<1> USE DEF RabbitIInv
<1>1. CopiesCounted'
  <2>1. \A m \in Msg : main'[m] + retry'[m] > 0 => m.n <= failures'[m.e]
      BY DEF CopiesCounted, historyVars
  <2>2. ASSUME NEW d \in Loops
        PROVE  /\ loop'[d].at \in {"run", "ack"} => loop'[d].m.n <= failures'[loop'[d].m.e]
               /\ loop'[d].at = "route" => loop'[d].m.n < failures'[loop'[d].m.e]
      BY DEF CopiesCounted, historyVars
  <2> QED
      BY <2>1, <2>2 DEF CopiesCounted
<1>2. AllAccounted'
  <2> SUFFICES ASSUME NEW x \in accepted PROVE Accounted(x)'
      BY DEF AllAccounted, historyVars
  <2>1. \A d \in Loops : Held(d) => Held(d)' /\ loop'[d] = loop[d]
      BY DEF Held
  <2> QED
      BY <2>1, Kept DEF AllAccounted, historyVars
<1> QED
    BY <1>1, <1>2

\* The handler returns nil, and the event is handled, or it fails.
LEMMA ExecuteStep == ASSUME RabbitIInv, NEW c \in Loops, executeRabbitHandler(c) PROVE RabbitIInv'
<1> DEFINE e == loop[c].m.e
<1> USE DEF RabbitIInv
<1>1. /\ loop[c].at = "run" /\ loop[c] \in Loop /\ loop[c].m \in Msg /\ e \in Events
      /\ UNCHANGED <<brokerVars, accepted, clientVars>>
    BY Shapes DEF executeRabbitHandler, RabbitTypeOK, Loop
<1>2. c[1] \in Handlers
    BY DEF Loops
<1>3. failures \in [Events -> Nat] /\ loop[c].m.n \in Nat
    BY <1>1, Shapes, RabbitAssumption DEF RabbitTypeOK
<1>4. CASE loop' = [loop EXCEPT ![c].at = "ack"] /\ handled' = handled \cup {<<c[1], e>>}
           /\ failures' = failures
  <2>1. /\ loop' \in [Loops -> Loop]
        /\ loop'[c].at = "ack" /\ loop'[c].m = loop[c].m
        /\ \A d \in Loops : d # c => loop'[d] = loop[d]
      BY <1>1, <1>4 DEF RabbitTypeOK, Loop
  <2>2. RabbitTypeOK'
      BY <1>1, <1>2, <1>4, <2>1 DEF RabbitTypeOK, brokerVars, clientVars
  <2>3. CopiesCounted'
    <3>1. \A m \in Msg : main'[m] + retry'[m] > 0 => m.n <= failures'[m.e]
        BY <1>1, <1>4 DEF CopiesCounted, brokerVars
    <3>2. ASSUME NEW d \in Loops
          PROVE  /\ loop'[d].at \in {"run", "ack"} => loop'[d].m.n <= failures'[loop'[d].m.e]
                 /\ loop'[d].at = "route" => loop'[d].m.n < failures'[loop'[d].m.e]
        BY <1>1, <1>4, <2>1 DEF CopiesCounted
    <3> QED
        BY <3>1, <3>2 DEF CopiesCounted
  <2>4. ASSUME NEW x \in accepted PROVE Accounted(x)'
    <3>1. CASE x = e
        BY <1>2, <1>4, <3>1 DEF Accounted
    <3>2. CASE x # e
      <4>1. \A d \in Loops : Held(d) /\ loop[d].m.e = x => Held(d)' /\ loop'[d].m.e = x
          BY <2>1, <3>2 DEF Held
      <4> QED
          BY <1>1, <1>4, <4>1, Kept DEF AllAccounted, brokerVars
    <3> QED
        BY <3>1, <3>2
  <2> QED
      BY <1>1, <2>2, <2>3, <2>4 DEF AllAccounted
<1>5. CASE loop' = [loop EXCEPT ![c].at = "route"] /\ failures' = AddOne(failures, e)
           /\ handled' = handled
  <2>1. /\ loop' \in [Loops -> Loop]
        /\ loop'[c].at = "route" /\ loop'[c].m = loop[c].m /\ loop'[c].live = loop[c].live
        /\ \A d \in Loops : d # c => loop'[d] = loop[d]
      BY <1>1, <1>5 DEF RabbitTypeOK, Loop
  <2>2. /\ failures' \in [Events -> Nat] /\ failures'[e] = failures[e] + 1
        /\ \A x \in Events : failures'[x] >= failures[x]
      BY <1>1, <1>3, <1>5, AddFacts
  <2>3. RabbitTypeOK'
      BY <1>1, <1>5, <2>1, <2>2 DEF RabbitTypeOK, brokerVars, clientVars
  <2>4. \A m \in Msg : m.n \in Nat /\ failures[m.e] \in Nat /\ failures'[m.e] \in Nat
                       /\ failures'[m.e] >= failures[m.e]
      BY <1>3, <2>2, Shapes, RabbitAssumption
  <2>5. CopiesCounted'
    <3>1. ASSUME NEW m \in Msg, main'[m] + retry'[m] > 0 PROVE m.n <= failures'[m.e]
      <4>1. m.n <= failures[m.e]
          BY <1>1, <3>1 DEF CopiesCounted, brokerVars
      <4> QED
          BY <2>4, <4>1
    <3>2. ASSUME NEW d \in Loops
          PROVE  /\ loop'[d].at \in {"run", "ack"} => loop'[d].m.n <= failures'[loop'[d].m.e]
                 /\ loop'[d].at = "route" => loop'[d].m.n < failures'[loop'[d].m.e]
      <4>1. loop[d].m \in Msg /\ loop'[d].m = loop[d].m
          BY <2>1 DEF RabbitTypeOK, Loop
      <4>2. CASE d = c
        <5>1. loop[c].m.n <= failures[e]
            BY <1>1 DEF CopiesCounted
        <5>2. loop[c].m.n < failures'[e]
            BY <1>1, <1>3, <2>2, <5>1
        <5> QED
            BY <2>1, <4>2, <5>2
      <4>3. CASE d # c
          BY <2>1, <2>4, <4>1, <4>3 DEF CopiesCounted
      <4> QED
          BY <4>2, <4>3
    <3> QED
        BY <3>1, <3>2 DEF CopiesCounted
  <2>6. ASSUME NEW x \in accepted PROVE Accounted(x)'
    <3>1. x \in Events
        BY DEF RabbitTypeOK
    <3>2. \A d \in Loops : Held(d) /\ loop[d].m.e = x => Held(d)' /\ loop'[d].m.e = x
        BY <1>1, <2>1 DEF Held
    <3>3. dead[x] > 0 /\ failures[x] > Tiers => dead'[x] > 0 /\ failures'[x] > Tiers
        BY <1>1, <1>3, <2>2, <3>1, RabbitAssumption DEF brokerVars
    <3> QED
        BY <1>1, <1>5, <3>2, <3>3, Kept DEF AllAccounted, brokerVars
  <2> QED
      BY <1>1, <2>3, <2>5, <2>6 DEF AllAccounted
<1> QED
    BY <1>4, <1>5 DEF executeRabbitHandler

\* Routing a failed delivery: to the next tier, to the dead letters, or nowhere when the channel
\* has ended, and then the broker has queued it again.
LEMMA RouteStep == ASSUME RabbitIInv, NEW c \in Loops, handleDelivery(c) PROVE RabbitIInv'
<1> DEFINE m == loop[c].m
           r == [m EXCEPT !.n = getRetryCount(m) + 1]
<1> USE DEF RabbitIInv
<1>1. /\ loop[c].at = "route" /\ loop[c] \in Loop /\ m \in Msg
      /\ m.e \in Events /\ m.n \in 0..Tiers /\ m.n < failures[m.e]
      /\ loop' = [loop EXCEPT ![c].at = "ack"]
      /\ UNCHANGED <<main, declared, historyVars, clientVars>>
    BY Shapes DEF handleDelivery, RabbitTypeOK, Loop, CopiesCounted
<1>2. /\ loop' \in [Loops -> Loop]
      /\ loop'[c].at = "ack" /\ loop'[c].m = m
      /\ \A d \in Loops : d # c => loop'[d] = loop[d]
    BY <1>1 DEF RabbitTypeOK, Loop
<1>3. /\ main \in [Msg -> Nat] /\ retry \in [Msg -> Nat] /\ dead \in [Events -> Nat]
      /\ failures \in [Events -> Nat]
    BY DEF RabbitTypeOK
<1>4. ASSUME NEW d \in Loops
      PROVE  /\ loop'[d].at \in {"run", "ack"} => loop'[d].m.n <= failures'[loop'[d].m.e]
             /\ loop'[d].at = "route" => loop'[d].m.n < failures'[loop'[d].m.e]
  <2>1. CASE d = c
    <3>1. m.n <= failures[m.e]
        BY <1>1, <1>3, RabbitAssumption
    <3> QED
        BY <1>1, <1>2, <2>1, <3>1 DEF historyVars
  <2>2. CASE d # c
      BY <1>1, <1>2, <2>2 DEF CopiesCounted, historyVars
  <2> QED
      BY <2>1, <2>2
<1>5. ASSUME NEW x \in accepted, x # m.e, \A j \in Msg : retry'[j] >= retry[j],
             \A e \in Events : dead'[e] >= dead[e], retry' \in [Msg -> Nat],
             dead' \in [Events -> Nat]
      PROVE  Accounted(x)'
  <2>1. \A d \in Loops : Held(d) /\ loop[d].m.e = x => Held(d)' /\ loop'[d].m.e = x
      BY <1>2, <1>5 DEF Held
  <2>2. \A j \in Msg : main[j] + retry[j] > 0 => main'[j] + retry'[j] > 0
      BY <1>1, <1>3, <1>5
  <2>3. dead[x] > 0 /\ failures[x] > Tiers => dead'[x] > 0 /\ failures'[x] > Tiers
      BY <1>1, <1>3, <1>5 DEF RabbitTypeOK, historyVars
  <2> QED
      BY <1>1, <2>1, <2>2, <2>3, Kept DEF AllAccounted, historyVars
<1>6. CASE getRetryCount(m) < Tiers /\ retry' = AddOne(retry, r) /\ dead' = dead
  <2>1. r \in Msg /\ r.e = m.e /\ r.n = m.n + 1
      BY <1>1, <1>6, RabbitAssumption DEF Msg, getRetryCount
  <2>2. /\ retry' \in [Msg -> Nat] /\ retry'[r] = retry[r] + 1
        /\ \A j \in Msg : j # r => retry'[j] = retry[j]
        /\ \A j \in Msg : retry'[j] >= retry[j]
    <3> HIDE DEF r
    <3> QED
        BY <1>3, <1>6, <2>1, AddFacts
  <2>3. RabbitTypeOK'
      BY <1>1, <1>2, <1>6, <2>2 DEF RabbitTypeOK, historyVars, clientVars
  <2>4. ASSUME NEW j \in Msg, main'[j] + retry'[j] > 0 PROVE j.n <= failures'[j.e]
    <3>1. CASE j = r
      <4>1. m.n + 1 <= failures[m.e]
          BY <1>1, <1>3, RabbitAssumption
      <4> QED
          BY <1>1, <2>1, <3>1, <4>1 DEF historyVars
    <3>2. CASE j # r
        BY <1>1, <2>2, <2>4, <3>2 DEF CopiesCounted, historyVars
    <3> QED
        BY <3>1, <3>2
  <2>5. ASSUME NEW x \in accepted PROVE Accounted(x)'
    <3>1. CASE x = m.e
      <4>1. main'[r] + retry'[r] > 0
        <5> HIDE DEF r
        <5> QED
            BY <1>1, <1>3, <2>1, <2>2
      <4> QED
          BY <2>1, <3>1, <4>1 DEF Accounted
    <3>2. CASE x # m.e
        BY <1>3, <1>5, <1>6, <2>2, <3>2
    <3> QED
        BY <3>1, <3>2
  <2> QED
      BY <1>1, <1>4, <2>3, <2>4, <2>5 DEF CopiesCounted, AllAccounted, historyVars
<1>7. CASE getRetryCount(m) >= Tiers /\ dead' = AddOne(dead, m.e) /\ retry' = retry
  <2>1. /\ dead' \in [Events -> Nat] /\ dead'[m.e] = dead[m.e] + 1
        /\ \A e \in Events : dead'[e] >= dead[e]
      BY <1>1, <1>3, <1>7, AddFacts
  <2>2. RabbitTypeOK'
      BY <1>1, <1>2, <1>7, <2>1 DEF RabbitTypeOK, historyVars, clientVars
  <2>3. \A j \in Msg : main'[j] + retry'[j] > 0 => j.n <= failures'[j.e]
      BY <1>1, <1>7 DEF CopiesCounted, historyVars
  <2>4. ASSUME NEW x \in accepted PROVE Accounted(x)'
    <3>1. CASE x = m.e
      <4>1. failures[m.e] > Tiers
          BY <1>1, <1>3, <1>7, RabbitAssumption DEF getRetryCount
      <4>2. dead'[x] > 0 /\ failures'[x] > Tiers
          BY <1>1, <1>3, <2>1, <3>1, <4>1 DEF historyVars
      <4> QED
          BY <4>2 DEF Accounted
    <3>2. CASE x # m.e
        BY <1>3, <1>5, <1>7, <2>1, <3>2
    <3> QED
        BY <3>1, <3>2
  <2> QED
      BY <1>1, <1>4, <2>2, <2>3, <2>4 DEF CopiesCounted, AllAccounted, historyVars
<1>8. CASE ~loop[c].live /\ UNCHANGED <<retry, dead>>
  <2>1. RabbitTypeOK'
      BY <1>1, <1>2, <1>8 DEF RabbitTypeOK, historyVars, clientVars
  <2>2. \A j \in Msg : main'[j] + retry'[j] > 0 => j.n <= failures'[j.e]
      BY <1>1, <1>8 DEF CopiesCounted, historyVars
  <2>3. ASSUME NEW x \in accepted PROVE Accounted(x)'
    <3>1. \A d \in Loops : Held(d) => Held(d)' /\ loop'[d] = loop[d]
        BY <1>2, <1>8 DEF Held
    <3> QED
        BY <1>1, <1>8, <3>1, Kept DEF AllAccounted, historyVars
  <2> QED
      BY <1>1, <1>4, <2>1, <2>2, <2>3 DEF CopiesCounted, AllAccounted, historyVars
<1> QED
    BY <1>6, <1>7, <1>8 DEF handleDelivery

\* A loop acknowledges, ends, or is started: it held nothing that is not accounted for.
LEMMA AckStep ==
    ASSUME RabbitIInv, NEW c \in Loops, Ack(c) \/ consumeLoop(c) PROVE RabbitIInv'
<1> USE DEF RabbitIInv
<1>1. UNCHANGED <<brokerVars, historyVars, clientVars>> /\ ~Held(c)
    BY DEF Ack, consumeLoop, Held
<1>2. /\ loop' \in [Loops -> Loop] /\ loop'[c].at \in {"none", "idle"}
      /\ \A d \in Loops : d # c => loop'[d] = loop[d]
  <2>1. CASE Ack(c)
      BY <2>1 DEF Ack, RabbitTypeOK, Loop
  <2>2. CASE consumeLoop(c)
      BY <2>2, Shapes DEF consumeLoop, RabbitTypeOK
  <2> QED
      BY <2>1, <2>2
<1>3. RabbitTypeOK'
    BY <1>1, <1>2 DEF RabbitTypeOK, brokerVars, historyVars, clientVars
<1> QED
    BY <1>1, <1>2, <1>3, IdleMove DEF brokerVars

\* A subscription, or its replay, starts a loop or fails.
LEMMA StartFacts ==
    ASSUME RabbitTypeOK, NEW c \in Loops, startConsumer(c)
    PROVE  /\ loop' \in [Loops -> Loop] /\ channels' \subseteq Loops /\ declared' \in BOOLEAN
           /\ \A d \in Loops : loop'[d] = loop[d] \/ (~Held(d) /\ loop'[d].at \in {"none", "idle"})
<1>1. CASE UNCHANGED <<channels, declared, loop>>
    BY <1>1 DEF RabbitTypeOK
<1>2. CASE /\ loop[c].at = "none" /\ channels' = channels \cup {c} /\ declared' = TRUE
           /\ loop' = [loop EXCEPT ![c] = [@ EXCEPT !.at = "idle", !.live = TRUE]]
  <2>1. [loop[c] EXCEPT !.at = "idle", !.live = TRUE] \in Loop
      BY DEF RabbitTypeOK, Loop
  <2>2. /\ loop' \in [Loops -> Loop] /\ loop'[c].at = "idle"
        /\ \A d \in Loops : d # c => loop'[d] = loop[d]
      BY <1>2, <2>1 DEF RabbitTypeOK, Loop
  <2> QED
      BY <1>2, <2>2 DEF RabbitTypeOK, Held
<1>3. CASE /\ channels' = channels \cup {c} /\ declared' \in {declared, TRUE}
           /\ UNCHANGED loop
    BY <1>3 DEF RabbitTypeOK
<1> QED
    BY <1>1, <1>2, <1>3 DEF startConsumer

\* Starting the loop of a subscription, by Subscribe or by the replay, keeps the invariant.
LEMMA StartStep ==
    ASSUME RabbitIInv, (\E h \in Handlers : StartSubscribed(h)) \/ Replay PROVE RabbitIInv'
<1> USE DEF RabbitIInv
<1>1. CASE \E h \in Handlers : StartSubscribed(h)
  <2>1. PICK h \in Handlers : StartSubscribed(h)
      BY <1>1
  <2>2. <<h, "subscribe">> \in Loops
      BY DEF Loops
  <2>3. UNCHANGED <<main, retry, dead, historyVars, link, lost, healer, replay, closer>>
      BY <2>1 DEF StartSubscribed
  <2>4. subscriber' \in [Handlers -> {"new", "listed", "done", "refused"}]
      BY <2>1 DEF StartSubscribed, RabbitTypeOK
  <2>5. /\ loop' \in [Loops -> Loop] /\ channels' \subseteq Loops /\ declared' \in BOOLEAN
        /\ \A d \in Loops : loop'[d] = loop[d] \/ (~Held(d) /\ loop'[d].at \in {"none", "idle"})
      BY <2>1, <2>2, StartFacts DEF StartSubscribed
  <2>6. RabbitTypeOK'
      BY <2>3, <2>4, <2>5 DEF RabbitTypeOK, historyVars
  <2> QED
      BY <2>3, <2>5, <2>6, IdleMove
<1>2. CASE Replay
  <2>1. UNCHANGED <<main, retry, dead, historyVars, link, lost, subscriber, closer>>
      BY <1>2 DEF Replay
  <2>2. CASE \E h \in replay : startConsumer(<<h, "replay">>) /\ replay' = replay \ {h}
             /\ UNCHANGED healer
    <3>1. PICK h \in Handlers : startConsumer(<<h, "replay">>) /\ replay' = replay \ {h}
                               /\ UNCHANGED healer
        BY <2>2 DEF RabbitTypeOK
    <3>2. <<h, "replay">> \in Loops
        BY DEF Loops
    <3>3. /\ loop' \in [Loops -> Loop] /\ channels' \subseteq Loops /\ declared' \in BOOLEAN
          /\ \A d \in Loops : loop'[d] = loop[d]
                               \/ (~Held(d) /\ loop'[d].at \in {"none", "idle"})
        BY <3>1, <3>2, StartFacts
    <3>4. RabbitTypeOK'
        BY <2>1, <3>1, <3>3 DEF RabbitTypeOK, historyVars
    <3> QED
        BY <2>1, <3>3, <3>4, IdleMove
  <2>3. CASE healer' = "watch" /\ UNCHANGED <<replay, channels, declared, loop>>
    <3>1. RabbitTypeOK'
        BY <2>1, <2>3 DEF RabbitTypeOK, historyVars
    <3>2. loop' \in [Loops -> Loop]
        BY <3>1 DEF RabbitTypeOK
    <3> QED
        BY <2>1, <2>3, <3>1, <3>2, IdleMove
  <2> QED
      BY <1>2, <2>2, <2>3 DEF Replay
<1> QED
    BY <1>1, <1>2

\* A copy whose delay is over moves to the main queue.
LEMMA ExpireRetryStep == ASSUME RabbitIInv, NEW m \in Msg, ExpireRetry(m) PROVE RabbitIInv'
<1> USE DEF RabbitIInv
<1>1. /\ retry[m] > 0 /\ retry' = TakeOne(retry, m) /\ main' = AddOne(main, m)
      /\ UNCHANGED <<dead, declared, historyVars, clientVars, loop>>
    BY DEF ExpireRetry
<1>2. main \in [Msg -> Nat] /\ retry \in [Msg -> Nat]
    BY DEF RabbitTypeOK
<1>3. /\ main' \in [Msg -> Nat] /\ main'[m] = main[m] + 1 /\ retry' \in [Msg -> Nat]
      /\ \A j \in Msg : j # m => main'[j] = main[j] /\ retry'[j] = retry[j]
    BY <1>1, <1>2, AddFacts
<1>4. RabbitTypeOK'
    BY <1>1, <1>3 DEF RabbitTypeOK, historyVars, clientVars
<1>5. ASSUME NEW j \in Msg, main'[j] + retry'[j] > 0 PROVE j.n <= failures'[j.e]
  <2>1. main[j] + retry[j] > 0
    <3>1. CASE j = m
        BY <1>1, <1>2, <3>1
    <3>2. CASE j # m
        BY <1>3, <1>5, <3>2
    <3> QED
        BY <3>1, <3>2
  <2> QED
      BY <1>1, <2>1 DEF CopiesCounted, historyVars
<1>6. CopiesCounted'
    BY <1>1, <1>5 DEF CopiesCounted, historyVars
<1>7. ASSUME NEW x \in accepted PROVE Accounted(x)'
  <2>1. \A j \in Msg : main[j] + retry[j] > 0 => main'[j] + retry'[j] > 0
    <3> SUFFICES ASSUME NEW j \in Msg, main[j] + retry[j] > 0 PROVE main'[j] + retry'[j] > 0
        OBVIOUS
    <3>1. CASE j = m
        BY <1>2, <1>3, <3>1
    <3>2. CASE j # m
        BY <1>3, <3>2
    <3> QED
        BY <3>1, <3>2
  <2>2. \A d \in Loops : Held(d) => Held(d)' /\ loop'[d] = loop[d]
      BY <1>1 DEF Held
  <2> QED
      BY <1>1, <2>1, <2>2, Kept DEF AllAccounted, historyVars
<1> QED
    BY <1>1, <1>4, <1>6, <1>7 DEF AllAccounted, historyVars

\* A connection or the channels of an old one end.
LEMMA CloseStep ==
    ASSUME RabbitIInv, ConnectionLost \/ CloseOldChannels \/ CloseConnection PROVE RabbitIInv'
<1> USE DEF RabbitIInv
<1>1. PICK C \in SUBSET Loops : CloseChannels(C)
    BY DEF ConnectionLost, CloseOldChannels, CloseConnection, RabbitTypeOK
<1>2. UNCHANGED <<retry, dead, declared, historyVars, subscriber>>
    BY DEF ConnectionLost, CloseOldChannels, CloseConnection
<1>3. main' \in [Msg -> Nat] /\ loop' \in [Loops -> Loop]
    BY <1>1, Requeue
<1>4. /\ link' \in {"up", "down"} /\ lost' \in 0..MaxLosses /\ channels' \subseteq Loops
      /\ healer' \in {"watch", "dial", "dialled", "connected", "wait", "replay", "ended"}
      /\ replay' \subseteq Handlers /\ closer' \in {"open", "waiting", "waited", "closed"}
  <2>1. CASE ConnectionLost
      BY <2>1, RabbitAssumption DEF ConnectionLost, RabbitTypeOK
  <2>2. CASE CloseOldChannels
      BY <2>2 DEF CloseOldChannels, RabbitTypeOK
  <2>3. CASE CloseConnection
      BY <2>3 DEF CloseConnection, RabbitTypeOK
  <2> QED
      BY <2>1, <2>2, <2>3
<1>5. RabbitTypeOK'
    BY <1>2, <1>3, <1>4 DEF RabbitTypeOK, historyVars
<1> QED
    BY <1>1, <1>2, <1>5, RequeueStep

\* Steps of Subscribe, the reconnection and Close that touch neither queue nor loop.
LEMMA ControlStep ==
    ASSUME RabbitIInv,
           \/ \E h \in Handlers : Subscribe(h)
           \/ reconnectLoop \/ reconnectWithBackoff \/ UseConnection \/ WaitForLoops \/ Close
    PROVE  RabbitIInv'
<1> USE DEF RabbitIInv
<1>1. UNCHANGED <<brokerVars, historyVars, lost, loop, channels, replay>>
    BY DEF Subscribe, reconnectLoop, reconnectWithBackoff, UseConnection, WaitForLoops, Close
<1>2. subscriber' \in [Handlers -> {"new", "listed", "done", "refused"}]
    BY DEF Subscribe, reconnectLoop, reconnectWithBackoff, UseConnection, WaitForLoops, Close,
           RabbitTypeOK
<1>3. /\ link' \in {"up", "down"}
      /\ healer' \in {"watch", "dial", "dialled", "connected", "wait", "replay", "ended"}
      /\ closer' \in {"open", "waiting", "waited", "closed"}
    BY DEF Subscribe, reconnectLoop, reconnectWithBackoff, UseConnection, WaitForLoops, Close,
           RabbitTypeOK
<1>4. RabbitTypeOK'
    BY <1>1, <1>2, <1>3 DEF RabbitTypeOK, brokerVars, historyVars
<1>5. loop' \in [Loops -> Loop]
    BY <1>4 DEF RabbitTypeOK
<1> QED
    BY <1>1, <1>4, <1>5, IdleMove DEF brokerVars

-----------------------------------------------------------------------------
\* The initial state satisfies the invariant.
LEMMA RabbitInitIInv == RabbitInit => RabbitIInv
<1> SUFFICES ASSUME RabbitInit PROVE RabbitIInv
    OBVIOUS
<1>1. RabbitTypeOK
    BY Shapes, RabbitAssumption DEF RabbitInit, RabbitTypeOK
<1>2. \A c \in Loops : loop[c].at = "none"
    BY Shapes DEF RabbitInit
<1>3. \A m \in Msg : main[m] = 0 /\ retry[m] = 0
    BY DEF RabbitInit
<1>4. CopiesCounted
    BY <1>2, <1>3 DEF CopiesCounted
<1>5. AllAccounted
    BY DEF RabbitInit, AllAccounted
<1> QED
    BY <1>1, <1>4, <1>5 DEF RabbitIInv

\* Every step keeps the invariant.
LEMMA RabbitStep == RabbitIInv /\ [RabbitNext]_rabbitVars => RabbitIInv'
<1> SUFFICES ASSUME RabbitIInv, [RabbitNext]_rabbitVars PROVE RabbitIInv'
    OBVIOUS
<1>1. CASE UNCHANGED rabbitVars
  <2>1. UNCHANGED <<main, retry, dead, declared, link, lost, subscriber, loop, channels, healer,
                    replay, closer, accepted, handled, failures>>
      BY <1>1 DEF rabbitVars, brokerVars, historyVars, clientVars
  <2> QED
      BY <2>1 DEF RabbitIInv, RabbitTypeOK, CopiesCounted, AllAccounted, Accounted, Held
<1>2. CASE RabbitNext
    BY <1>2, PublishStep, DeliverStep, ExecuteStep, RouteStep, AckStep, StartStep, ExpireRetryStep,
       CloseStep, ControlStep
       DEF RabbitNext
<1> QED
    BY <1>1, <1>2

\* The inductive invariant is stronger than the property.
LEMMA IInvImplies == RabbitIInv => AcceptedIsAccounted
BY DEF RabbitIInv, AllAccounted, Accounted, AcceptedIsAccounted, Held, Unacked

\* The inductive invariant holds in every reachable state.
THEOREM RabbitInvariant == RabbitSpec => []RabbitIInv
BY RabbitInitIInv, RabbitStep, PTL DEF RabbitSpec

\* Types: among them that no queue is taken below empty.
THEOREM RabbitTypes == RabbitSpec => []RabbitTypeOK
BY RabbitInvariant, PTL DEF RabbitIInv

\* An event the broker has queued is never lost, wherever connections are lost and however Close
\* and a reconnection meet, and a dead letter has failed once in every tier and once before.
THEOREM AcceptedStaysAccounted == RabbitSpec => []AcceptedIsAccounted
BY RabbitInvariant, IInvImplies, PTL

-----------------------------------------------------------------------------
(* Migrations.                                                             *)

\* What a command of each kind can be doing.
Stages == [none |-> {"new"},
           up |-> {"track", "read", "apply", "commit", "ok", "failed"},
           down |-> {"read", "revert", "commit", "ok", "failed"},
           seed |-> {"seed", "create", "index", "ok", "failed"}]

\* The shape of a command.
Commands == [op : {"none", "up", "down", "seed"},
             at : {"new", "track", "read", "apply", "revert", "commit", "seed", "create", "index", "ok", "failed"},
             i : 0..Len(Plan), m : Mods, applied : SUBSET Nat, v : Nat,
             todo : SUBSET Listed, c : Listed \cup {""}]

\* Every command is at a stage of its kind, and one that has not begun is new.
CommandTypeOK ==
    /\ cmd \in [Operators -> Commands]
    /\ \A p \in Operators : cmd[p].at \in Stages[cmd[p].op] /\ (cmd[p].op = "none" => cmd[p] = NoCommand)

\* A rollback runs alone, and the versions of each module are the first ones.
Orderly ==
    /\ \A p, q \in Operators : Rolling(p) /\ Running(q) => p = q
    /\ \A m \in Mods : \E k \in 0..Files[m] : recorded[m] = 1..k

\* What a command has read still holds: the versions before the one an `up` is about to
\* commit are recorded, and a `down` takes the last one.
ReadsHold(p) ==
    LET c == cmd[p] IN
    /\ c.op = "up" /\ c.at \in {"apply", "commit"} => c.applied \subseteq recorded[c.m]
    /\ c.op = "up" /\ c.at = "commit" => 1..(c.v - 1) \subseteq recorded[c.m]
    /\ c.op = "down" /\ c.at = "revert" => c.applied \in {{}, recorded[c.m]}
    /\ c.op = "down" /\ c.at = "commit" => c.v > 0 /\ recorded[c.m] = 1..c.v

\* The modules an `up` has passed are complete.
Passed(p) ==
    LET c == cmd[p] IN
    /\ c.op = "up" /\ c.at \in {"read", "apply", "commit"} =>
          /\ c.i \in 1..Len(Plan) /\ c.m = Plan[c.i]
          /\ \A j \in 1..(c.i - 1) : recorded[Plan[j]] = Versions(Plan[j])
    /\ c.at = "track" => c.m = Plan[1]
    /\ c.op = "up" /\ c.at = "ok" => \A m \in Mods : recorded[m] = Versions(m)

\* Only versions with a file are read, applied or reverted.
OnFile(p) ==
    LET c == cmd[p] IN
    /\ c.at \in {"apply", "revert", "commit"} => c.applied \subseteq Versions(c.m)
    /\ c.op = "up" /\ c.at = "commit" => c.v \in Versions(c.m)

\* A seed has done what is no longer to do.
SeedSoFar(p) ==
    LET c == cmd[p] IN
    /\ c.op = "seed" /\ c.at # "failed" => Listed \ c.todo \subseteq indexes
    /\ c.at = "index" => c.c \in collections
    /\ c.op = "seed" /\ c.at = "ok" => c.todo = {}
    /\ c.at \in {"create", "index"} => c.c \in Listed

\* The inductive invariant of the migrations: order and reads hold until a rollback overlaps
\* another command, and what an `up` has passed holds where none may run.
MigrateIInv ==
    /\ MigrateTypeOK /\ CommandTypeOK
    /\ tables = recorded
    /\ overlapped => ~NoRollback
    /\ ~overlapped => Orderly /\ \A p \in Operators : ReadsHold(p)
    /\ NoRollback => \A p \in Operators : Passed(p)
    /\ \A p \in Operators : OnFile(p) /\ SeedSoFar(p)
    /\ \A m \in Mods : recorded[m] \subseteq Versions(m)
    /\ server = "ready" /\ NoRollback => 1 \in recorded["core"]
-----------------------------------------------------------------------------
\* The plan is a non-empty list of modules that have versions.
LEMMA PlanFacts ==
    /\ Len(Plan) \in Nat \ {0} /\ \A i \in 1..Len(Plan) : Plan[i] \in Mods
    /\ \A m \in Mods : Files[m] \in Nat /\ Versions(m) \subseteq Nat
    /\ \A m \in Mods : \E i \in 1..Len(Plan) : m = Plan[i]
    /\ NoCommand \in Commands
<1>1. Plan \in Seq(Mods) /\ "core" \in Mods /\ Files \in [Mods -> Nat]
    BY MigrateAssumption
<1>2. Len(Plan) \in Nat /\ DOMAIN Plan = 1..Len(Plan) /\ \A i \in 1..Len(Plan) : Plan[i] \in Mods
    BY <1>1
<1>3. \A m \in Mods : \E i \in 1..Len(Plan) : m = Plan[i]
    BY <1>2 DEF Mods
<1>4. Len(Plan) # 0
    BY <1>1, <1>2, <1>3
<1>5. \A m \in Mods : Files[m] \in Nat /\ Versions(m) \subseteq Nat
    BY <1>1 DEF Versions
<1>6. NoCommand \in Commands
    BY <1>2, <1>4 DEF NoCommand, Commands
<1> QED
    BY <1>2, <1>3, <1>4, <1>5, <1>6

\* The first versions have a lowest and a highest one.
LEMMA Extremes ==
    /\ \A k \in Nat \ {0} : Highest(1..k) = k
    /\ \A n \in Nat : \A S \in SUBSET (1..n) : S # {} => Highest(S) \in S
    /\ \A S \in SUBSET Nat : S # {} => Lowest(S) \in S /\ \A w \in S : Lowest(S) <= w
<1>1. ASSUME NEW k \in Nat \ {0} PROVE Highest(1..k) = k
  <2>1. k \in 1..k /\ \A w \in 1..k : w <= k
      OBVIOUS
  <2>2. \A v \in 1..k : (\A w \in 1..k : w <= v) => v = k
      OBVIOUS
  <2> QED
      BY <2>1, <2>2 DEF Highest
<1>2. \A S \in SUBSET Nat : S # {} => \E v \in S : \A w \in S : v <= w
  <2> SUFFICES ASSUME NEW S \in SUBSET Nat, S # {} PROVE \E v \in S : \A w \in S : v <= w
      OBVIOUS
  <2>1. \E v \in S : \A w \in S : ~ (<<w, v>> \in OpToRel(<, Nat))
      BY NatLessThanWellFounded, WFMin
  <2>2. \A v, w \in S : w < v => <<w, v>> \in OpToRel(<, Nat)
      BY DEF OpToRel
  <2>3. \A v, w \in S : ~ (w < v) => v <= w
      OBVIOUS
  <2> QED
      BY <2>1, <2>2, <2>3
<1>3. ASSUME NEW S \in SUBSET Nat, S # {}
      PROVE  Lowest(S) \in S /\ \A w \in S : Lowest(S) <= w
    BY <1>2, <1>3 DEF Lowest
<1>4. ASSUME NEW n \in Nat, NEW S \in SUBSET (1..n), S # {}
      PROVE  Highest(S) \in S
  <2> DEFINE T == {n - x : x \in S}
  <2>1. T \in SUBSET Nat /\ T # {}
    <3>1. ASSUME NEW x \in S PROVE n - x \in Nat
      <4>1. x \in 1..n
          BY <3>1
      <4> QED
          BY <4>1
    <3> QED
        BY <1>4, <3>1
  <2>2. PICK y \in T : \A w \in T : y <= w
      BY <1>2, <2>1
  <2>3. PICK x \in S : y = n - x
      BY <2>2
  <2>4. \A w \in S : n - w \in T /\ w \in Int
      OBVIOUS
  <2>5. ASSUME NEW w \in S PROVE w <= x
    <3>1. n - x <= n - w /\ w \in Int /\ x \in Int
        BY <2>2, <2>3, <2>4
    <3> QED
        BY <3>1
  <2> QED
      BY <2>5 DEF Highest
<1> QED
    BY <1>1, <1>3, <1>4
\* What a command does tells which one it is; only one that has not begun is none.
LEMMA StageFacts ==
    /\ Stages["up"] = {"track", "read", "apply", "commit", "ok", "failed"}
    /\ Stages["down"] = {"read", "revert", "commit", "ok", "failed"}
    /\ Stages["seed"] = {"seed", "create", "index", "ok", "failed"}
    /\ CommandTypeOK => \A p \in Operators :
          /\ cmd[p] \in Commands /\ cmd[p].at \in Stages[cmd[p].op]
          /\ cmd[p].at = "new" <=> cmd[p].op = "none"
          /\ Running(p) => cmd[p].op \in {"up", "down", "seed"}
          /\ cmd[p].at \in {"track", "apply"} => cmd[p].op = "up"
          /\ cmd[p].at \in {"read", "commit"} => cmd[p].op \in {"up", "down"}
          /\ cmd[p].at = "revert" => cmd[p].op = "down"
          /\ cmd[p].at \in {"seed", "create", "index"} => cmd[p].op = "seed"
<1>1. /\ Stages["up"] = {"track", "read", "apply", "commit", "ok", "failed"}
      /\ Stages["down"] = {"read", "revert", "commit", "ok", "failed"}
      /\ Stages["seed"] = {"seed", "create", "index", "ok", "failed"}
      /\ Stages["none"] = {"new"}
    BY DEF Stages
<1>2. ASSUME CommandTypeOK, NEW p \in Operators
      PROVE  cmd[p] \in Commands /\ cmd[p].op \in {"none", "up", "down", "seed"} /\ cmd[p].at \in Stages[cmd[p].op]
    BY <1>2 DEF CommandTypeOK, Commands
<1> QED
    BY <1>1, <1>2 DEF Running

-----------------------------------------------------------------------------
(* Every step keeps the invariant.                                         *)

\* A running command moves on without writing the tables or rows of versions: the invariant
\* follows from what the command itself then knows.
LEMMA CommandMoves ==
    ASSUME MigrateIInv, NEW p \in Operators, Running(p),
           UNCHANGED <<tables, recorded, server, overlapped>>, tracking' \in BOOLEAN,
           collections \subseteq collections', collections' \subseteq Listed,
           indexes \subseteq indexes', indexes' \subseteq collections',
           NEW c \in Commands, cmd' = [cmd EXCEPT ![p] = c],
           c.op = cmd[p].op, c.at \in Stages[c.op],
           ~overlapped => ReadsHold(p)', NoRollback => Passed(p)', OnFile(p)', SeedSoFar(p)'
    PROVE  MigrateIInv'
<1>1. /\ MigrateTypeOK /\ CommandTypeOK /\ cmd \in [Operators -> Commands]
      /\ tables = recorded /\ (overlapped => ~NoRollback)
    BY DEF MigrateIInv, CommandTypeOK
<1>2. cmd' \in [Operators -> Commands] /\ cmd'[p] = c /\ \A q \in Operators \ {p} : cmd'[q] = cmd[q]
    BY <1>1
<1>3. c.op # "none"
    BY <1>1, StageFacts
<1>4. (NoRollback' <=> NoRollback) /\ \A q \in Operators : (Running(q)' => Running(q)) /\ (Rolling(q)' => Rolling(q))
    BY <1>2 DEF NoRollback, Running, Rolling
<1>5. CommandTypeOK'
  <2>1. ASSUME NEW q \in Operators
        PROVE  cmd'[q].at \in Stages[cmd'[q].op] /\ (cmd'[q].op = "none" => cmd'[q] = NoCommand)
      BY <1>1, <1>2, <1>3 DEF CommandTypeOK
  <2> QED
      BY <1>2, <2>1 DEF CommandTypeOK
<1>6. MigrateTypeOK'
  <2>1. \A q \in Operators : cmd'[q].m \in Mods /\ cmd'[q].i \in 0..Len(Plan) /\ cmd'[q].todo \subseteq Listed
      BY <1>2 DEF Commands
  <2> QED
      BY <1>1, <2>1 DEF MigrateTypeOK
<1>7. ~overlapped => Orderly' /\ \A q \in Operators : ReadsHold(q)'
  <2>1. ~overlapped => Orderly'
      BY <1>4 DEF MigrateIInv, Orderly
  <2>2. \A q \in Operators \ {p} : ReadsHold(q) => ReadsHold(q)'
      BY <1>2 DEF ReadsHold
  <2> QED
      BY <2>1, <2>2 DEF MigrateIInv
<1>8. NoRollback' => \A q \in Operators : Passed(q)'
  <2>1. \A q \in Operators \ {p} : Passed(q) => Passed(q)'
      BY <1>2 DEF Passed
  <2> QED
      BY <1>4, <2>1 DEF MigrateIInv
<1>9. (\A q \in Operators : OnFile(q)' /\ SeedSoFar(q)') /\ (\A m \in Mods : recorded'[m] \subseteq Versions(m))
  <2>1. \A q \in Operators \ {p} : SeedSoFar(q) => SeedSoFar(q)'
      BY <1>2 DEF SeedSoFar
  <2>2. \A q \in Operators \ {p} : OnFile(q) => OnFile(q)'
      BY <1>2 DEF OnFile
  <2> QED
      BY <2>1, <2>2 DEF MigrateIInv
<1>10. server' = "ready" /\ NoRollback' => 1 \in recorded'["core"]
    BY <1>4 DEF MigrateIInv
<1> QED
    BY <1>1, <1>4, <1>5, <1>6, <1>7, <1>8, <1>9, <1>10 DEF MigrateIInv

\* The record of a command with some fields replaced is that of a command.
LEMMA FieldsReplaced ==
    ASSUME CommandTypeOK, NEW p \in Operators
    PROVE  /\ cmd[p] \in Commands /\ cmd[p].at \in Stages[cmd[p].op]
           /\ \A at \in {"read", "apply", "revert", "commit", "seed", "create", "index", "ok", "failed"} :
                /\ [cmd[p] EXCEPT !.at = at] \in Commands
                /\ \A vs \in SUBSET Nat : [cmd[p] EXCEPT !.at = at, !.applied = vs] \in Commands
                /\ \A v \in Nat : [cmd[p] EXCEPT !.at = at, !.v = v] \in Commands
                /\ \A i \in 0..Len(Plan) : [cmd[p] EXCEPT !.at = at, !.i = i] \in Commands
                /\ \A i \in 0..Len(Plan), m \in Mods : [cmd[p] EXCEPT !.at = at, !.i = i, !.m = m] \in Commands
                /\ \A k \in Listed : [cmd[p] EXCEPT !.at = at, !.c = k] \in Commands
                /\ \A T \in SUBSET Listed : [cmd[p] EXCEPT !.at = at, !.todo = T] \in Commands
<1>1. cmd[p] \in Commands /\ cmd[p].at \in Stages[cmd[p].op]
    BY DEF CommandTypeOK
<1> SUFFICES ASSUME NEW at \in {"read", "apply", "revert", "commit", "seed", "create", "index", "ok", "failed"}
         PROVE  /\ [cmd[p] EXCEPT !.at = at] \in Commands
                /\ \A vs \in SUBSET Nat : [cmd[p] EXCEPT !.at = at, !.applied = vs] \in Commands
                /\ \A v \in Nat : [cmd[p] EXCEPT !.at = at, !.v = v] \in Commands
                /\ \A i \in 0..Len(Plan) : [cmd[p] EXCEPT !.at = at, !.i = i] \in Commands
                /\ \A i \in 0..Len(Plan), m \in Mods : [cmd[p] EXCEPT !.at = at, !.i = i, !.m = m] \in Commands
                /\ \A k \in Listed : [cmd[p] EXCEPT !.at = at, !.c = k] \in Commands
                /\ \A T \in SUBSET Listed : [cmd[p] EXCEPT !.at = at, !.todo = T] \in Commands
    BY <1>1
<1>2. [cmd[p] EXCEPT !.at = at] \in Commands
    BY <1>1 DEF Commands
<1>3. \A vs \in SUBSET Nat : [cmd[p] EXCEPT !.at = at, !.applied = vs] \in Commands
    BY <1>1 DEF Commands
<1>4. \A v \in Nat : [cmd[p] EXCEPT !.at = at, !.v = v] \in Commands
    BY <1>1 DEF Commands
<1>5. \A i \in 0..Len(Plan) : [cmd[p] EXCEPT !.at = at, !.i = i] \in Commands
    BY <1>1 DEF Commands
<1>6. \A i \in 0..Len(Plan), m \in Mods : [cmd[p] EXCEPT !.at = at, !.i = i, !.m = m] \in Commands
    BY <1>1 DEF Commands
<1>7. \A k \in Listed : [cmd[p] EXCEPT !.at = at, !.c = k] \in Commands
    BY <1>1 DEF Commands
<1>8. \A T \in SUBSET Listed : [cmd[p] EXCEPT !.at = at, !.todo = T] \in Commands
    BY <1>1 DEF Commands
<1> QED
    BY <1>2, <1>3, <1>4, <1>5, <1>6, <1>7, <1>8

\* A command fails, or ends after nothing was found to do.
LEMMA KeepsFail ==
    ASSUME MigrateIInv, NEW p \in Operators, Fail(p)
    PROVE  MigrateIInv'
<1>1. CommandTypeOK /\ MigrateTypeOK /\ (\A m \in Mods : recorded[m] \subseteq Versions(m))
    BY DEF MigrateIInv
<1> DEFINE c == [cmd[p] EXCEPT !.at = "failed"]
<1>2. c \in Commands /\ cmd[p] \in Commands /\ cmd[p].at \in Stages[cmd[p].op]
    BY <1>1, FieldsReplaced
<1>3. cmd' = [cmd EXCEPT ![p] = c] /\ Running(p)
    BY <1>1 DEF Fail, Moves, CommandTypeOK
<1>4. c.op = cmd[p].op /\ c.at = "failed" /\ cmd'[p] = c
    BY <1>1, <1>2, <1>3 DEF CommandTypeOK, Commands
<1>5. c.op # "none"
    BY <1>1, <1>3, <1>4, StageFacts
<1>6. c.at \in Stages[c.op]
    BY <1>1, <1>2, <1>3, <1>4, <1>5, StageFacts
<1>7. ReadsHold(p)' /\ Passed(p)' /\ OnFile(p)' /\ SeedSoFar(p)'
    BY <1>4 DEF ReadsHold, Passed, OnFile, SeedSoFar
<1>8. UNCHANGED <<tables, recorded, tracking, collections, indexes, server, overlapped>>
    BY DEF Fail, Rollback, Seeded
<1> QED
    BY <1>1, <1>2, <1>3, <1>4, <1>6, <1>7, <1>8, CommandMoves DEF MigrateTypeOK
\* Calls that only move the command on.  The tracking table is there: the first module comes next.
LEMMA KeepsTrack ==
    ASSUME MigrateIInv, NEW p \in Operators, ensureTrackingTable(p)
    PROVE  MigrateIInv'
<1> DEFINE c == [cmd[p] EXCEPT !.at = "read", !.i = 1]
<1>1. CommandTypeOK /\ MigrateTypeOK /\ (\A m \in Mods : recorded[m] \subseteq Versions(m)) /\ (NoRollback => Passed(p)) /\ (~overlapped => ReadsHold(p)) /\ OnFile(p) /\ SeedSoFar(p)
    BY DEF MigrateIInv
<1>2. cmd[p] \in Commands /\ cmd[p].op = "up" /\ cmd[p].at = "track" /\ Running(p)
    BY <1>1, StageFacts DEF ensureTrackingTable, Running
<1>3. c \in Commands
  <2>1. 1 \in 0..Len(Plan)
      BY PlanFacts
  <2>2. CommandTypeOK
      BY <1>1
  <2> QED
      BY <2>1, <2>2, FieldsReplaced
<1>4. cmd' = [cmd EXCEPT ![p] = c]
    BY <1>1 DEF ensureTrackingTable, CommandTypeOK
<1>5. cmd'[p] = c /\ c.op = "up" /\ c.at = "read" /\ c.i = 1 /\ c.m = cmd[p].m /\ c.todo = cmd[p].todo
    BY <1>1, <1>2, <1>4 DEF CommandTypeOK, Commands
<1>6. NoRollback => Passed(p)'
    BY <1>1, <1>2, <1>5, PlanFacts DEF Passed
<1>7. ReadsHold(p)' /\ OnFile(p)' /\ SeedSoFar(p)'
    BY <1>5 DEF ReadsHold, OnFile, SeedSoFar
<1>8. UNCHANGED <<tables, recorded, collections, indexes, server, overlapped>> /\ tracking' \in BOOLEAN
    BY DEF ensureTrackingTable, Seeded
<1> QED
    BY <1>1, <1>2, <1>3, <1>4, <1>5, <1>6, <1>7, <1>8, CommandMoves, StageFacts DEF MigrateTypeOK

\* The versions that are recorded are read, or none is.
LEMMA KeepsRead ==
    ASSUME MigrateIInv, NEW p \in Operators, appliedVersions(p)
    PROVE  MigrateIInv'
<1> DEFINE next == IF cmd[p].op = "up" THEN "apply" ELSE "revert"
<1>1. CommandTypeOK /\ MigrateTypeOK /\ (\A m \in Mods : recorded[m] \subseteq Versions(m)) /\ (NoRollback => Passed(p)) /\ (~overlapped => ReadsHold(p)) /\ OnFile(p) /\ SeedSoFar(p)
    BY DEF MigrateIInv
<1>2. cmd[p] \in Commands /\ cmd[p].op \in {"up", "down"} /\ cmd[p].at = "read" /\ Running(p)
    BY <1>1, StageFacts DEF appliedVersions, Running
<1>3. PICK vs \in {recorded[cmd[p].m], {}} : cmd' = [cmd EXCEPT ![p].at = next, ![p].applied = vs]
    BY DEF appliedVersions
<1> DEFINE c == [cmd[p] EXCEPT !.at = next, !.applied = vs]
<1>4. vs \in SUBSET Nat
  <2>1. cmd[p].m \in Mods
      BY <1>2 DEF Commands
  <2>2. recorded[cmd[p].m] \in SUBSET Nat
      BY <1>1, <2>1 DEF MigrateTypeOK
  <2> QED
      BY <2>2
<1>5. c \in Commands
    BY <1>1, <1>4, FieldsReplaced
<1>6. cmd' = [cmd EXCEPT ![p] = c]
    BY <1>1, <1>3 DEF CommandTypeOK
<1>7. /\ cmd'[p] = c /\ c.op = cmd[p].op /\ c.at = next /\ c.applied = vs
      /\ c.i = cmd[p].i /\ c.m = cmd[p].m /\ c.todo = cmd[p].todo
    BY <1>1, <1>2, <1>6 DEF CommandTypeOK, Commands
<1>8. UNCHANGED <<tracking, tables, recorded, collections, indexes, server, overlapped>>
    BY DEF appliedVersions, Schema, Seeded
<1>9. NoRollback => Passed(p)'
    BY <1>1, <1>2, <1>7, <1>8 DEF Passed
<1>10. ReadsHold(p)' /\ OnFile(p)' /\ SeedSoFar(p)'
  <2>1. vs \subseteq Versions(cmd[p].m)
      BY <1>1, <1>2 DEF Commands
  <2> QED
      BY <1>2, <1>7, <1>8, <2>1 DEF ReadsHold, OnFile, SeedSoFar
<1>11. c.at \in Stages[c.op]
    BY <1>2, <1>7, StageFacts
<1> QED
    BY <1>1, <1>2, <1>5, <1>6, <1>7, <1>8, <1>9, <1>10, <1>11, CommandMoves DEF MigrateTypeOK

\* The lowest version that is pending is begun: those before it are recorded.
LEMMA KeepsApply ==
    ASSUME MigrateIInv, NEW p \in Operators, migrateUp(p)
    PROVE  MigrateIInv'
<1> DEFINE v == Lowest(Pending(p))
           c == IF Creates(cmd[p].m, v) THEN [cmd[p] EXCEPT !.at = "commit", !.v = v]
                ELSE [cmd[p] EXCEPT !.at = "failed"]
<1>1. CommandTypeOK /\ MigrateTypeOK /\ (\A m \in Mods : recorded[m] \subseteq Versions(m)) /\ (NoRollback => Passed(p)) /\ (~overlapped => ReadsHold(p)) /\ OnFile(p) /\ SeedSoFar(p)
    BY DEF MigrateIInv
<1>2. cmd[p] \in Commands /\ cmd[p].op = "up" /\ cmd[p].at = "apply" /\ Running(p) /\ cmd[p].m \in Mods
    BY <1>1, StageFacts DEF migrateUp, Running, Commands
<1>3. Pending(p) \in SUBSET Nat /\ Pending(p) # {}
    BY <1>2, PlanFacts DEF Pending, migrateUp
<1>4. v \in Versions(cmd[p].m) /\ v \in Nat \ {0} /\ 1..(v - 1) \subseteq cmd[p].applied
  <2>1. v \in Pending(p) /\ \A w \in Pending(p) : v <= w
      BY <1>3, Extremes
  <2>2. v \in Versions(cmd[p].m) /\ \A w \in Versions(cmd[p].m) : w \notin cmd[p].applied => v <= w
      BY <2>1 DEF Pending
  <2>3. Files[cmd[p].m] \in Nat
      BY <1>2, PlanFacts
  <2> QED
      BY <2>2, <2>3 DEF Versions
<1>5. c \in Commands
    BY <1>1, <1>4, FieldsReplaced
<1>6. cmd' = [cmd EXCEPT ![p] = c]
    BY <1>1 DEF migrateUp, CommandTypeOK
<1>7. /\ cmd'[p] = c /\ c.op = "up" /\ c.at \in {"commit", "failed"} /\ (c.at = "commit" => c.v = v)
      /\ c.i = cmd[p].i /\ c.m = cmd[p].m /\ c.applied = cmd[p].applied /\ c.todo = cmd[p].todo
    BY <1>1, <1>2, <1>4, <1>6 DEF CommandTypeOK, Commands
<1>8. UNCHANGED <<tracking, tables, recorded, collections, indexes, server, overlapped>>
    BY DEF migrateUp, Schema, Seeded
<1>9. NoRollback => Passed(p)'
    BY <1>1, <1>2, <1>7, <1>8 DEF Passed
<1>10. ~overlapped => ReadsHold(p)'
  <2>1. ~overlapped => cmd[p].applied \subseteq recorded[cmd[p].m]
      BY <1>1, <1>2 DEF ReadsHold
  <2> QED
      BY <2>1, <1>4, <1>7, <1>8 DEF ReadsHold, Versions
<1>11. OnFile(p)' /\ SeedSoFar(p)'
    BY <1>1, <1>2, <1>4, <1>7 DEF OnFile, SeedSoFar
<1>12. c.at \in Stages[c.op]
    BY <1>7, StageFacts
<1> HIDE DEF c
<1> QED
    BY <1>1, <1>2, <1>5, <1>6, <1>7, <1>8, <1>9, <1>10, <1>11, <1>12, CommandMoves DEF MigrateTypeOK
\* Nothing is pending: the module is complete, and the next one comes.
LEMMA KeepsNextModule ==
    ASSUME MigrateIInv, NEW p \in Operators, NextModule(p)
    PROVE  MigrateIInv'
<1> DEFINE last == cmd[p].i = Len(Plan)
           c == IF last THEN [cmd[p] EXCEPT !.at = "ok"]
                ELSE [cmd[p] EXCEPT !.at = "read", !.i = @ + 1, !.m = Plan[cmd[p].i + 1]]
<1>1. CommandTypeOK /\ MigrateTypeOK /\ (\A m \in Mods : recorded[m] \subseteq Versions(m)) /\ (overlapped => ~NoRollback) /\ OnFile(p) /\ SeedSoFar(p)
      /\ (NoRollback => Passed(p)) /\ (~overlapped => ReadsHold(p) /\ Orderly)
    BY DEF MigrateIInv
<1>2. cmd[p] \in Commands /\ cmd[p].op = "up" /\ cmd[p].at = "apply" /\ Running(p) /\ cmd[p].m \in Mods /\ cmd[p].i \in 0..Len(Plan)
    BY <1>1, StageFacts DEF NextModule, Running, Commands
<1>3. c \in Commands
  <2>1. CASE last
      BY <1>1, <2>1, FieldsReplaced
  <2>2. CASE ~last
    <3>1. cmd[p].i + 1 \in 1..Len(Plan) /\ cmd[p].i + 1 \in 0..Len(Plan)
        BY <1>2, <2>2, PlanFacts
    <3>2. Plan[cmd[p].i + 1] \in Mods /\ CommandTypeOK
        BY <1>1, <3>1, PlanFacts
    <3> QED
        BY <2>2, <3>1, <3>2, FieldsReplaced
  <2> QED
      BY <2>1, <2>2
<1>4. cmd' = [cmd EXCEPT ![p] = c]
  <2>1. CASE last
      BY <1>1, <2>1 DEF NextModule, CommandTypeOK
  <2>2. CASE ~last
      BY <1>1, <2>2 DEF NextModule, CommandTypeOK
  <2> QED
      BY <2>1, <2>2
<1>5. /\ cmd'[p] = c /\ c.op = "up" /\ c.at = (IF last THEN "ok" ELSE "read") /\ c.todo = cmd[p].todo
      /\ ~last => c.i = cmd[p].i + 1 /\ c.m = Plan[cmd[p].i + 1]
    BY <1>1, <1>2, <1>4 DEF CommandTypeOK, Commands
<1>6. UNCHANGED <<tracking, tables, recorded, collections, indexes, server, overlapped>>
    BY DEF NextModule, Schema, Seeded
<1>7. NoRollback => recorded[cmd[p].m] = Versions(cmd[p].m)
  <2> SUFFICES ASSUME NoRollback PROVE recorded[cmd[p].m] = Versions(cmd[p].m)
      OBVIOUS
  <2>1. cmd[p].applied \subseteq recorded[cmd[p].m] /\ Versions(cmd[p].m) \subseteq cmd[p].applied
      BY <1>1, <1>2 DEF ReadsHold, NextModule, Pending
  <2>2. PICK k \in 0..Files[cmd[p].m] : recorded[cmd[p].m] = 1..k
      BY <1>1, <1>2 DEF Orderly
  <2> QED
      BY <1>2, <2>1, <2>2, PlanFacts DEF Versions
<1>8. NoRollback => Passed(p)'
  <2> SUFFICES ASSUME NoRollback PROVE Passed(p)'
      OBVIOUS
  <2>1. cmd[p].i \in 1..Len(Plan) /\ \A j \in 1..cmd[p].i : recorded[Plan[j]] = Versions(Plan[j])
    <3>1. /\ cmd[p].i \in 1..Len(Plan) /\ cmd[p].m = Plan[cmd[p].i]
          /\ \A j \in 1..(cmd[p].i - 1) : recorded[Plan[j]] = Versions(Plan[j])
        BY <1>1, <1>2 DEF Passed
    <3>2. \A j \in 1..cmd[p].i : j = cmd[p].i \/ j \in 1..(cmd[p].i - 1)
        BY <3>1
    <3> QED
        BY <1>7, <3>1, <3>2
  <2>2. CASE last
    <3>1. \A m \in Mods : recorded[m] = Versions(m)
        BY <2>1, <2>2, PlanFacts
    <3> QED
        BY <1>5, <1>6, <2>2, <3>1 DEF Passed
  <2>3. CASE ~last
    <3>1. c.i - 1 = cmd[p].i /\ c.i \in 1..Len(Plan)
        BY <1>2, <1>5, <2>1, <2>3, PlanFacts
    <3> QED
        BY <1>5, <1>6, <2>1, <2>3, <3>1 DEF Passed
  <2> QED
      BY <2>2, <2>3
<1>9. ReadsHold(p)' /\ OnFile(p)' /\ SeedSoFar(p)'
    BY <1>5 DEF ReadsHold, OnFile, SeedSoFar
<1>10. c.at \in Stages[c.op]
    BY <1>5, StageFacts
<1> HIDE DEF c
<1> QED
    BY <1>1, <1>2, <1>3, <1>4, <1>5, <1>6, <1>8, <1>9, <1>10, CommandMoves DEF MigrateTypeOK

\* The last version a rollback has read as applied is the last one recorded.
LEMMA KeepsRevert ==
    ASSUME MigrateIInv, NEW p \in Operators, migrateDown(p)
    PROVE  MigrateIInv'
<1> DEFINE v == Highest(cmd[p].applied)
<1>1. CommandTypeOK /\ MigrateTypeOK /\ (\A m \in Mods : recorded[m] \subseteq Versions(m)) /\ (NoRollback => Passed(p)) /\ (~overlapped => ReadsHold(p)) /\ OnFile(p) /\ SeedSoFar(p)
    BY DEF MigrateIInv
<1>2. cmd[p] \in Commands /\ cmd[p].op = "down" /\ cmd[p].at = "revert" /\ Running(p) /\ cmd[p].m \in Mods
    BY <1>1, StageFacts DEF migrateDown, Running, Commands
<1>3. UNCHANGED <<tracking, tables, recorded, collections, indexes, server, overlapped>>
    BY DEF migrateDown, Schema, Seeded
<1>4. \/ cmd' = [cmd EXCEPT ![p] = [cmd[p] EXCEPT !.at = "failed"]]
      \/ cmd[p].applied # {} /\ cmd' = [cmd EXCEPT ![p] = [cmd[p] EXCEPT !.at = "commit", !.v = v]]
    BY <1>1 DEF migrateDown, Moves, CommandTypeOK
<1>5. CASE cmd' = [cmd EXCEPT ![p] = [cmd[p] EXCEPT !.at = "failed"]]
    BY <1>2, <1>3, <1>5, KeepsFail DEF Fail, Moves, Rollback, Seeded
<1>6. CASE cmd[p].applied # {} /\ cmd' = [cmd EXCEPT ![p] = [cmd[p] EXCEPT !.at = "commit", !.v = v]]
  <2> DEFINE c == [cmd[p] EXCEPT !.at = "commit", !.v = v]
  <2>1. cmd[p].applied \in SUBSET Nat /\ cmd[p].applied # {}
      BY <1>2, <1>6 DEF Commands
  <2>2. v \in Nat /\ (~overlapped => v > 0 /\ recorded[cmd[p].m] = 1..v)
    <3>1. v \in cmd[p].applied
      <4>1. cmd[p].applied \in SUBSET (1..Files[cmd[p].m]) /\ Files[cmd[p].m] \in Nat
          BY <1>1, <1>2, PlanFacts DEF OnFile, Versions
      <4> QED
          BY <2>1, <4>1, Extremes
    <3>2. ASSUME ~overlapped PROVE v > 0 /\ recorded[cmd[p].m] = 1..v
      <4>1. PICK k \in Nat : recorded[cmd[p].m] = 1..k
          BY <1>2, <3>2, PlanFacts DEF MigrateIInv, Orderly
      <4>2. cmd[p].applied = 1..k /\ k # 0
          BY <1>1, <1>2, <1>6, <3>2, <4>1 DEF ReadsHold
      <4>3. v = k
          BY <4>1, <4>2, Extremes
      <4> QED
          BY <4>1, <4>2, <4>3
    <3> QED
        BY <2>1, <3>1, <3>2
  <2>3. c \in Commands
      BY <1>1, <2>2, FieldsReplaced
  <2>4. /\ cmd'[p] = c /\ c.op = "down" /\ c.at = "commit" /\ c.v = v
          /\ c.m = cmd[p].m /\ c.todo = cmd[p].todo /\ c.applied = cmd[p].applied
      BY <1>1, <1>2, <1>6 DEF CommandTypeOK, Commands
  <2>5. NoRollback => Passed(p)'
      BY <1>2 DEF NoRollback
  <2>6. (~overlapped => ReadsHold(p)') /\ OnFile(p)' /\ SeedSoFar(p)'
      BY <1>1, <1>2, <1>3, <2>2, <2>4 DEF ReadsHold, OnFile, SeedSoFar
  <2>7. c.at \in Stages[c.op]
      BY <2>4, StageFacts
  <2>8. cmd' = [cmd EXCEPT ![p] = c]
      BY <1>6
  <2> HIDE DEF c
  <2> QED
      BY <1>1, <1>2, <1>3, <2>3, <2>4, <2>5, <2>6, <2>7, <2>8, CommandMoves DEF MigrateTypeOK
<1> QED
    BY <1>4, <1>5, <1>6
\* A seed looks a collection up, creates it, sees to its indexes and ends when none is left.
LEMMA KeepsSeed ==
    ASSUME MigrateIInv, NEW p \in Operators,
           \/ \E k \in Listed : ensureCollection(p, k)
           \/ CreateCollection(p) \/ ensureIndex(p) \/ SeedDone(p)
    PROVE  MigrateIInv'
<1>1. CommandTypeOK /\ MigrateTypeOK /\ SeedSoFar(p)
    BY DEF MigrateIInv
<1>2. cmd[p] \in Commands /\ cmd[p].op = "seed" /\ cmd[p].at \in {"seed", "create", "index"} /\ Running(p)
    BY <1>1, StageFacts DEF ensureCollection, CreateCollection, ensureIndex, SeedDone, Running
<1>3. UNCHANGED <<tracking, tables, recorded, server, overlapped>>
    BY DEF ensureCollection, CreateCollection, ensureIndex, SeedDone, Schema
<1>4. collections \subseteq Listed /\ indexes \subseteq collections /\ Listed \ cmd[p].todo \subseteq indexes
      /\ cmd[p].todo \subseteq Listed /\ (cmd[p].at \in {"create", "index"} => cmd[p].c \in Listed)
    BY <1>1, <1>2 DEF MigrateTypeOK, SeedSoFar, Commands
<1> DEFINE MovesOn(c) ==
        /\ c \in Commands /\ c.op = "seed" /\ c.at \in Stages["seed"] /\ cmd' = [cmd EXCEPT ![p] = c] /\ cmd'[p] = c
        /\ collections \subseteq collections' /\ collections' \subseteq Listed
        /\ indexes \subseteq indexes' /\ indexes' \subseteq collections' /\ SeedSoFar(p)'
<1>5. ASSUME NEW k \in Listed, ensureCollection(p, k) PROVE \E c : MovesOn(c)
  <2> DEFINE at == IF k \in collections THEN "index" ELSE "create"
             c == [cmd[p] EXCEPT !.at = at, !.c = k]
  <2>1. c \in Commands
      BY <1>1, FieldsReplaced
  <2>2. cmd' = [cmd EXCEPT ![p] = c] /\ UNCHANGED <<collections, indexes>>
      BY <1>1, <1>5 DEF ensureCollection, CommandTypeOK, Seeded
  <2>3. cmd'[p] = c /\ c.op = "seed" /\ c.at = at /\ c.c = k /\ c.todo = cmd[p].todo
      BY <1>1, <1>2, <2>2 DEF CommandTypeOK, Commands
  <2>4. SeedSoFar(p)'
    <3>1. Listed \ cmd[p].todo \subseteq indexes' /\ (at = "index" => k \in collections')
        BY <1>4, <2>2
    <3>2. at \in {"create", "index"}
        OBVIOUS
    <3> QED
        BY <2>3, <3>1, <3>2 DEF SeedSoFar
  <2> QED
      BY <1>4, <2>1, <2>2, <2>3, <2>4, StageFacts
<1>6. ASSUME CreateCollection(p) PROVE \E c : MovesOn(c)
  <2> DEFINE at == IF cmd[p].c \in collections THEN "failed" ELSE "index"
             c == [cmd[p] EXCEPT !.at = at]
  <2>1. c \in Commands
      BY <1>1, FieldsReplaced
  <2>2. cmd' = [cmd EXCEPT ![p] = c] /\ collections' = collections \cup {cmd[p].c} /\ indexes' = indexes /\ cmd[p].at = "create"
      BY <1>1, <1>6 DEF CreateCollection, Moves, CommandTypeOK
  <2>3. cmd'[p] = c /\ c.op = "seed" /\ c.at = at /\ c.c = cmd[p].c /\ c.todo = cmd[p].todo
      BY <1>1, <1>2, <2>2 DEF CommandTypeOK, Commands
  <2>4. SeedSoFar(p)'
    <3>1. cmd[p].c \in Listed /\ cmd[p].c \in collections' /\ Listed \ cmd[p].todo \subseteq indexes'
        BY <1>4, <2>2
    <3>2. at \in {"failed", "index"}
        OBVIOUS
    <3> QED
        BY <2>3, <3>1, <3>2 DEF SeedSoFar
  <2> QED
      BY <1>4, <2>1, <2>2, <2>3, <2>4, StageFacts
<1>7. ASSUME ensureIndex(p) PROVE \E c : MovesOn(c)
  <2> DEFINE c == [cmd[p] EXCEPT !.at = "seed", !.todo = cmd[p].todo \ {cmd[p].c}]
  <2>1. c \in Commands
      BY <1>1, <1>4, FieldsReplaced
  <2>2. cmd' = [cmd EXCEPT ![p] = c] /\ collections' = collections /\ indexes' = indexes \cup {cmd[p].c} /\ cmd[p].at = "index"
      BY <1>1, <1>7 DEF ensureIndex, CommandTypeOK
  <2>3. cmd'[p] = c /\ c.op = "seed" /\ c.at = "seed" /\ c.todo = cmd[p].todo \ {cmd[p].c}
      BY <1>1, <1>2, <2>2 DEF CommandTypeOK, Commands
  <2>4. SeedSoFar(p)' /\ cmd[p].c \in collections
      BY <1>1, <1>4, <2>2, <2>3 DEF SeedSoFar
  <2> QED
      BY <1>4, <2>1, <2>2, <2>3, <2>4, StageFacts
<1>8. ASSUME SeedDone(p) PROVE \E c : MovesOn(c)
  <2> DEFINE c == [cmd[p] EXCEPT !.at = "ok"]
  <2>1. c \in Commands
      BY <1>1, FieldsReplaced
  <2>2. cmd' = [cmd EXCEPT ![p] = c] /\ UNCHANGED <<collections, indexes>> /\ cmd[p].todo = {}
      BY <1>1, <1>8 DEF SeedDone, Moves, CommandTypeOK, Seeded
  <2>3. cmd'[p] = c /\ c.op = "seed" /\ c.at = "ok" /\ c.todo = {}
      BY <1>1, <1>2, <2>2 DEF CommandTypeOK, Commands
  <2>4. SeedSoFar(p)'
      BY <1>4, <2>2, <2>3 DEF SeedSoFar
  <2> QED
      BY <1>4, <2>1, <2>2, <2>3, <2>4, StageFacts
<1>9. PICK c : MovesOn(c)
    BY <1>5, <1>6, <1>7, <1>8
<1>10. ReadsHold(p)' /\ Passed(p)' /\ OnFile(p)'
    BY <1>9, StageFacts DEF ReadsHold, Passed, OnFile
<1> QED
    BY <1>1, <1>2, <1>3, <1>9, <1>10, CommandMoves DEF MigrateTypeOK
\* A command begins: it overlaps when it or another running one is a rollback.
LEMMA KeepsStart ==
    ASSUME MigrateIInv, NEW p \in Operators, NEW op, NEW m \in Mods, NEW at, NEW todo, Start(p, op, m, at, todo),
           \/ op = "up" /\ at = "track" /\ m = Plan[1] /\ todo = {}
           \/ op = "down" /\ at = "read" /\ todo = {}
           \/ op = "seed" /\ at = "seed" /\ todo = Listed
    PROVE  MigrateIInv'
<1> DEFINE c == [NoCommand EXCEPT !.op = op, !.at = at, !.m = m, !.todo = todo]
<1>1. /\ CommandTypeOK /\ MigrateTypeOK /\ (overlapped => ~NoRollback) /\ tables = recorded
      /\ cmd \in [Operators -> Commands] /\ cmd[p] = NoCommand
    BY DEF MigrateIInv, CommandTypeOK, Start
<1>2. c \in Commands /\ c.op = op /\ c.at = at /\ c.m = m /\ c.todo = todo
    BY PlanFacts DEF Commands, NoCommand
<1>3. cmd' = [cmd EXCEPT ![p] = c]
    BY <1>1 DEF Start
<1>4. cmd' \in [Operators -> Commands] /\ cmd'[p] = c /\ \A q \in Operators \ {p} : cmd'[q] = cmd[q]
    BY <1>1, <1>2, <1>3
<1>5. UNCHANGED <<tracking, tables, recorded, collections, indexes, server>>
    BY DEF Start, Schema, Seeded
<1>6. overlapped' = (overlapped \/ \E q \in Operators \ {p} : Running(q) /\ (op = "down" \/ Rolling(q)))
    BY DEF Start
<1>7. cmd[p].op = "none" /\ cmd[p].at = "new" /\ at \in Stages[op] /\ op # "none"
  <2>1. NoCommand.op = "none" /\ NoCommand.at = "new"
      BY DEF NoCommand
  <2>2. at \in Stages[op] /\ op # "none"
      BY StageFacts
  <2> QED
      BY <1>1, <2>1, <2>2
<1> HIDE DEF c
<1>8. /\ NoRollback' <=> NoRollback /\ op # "down"
      /\ \A q \in Operators \ {p} : (Running(q)' <=> Running(q)) /\ (Rolling(q)' <=> Rolling(q))
      /\ Rolling(p)' <=> op = "down"
  <2>1. \A q \in Operators \ {p} : cmd'[q].op = "down" <=> cmd[q].op = "down"
      BY <1>4
  <2>2. cmd'[p].op = "down" <=> op = "down"
      BY <1>2, <1>4
  <2> QED
      BY <1>2, <1>4, <1>7, <2>1, <2>2 DEF NoRollback, Running, Rolling
<1>9. CommandTypeOK'
  <2>1. cmd'[p].at \in Stages[cmd'[p].op] /\ cmd'[p].op # "none"
      BY <1>2, <1>4, <1>7
  <2> QED
      BY <1>1, <1>4, <2>1 DEF CommandTypeOK
<1>10. MigrateTypeOK'
  <2>1. \A q \in Operators : cmd'[q].m \in Mods /\ cmd'[q].i \in 0..Len(Plan) /\ cmd'[q].todo \subseteq Listed
      BY <1>4 DEF Commands
  <2>2. overlapped' \in BOOLEAN
      BY <1>6
  <2> QED
      BY <1>1, <1>5, <2>1, <2>2 DEF MigrateTypeOK
<1>11. overlapped' => ~NoRollback'
    BY <1>1, <1>6, <1>8 DEF NoRollback, Rolling
<1>12. ~overlapped' => Orderly' /\ \A q \in Operators : ReadsHold(q)'
  <2> SUFFICES ASSUME ~overlapped' PROVE Orderly' /\ \A q \in Operators : ReadsHold(q)'
      OBVIOUS
  <2>1. ~overlapped /\ \A q \in Operators \ {p} : Running(q) => op # "down" /\ ~Rolling(q)
      BY <1>6
  <2>2. Orderly'
    <3>1. ASSUME NEW x \in Operators, NEW y \in Operators, Rolling(x)', Running(y)' PROVE x = y
      <4>1. CASE op = "down"
          BY <1>8, <2>1, <3>1, <4>1 DEF Rolling
      <4>2. CASE op # "down"
        <5>1. Rolling(x) /\ x # p
            BY <1>8, <3>1, <4>2
        <5> QED
            BY <2>1, <5>1 DEF Rolling
      <4> QED
          BY <4>1, <4>2
    <3> QED
        BY <1>5, <2>1, <3>1 DEF MigrateIInv, Orderly
  <2>3. \A q \in Operators \ {p} : ReadsHold(q) => ReadsHold(q)'
      BY <1>4, <1>5 DEF ReadsHold
  <2>4. ReadsHold(p)'
      BY <1>2, <1>4 DEF ReadsHold
  <2> QED
      BY <2>1, <2>2, <2>3, <2>4 DEF MigrateIInv
<1>13. NoRollback' => \A q \in Operators : Passed(q)'
  <2>1. \A q \in Operators \ {p} : Passed(q) => Passed(q)'
      BY <1>4, <1>5 DEF Passed
  <2>2. Passed(p)'
      BY <1>2, <1>4 DEF Passed
  <2> QED
      BY <1>8, <2>1, <2>2 DEF MigrateIInv
<1>14. \A q \in Operators : OnFile(q)' /\ SeedSoFar(q)'
  <2>1. \A q \in Operators \ {p} : OnFile(q) /\ SeedSoFar(q) => OnFile(q)' /\ SeedSoFar(q)'
      BY <1>4, <1>5 DEF OnFile, SeedSoFar
  <2>2. OnFile(p)' /\ SeedSoFar(p)'
      BY <1>2, <1>4 DEF OnFile, SeedSoFar
  <2> QED
      BY <2>1, <2>2 DEF MigrateIInv
<1>15. server' = "ready" /\ NoRollback' => 1 \in recorded'["core"]
    BY <1>5, <1>8 DEF MigrateIInv
<1> QED
    BY <1>1, <1>5, <1>9, <1>10, <1>11, <1>12, <1>13, <1>14, <1>15 DEF MigrateIInv

\* A version is recorded with its tables, next after those recorded; or it was there already.
LEMMA KeepsCommitUp ==
    ASSUME MigrateIInv, NEW p \in Operators, CommitUp(p)
    PROVE  MigrateIInv'
<1> DEFINE m == cmd[p].m
           v == cmd[p].v
<1>1. /\ CommandTypeOK /\ MigrateTypeOK /\ (overlapped => ~NoRollback) /\ tables = recorded
      /\ cmd \in [Operators -> Commands] /\ recorded \in [Mods -> SUBSET Nat]
      /\ (\A k \in Mods : recorded[k] \subseteq Versions(k)) /\ OnFile(p) /\ (~overlapped => ReadsHold(p) /\ Orderly)
    BY DEF MigrateIInv, CommandTypeOK, MigrateTypeOK
<1>2. cmd[p].op = "up" /\ cmd[p].at = "commit" /\ Running(p) /\ m \in Mods /\ v \in Versions(m) /\ v \in Nat
    BY <1>1 DEF CommitUp, Running, Commands, OnFile
<1>3. UNCHANGED <<tracking, collections, indexes, server, overlapped>>
    BY DEF CommitUp, Seeded
<1>4. CASE v \in recorded[m]
  <2>1. Moves(p, "failed") /\ tables' = Rollback(p) /\ UNCHANGED recorded
      BY <1>4 DEF CommitUp
  <2> QED
      BY <1>2, <1>3, <2>1, KeepsFail DEF Fail, Seeded
<1>5. CASE v \notin recorded[m]
  <2>1. /\ recorded' = [recorded EXCEPT ![m] = recorded[m] \cup {v}] /\ tables' = recorded'
        /\ \/ cmd' = [cmd EXCEPT ![p] = [cmd[p] EXCEPT !.at = "apply", !.applied = cmd[p].applied \cup {v}]]
           \/ cmd' = [cmd EXCEPT ![p] = [cmd[p] EXCEPT !.at = "failed"]]
      BY <1>1, <1>5 DEF CommitUp, Moves
  <2>2. cmd[p].applied \cup {v} \in SUBSET Nat
      BY <1>1, <1>2 DEF Commands
  <2>3. PICK c \in Commands : /\ cmd' = [cmd EXCEPT ![p] = c] /\ c.op = "up" /\ c.i = cmd[p].i /\ c.m = m /\ c.todo = cmd[p].todo
                              /\ \/ c.at = "apply" /\ c.applied = cmd[p].applied \cup {v}
                                 \/ c.at = "failed"
    <3>1. /\ [cmd[p] EXCEPT !.at = "apply", !.applied = cmd[p].applied \cup {v}] \in Commands
          /\ [cmd[p] EXCEPT !.at = "failed"] \in Commands
        BY <1>1, <2>2, FieldsReplaced
    <3>2. cmd[p] \in Commands
        BY <1>1
    <3> QED
        BY <1>2, <2>1, <3>1, <3>2 DEF Commands
  <2>4. cmd' \in [Operators -> Commands] /\ cmd'[p] = c /\ \A q \in Operators \ {p} : cmd'[q] = cmd[q]
      BY <1>1, <2>3
  <2>5. /\ recorded' \in [Mods -> SUBSET Nat] /\ recorded'[m] = recorded[m] \cup {v}
        /\ \A k \in Mods : k # m => recorded'[k] = recorded[k]
        /\ \A k \in Mods : recorded[k] \subseteq recorded'[k] /\ recorded'[k] \subseteq Versions(k)
      BY <1>1, <1>2, <2>1
  <2>6. /\ NoRollback' <=> NoRollback
        /\ \A q \in Operators : (Running(q)' => Running(q)) /\ (Rolling(q)' => Rolling(q))
    <3>1. \A q \in Operators : cmd'[q].op = cmd[q].op
        BY <1>2, <2>3, <2>4
    <3> QED
        BY <1>2, <2>4, <3>1 DEF NoRollback, Running, Rolling
  <2>7. CommandTypeOK'
    <3>1. cmd'[p].at \in Stages[cmd'[p].op] /\ cmd'[p].op # "none"
        BY <2>3, <2>4, StageFacts
    <3> QED
        BY <1>1, <2>4, <3>1 DEF CommandTypeOK
  <2>8. MigrateTypeOK'
    <3>1. \A q \in Operators : cmd'[q].m \in Mods /\ cmd'[q].i \in 0..Len(Plan) /\ cmd'[q].todo \subseteq Listed
        BY <2>4 DEF Commands
    <3> QED
        BY <1>1, <1>3, <2>1, <2>5, <3>1 DEF MigrateTypeOK
  <2>9. ~overlapped => Orderly' /\ \A q \in Operators : ReadsHold(q)'
    <3> SUFFICES ASSUME ~overlapped PROVE Orderly' /\ \A q \in Operators : ReadsHold(q)'
        OBVIOUS
    <3>1. PICK n \in 0..Files[m] : recorded[m] = 1..n
        BY <1>1, <1>2 DEF Orderly
    <3>2. Files[m] \in Nat /\ v \in 1..Files[m] /\ 1..(v - 1) \subseteq 1..n
        BY <1>1, <1>2, <3>1, PlanFacts DEF ReadsHold, Versions
    <3>3. v = n + 1
      <4>1. v \notin 1..n
          BY <1>5, <3>1
      <4>2. v - 1 \in 1..(v - 1) \/ v = 1
          BY <3>2
      <4> QED
          BY <3>1, <3>2, <4>1, <4>2
    <3>4. recorded'[m] = 1..v /\ v \in 0..Files[m]
        BY <2>5, <3>1, <3>2, <3>3
    <3>5. Orderly'
      <4>1. \A k \in Mods : \E j \in 0..Files[k] : recorded'[k] = 1..j
          BY <1>1, <2>5, <3>4 DEF Orderly
      <4> QED
          BY <1>1, <2>6, <4>1 DEF Orderly
    <3>6. ASSUME NEW q \in Operators \ {p} PROVE ReadsHold(q)'
      <4>1. ReadsHold(q) /\ cmd'[q] = cmd[q] /\ cmd[q].m \in Mods /\ ~Rolling(q)
          BY <1>1, <1>2, <2>4 DEF MigrateIInv, Orderly, Commands
      <4>2. cmd[q].op = "down" => cmd[q].at \notin {"revert", "commit"}
          BY <4>1 DEF Rolling, Running
      <4>3. recorded[cmd[q].m] \subseteq recorded'[cmd[q].m]
          BY <2>5, <4>1
      <4> QED
          BY <4>1, <4>2, <4>3 DEF ReadsHold
    <3>7. ReadsHold(p)'
      <4>1. cmd[p].applied \subseteq recorded[m]
          BY <1>1, <1>2 DEF ReadsHold
      <4> QED
          BY <2>3, <2>4, <2>5, <4>1 DEF ReadsHold
    <3> QED
        BY <3>5, <3>6, <3>7
  <2>10. NoRollback => \A q \in Operators : Passed(q)'
    <3> SUFFICES ASSUME NoRollback, NEW q \in Operators PROVE Passed(q)'
        OBVIOUS
    <3>1. Passed(q) /\ Passed(p)
        BY DEF MigrateIInv
    <3>2. \A k \in Mods : recorded[k] = Versions(k) => recorded'[k] = Versions(k)
        BY <2>5
    <3>3. \A j \in 1..Len(Plan) : Plan[j] \in Mods
        BY PlanFacts
    <3>4. CASE q # p
      <4>1. cmd'[q] = cmd[q] /\ cmd[q].i \in 0..Len(Plan)
          BY <1>1, <2>4, <3>4 DEF Commands
      <4>2. \A j \in 1..(cmd[q].i - 1) : j \in 1..Len(Plan)
          BY <4>1, PlanFacts
      <4> QED
          BY <3>1, <3>2, <3>3, <4>1, <4>2 DEF Passed
    <3>5. CASE q = p
      <4>1. cmd[p].i \in 1..Len(Plan)
          BY <1>2, <3>1 DEF Passed
      <4>2. \A j \in 1..(cmd[p].i - 1) : j \in 1..Len(Plan)
          BY <4>1, PlanFacts
      <4> QED
          BY <1>2, <2>3, <2>4, <3>1, <3>2, <3>3, <3>5, <4>1, <4>2 DEF Passed
    <3> QED
        BY <3>4, <3>5
  <2>11. \A q \in Operators : OnFile(q)' /\ SeedSoFar(q)'
    <3>1. \A q \in Operators \ {p} : OnFile(q)' /\ SeedSoFar(q)'
        BY <1>3, <2>4 DEF MigrateIInv, OnFile, SeedSoFar
    <3>2. OnFile(p)' /\ SeedSoFar(p)'
        BY <1>1, <1>2, <2>3, <2>4 DEF OnFile, SeedSoFar
    <3> QED
        BY <3>1, <3>2
  <2>12. server' = "ready" /\ NoRollback' => 1 \in recorded'["core"]
      BY <1>3, <2>5, <2>6, MigrateAssumption DEF MigrateIInv
  <2> QED
      BY <1>1, <1>3, <2>1, <2>5, <2>6, <2>7, <2>8, <2>9, <2>10, <2>11, <2>12 DEF MigrateIInv
<1> QED
    BY <1>4, <1>5
\* The last version of a module goes away with its tables, while nothing else runs.
LEMMA KeepsCommitDown ==
    ASSUME MigrateIInv, NEW p \in Operators, CommitDown(p)
    PROVE  MigrateIInv'
<1> DEFINE m == cmd[p].m
           v == cmd[p].v
<1>1. /\ CommandTypeOK /\ MigrateTypeOK /\ (overlapped => ~NoRollback) /\ tables = recorded
      /\ cmd \in [Operators -> Commands] /\ recorded \in [Mods -> SUBSET Nat]
      /\ (\A k \in Mods : recorded[k] \subseteq Versions(k)) /\ (~overlapped => ReadsHold(p) /\ Orderly)
    BY DEF MigrateIInv, CommandTypeOK, MigrateTypeOK
<1>2. cmd[p].op = "down" /\ cmd[p].at = "commit" /\ Running(p) /\ Rolling(p) /\ m \in Mods /\ v \in Nat /\ cmd[p] \in Commands
    BY <1>1 DEF CommitDown, Running, Rolling, Commands
<1>3. UNCHANGED <<tracking, collections, indexes, server, overlapped>>
    BY DEF CommitDown, Seeded
<1>4. /\ recorded' = [recorded EXCEPT ![m] = recorded[m] \ {v}] /\ tables' = recorded'
      /\ \E at \in {"ok", "failed"} : cmd' = [cmd EXCEPT ![p] = [cmd[p] EXCEPT !.at = at]]
    BY <1>1 DEF CommitDown, Moves
<1>5. PICK c \in Commands : cmd' = [cmd EXCEPT ![p] = c] /\ c.op = "down" /\ c.at \in {"ok", "failed"}
  <2>1. PICK at \in {"ok", "failed"} : cmd' = [cmd EXCEPT ![p] = [cmd[p] EXCEPT !.at = at]]
      BY <1>4
  <2>2. [cmd[p] EXCEPT !.at = at] \in Commands
      BY <1>1, FieldsReplaced
  <2>3. [cmd[p] EXCEPT !.at = at].op = "down" /\ [cmd[p] EXCEPT !.at = at].at = at
      BY <1>2 DEF Commands
  <2> QED
      BY <2>1, <2>2, <2>3
<1>6. cmd' \in [Operators -> Commands] /\ cmd'[p] = c /\ \A q \in Operators \ {p} : cmd'[q] = cmd[q]
    BY <1>1, <1>5
<1>7. /\ recorded' \in [Mods -> SUBSET Nat] /\ recorded'[m] = recorded[m] \ {v}
      /\ \A k \in Mods : k # m => recorded'[k] = recorded[k]
      /\ \A k \in Mods : recorded'[k] \subseteq Versions(k)
    BY <1>1, <1>2, <1>4
<1>8. ~NoRollback'
    BY <1>5, <1>6 DEF NoRollback
<1>9. CommandTypeOK'
  <2>1. cmd'[p].at \in Stages[cmd'[p].op] /\ cmd'[p].op # "none"
      BY <1>5, <1>6, StageFacts
  <2> QED
      BY <1>1, <1>6, <2>1 DEF CommandTypeOK
<1>10. MigrateTypeOK'
  <2>1. \A q \in Operators : cmd'[q].m \in Mods /\ cmd'[q].i \in 0..Len(Plan) /\ cmd'[q].todo \subseteq Listed
      BY <1>6 DEF Commands
  <2> QED
      BY <1>1, <1>3, <1>4, <1>7, <2>1 DEF MigrateTypeOK
<1>11. ~overlapped => Orderly' /\ \A q \in Operators : ReadsHold(q)'
  <2> SUFFICES ASSUME ~overlapped PROVE Orderly' /\ \A q \in Operators : ReadsHold(q)'
      OBVIOUS
  <2>1. recorded[m] = 1..v /\ v > 0
      BY <1>1, <1>2 DEF ReadsHold
  <2>2. recorded'[m] = 1..(v - 1) /\ v - 1 \in 0..Files[m]
    <3>1. Files[m] \in Nat /\ v \in 1..Files[m]
        BY <1>1, <1>2, <2>1, PlanFacts DEF Versions
    <3> QED
        BY <1>7, <2>1, <3>1
  <2>3. \A q \in Operators : ~Running(q)'
    <3>1. \A q \in Operators \ {p} : ~Running(q)
        BY <1>1, <1>2 DEF Orderly
    <3> QED
        BY <1>5, <1>6, <3>1 DEF Running
  <2>4. Orderly'
      BY <1>1, <1>7, <2>2, <2>3 DEF Orderly
  <2>5. \A q \in Operators : ReadsHold(q)'
      BY <2>3 DEF ReadsHold, Running
  <2> QED
      BY <2>4, <2>5
<1>12. \A q \in Operators : OnFile(q)' /\ SeedSoFar(q)'
  <2>1. \A q \in Operators \ {p} : OnFile(q)' /\ SeedSoFar(q)'
      BY <1>3, <1>6 DEF MigrateIInv, OnFile, SeedSoFar
  <2>2. OnFile(p)' /\ SeedSoFar(p)'
      BY <1>5, <1>6 DEF OnFile, SeedSoFar
  <2> QED
      BY <2>1, <2>2
<1> QED
    BY <1>1, <1>3, <1>4, <1>7, <1>8, <1>9, <1>10, <1>11, <1>12 DEF MigrateIInv

\* A server that finds a version of core recorded finds the first one.
LEMMA KeepsQuickCheck ==
    ASSUME MigrateIInv, quickCheck
    PROVE  MigrateIInv'
<1>1. UNCHANGED <<tracking, tables, recorded, collections, indexes, cmd, overlapped>>
    BY DEF quickCheck, Schema, Seeded
<1>2. MigrateTypeOK /\ CommandTypeOK /\ "core" \in Mods
    BY MigrateAssumption DEF MigrateIInv
<1>3. server' \in {"tracked", "ready", "refused"} /\ (server' = "ready" => recorded["core"] # {})
    BY DEF quickCheck
<1>4. server' = "ready" /\ NoRollback => 1 \in recorded["core"]
  <2> SUFFICES ASSUME server' = "ready", NoRollback PROVE 1 \in recorded["core"]
      OBVIOUS
  <2>1. PICK k \in 0..Files["core"] : recorded["core"] = 1..k
      BY <1>2 DEF MigrateIInv, Orderly
  <2> QED
      BY <1>2, <1>3, <2>1, PlanFacts
<1>5. CommandTypeOK'
    BY <1>1, <1>2 DEF CommandTypeOK
<1>6. MigrateTypeOK'
    BY <1>1, <1>2, <1>3 DEF MigrateTypeOK
<1>7. (Orderly' <=> Orderly) /\ (NoRollback' <=> NoRollback)
    BY <1>1 DEF Orderly, NoRollback, Running, Rolling
<1>8. \A q \in Operators : /\ ReadsHold(q) => ReadsHold(q)'
                           /\ Passed(q) => Passed(q)'
                           /\ OnFile(q) => OnFile(q)'
                           /\ SeedSoFar(q) => SeedSoFar(q)'
    BY <1>1 DEF ReadsHold, Passed, OnFile, SeedSoFar
<1> QED
    BY <1>1, <1>4, <1>5, <1>6, <1>7, <1>8 DEF MigrateIInv

\* Before any command, the versions of each module are the first ones.
LEMMA MigrateStarts == MigrateInit => MigrateIInv
<1> SUFFICES ASSUME MigrateInit PROVE MigrateIInv
    OBVIOUS
<1>1. cmd \in [Operators -> Commands] /\ \A p \in Operators : cmd[p] = NoCommand
    BY PlanFacts DEF MigrateInit
<1>2. /\ NoCommand \in Commands /\ NoCommand.op = "none" /\ NoCommand.at = "new" /\ NoCommand.m \in Mods
      /\ NoCommand.i = 0 /\ NoCommand.todo = {} /\ "new" \in Stages["none"]
    BY PlanFacts DEF NoCommand, Commands, Stages
<1>3. recorded \in [Mods -> SUBSET Nat] /\ \A m \in Mods : \E k \in 0..Files[m] : recorded[m] = 1..k
  <2>1. CASE tracking
    <3>1. PICK k \in [Mods -> 0..Most] : (\A m \in Mods : k[m] <= Files[m]) /\ recorded = [m \in Mods |-> 1..k[m]]
        BY <2>1 DEF MigrateInit, Histories
    <3>2. \A m \in Mods : Files[m] \in Nat /\ k[m] \in 0..Files[m] /\ recorded[m] = 1..k[m]
        BY <3>1, PlanFacts
    <3>3. \A m \in Mods : 1..k[m] \in SUBSET Nat
        BY <3>2
    <3> QED
        BY <3>1, <3>2, <3>3
  <2>2. CASE ~tracking
    <3>1. recorded = [m \in Mods |-> {}]
        BY <2>2 DEF MigrateInit
    <3>2. \A m \in Mods : 0 \in 0..Files[m] /\ 1..0 = {}
        BY PlanFacts
    <3> QED
        BY <3>1, <3>2
  <2> QED
      BY <2>1, <2>2 DEF MigrateInit
<1>4. \A m \in Mods : recorded[m] \subseteq Versions(m)
    BY <1>3, PlanFacts DEF Versions
<1>5. CommandTypeOK
    BY <1>1, <1>2 DEF CommandTypeOK
<1>6. MigrateTypeOK
  <2>1. \A p \in Operators : cmd[p].m \in Mods /\ cmd[p].i \in 0..Len(Plan) /\ cmd[p].todo \subseteq Listed
      BY <1>1, <1>2, PlanFacts
  <2> QED
      BY <1>3, <2>1 DEF MigrateInit, MigrateTypeOK
<1>7. Orderly
    BY <1>1, <1>2, <1>3 DEF Orderly, Rolling
<1>8. \A p \in Operators : ReadsHold(p) /\ Passed(p) /\ OnFile(p) /\ SeedSoFar(p)
    BY <1>1, <1>2 DEF ReadsHold, Passed, OnFile, SeedSoFar
<1> QED
    BY <1>4, <1>5, <1>6, <1>7, <1>8 DEF MigrateInit, MigrateIInv

\* Every step of a command, a server or none keeps the invariant.
LEMMA MigrateKeeps == MigrateIInv /\ [MigrateNext]_migrateVars => MigrateIInv'
<1> SUFFICES ASSUME MigrateIInv, [MigrateNext]_migrateVars PROVE MigrateIInv'
    OBVIOUS
<1>1. CASE quickCheck
    BY <1>1, KeepsQuickCheck
<1>2. ASSUME NEW p \in Operators, Command(p) PROVE MigrateIInv'
  <2>1. Plan[1] \in Mods
      BY PlanFacts
  <2>2. CASE RunPostgresUp(p)
      BY <2>1, <2>2, KeepsStart DEF RunPostgresUp
  <2>3. CASE RunMongoSeed(p)
      BY <2>1, <2>3, KeepsStart DEF RunMongoSeed
  <2>4. ASSUME NEW m \in Mods, RunPostgresDown(p, m) PROVE MigrateIInv'
      BY <2>4, KeepsStart DEF RunPostgresDown
  <2> QED
      BY <1>2, <2>2, <2>3, <2>4, KeepsTrack, KeepsRead, KeepsApply, KeepsNextModule, KeepsCommitUp,
         KeepsRevert, KeepsCommitDown, KeepsFail, KeepsSeed DEF Command
<1>3. CASE UNCHANGED migrateVars
  <2>1. UNCHANGED <<tracking, tables, recorded, collections, indexes, cmd, server, overlapped>>
      BY <1>3 DEF migrateVars
  <2>2. \A q \in Operators : /\ ReadsHold(q) => ReadsHold(q)'
                             /\ Passed(q) => Passed(q)'
                             /\ OnFile(q) => OnFile(q)'
                             /\ SeedSoFar(q) => SeedSoFar(q)'
      BY <2>1 DEF ReadsHold, Passed, OnFile, SeedSoFar
  <2>3. (Orderly => Orderly') /\ (NoRollback' <=> NoRollback) /\ (CommandTypeOK => CommandTypeOK') /\ (MigrateTypeOK => MigrateTypeOK')
      BY <2>1 DEF Orderly, NoRollback, Running, Rolling, CommandTypeOK, MigrateTypeOK
  <2> QED
      BY <2>1, <2>2, <2>3 DEF MigrateIInv
<1> QED
    BY <1>1, <1>2, <1>3 DEF MigrateNext

\* The invariant says what is promised of the schema.
LEMMA MigrateImplies == MigrateIInv => MigrationsSound
<1> SUFFICES ASSUME MigrateIInv PROVE MigrationsSound
    OBVIOUS
<1>1. SchemaAsRecorded
    BY DEF MigrateIInv, Orderly, SchemaAsRecorded
<1>2. ASSUME NEW p \in Operators, cmd[p].at = "ok", cmd[p].op = "up", NoRollback
      PROVE  verifyPostgres /\ \A m \in Mods : recorded[m] = Versions(m)
  <2>1. tables = recorded /\ \A m \in Mods : recorded[m] = Versions(m)
      BY <1>2 DEF MigrateIInv, Passed
  <2> QED
      BY <2>1, MigrateAssumption DEF verifyPostgres, missingColumns
<1>3. ASSUME NEW p \in Operators, cmd[p].at = "ok", cmd[p].op = "seed"
      PROVE  verifyMongo
    BY <1>3 DEF MigrateIInv, SeedSoFar, verifyMongo, MigrateTypeOK
<1>4. server = "ready" /\ NoRollback => 1 \in tables["core"]
    BY DEF MigrateIInv
<1> QED
    BY <1>1, <1>2, <1>3, <1>4 DEF MigrationsSound, SuccessIsComplete

\* Migrations are sound: whatever commands fail, are killed or meet, a version's tables exist exactly
\* when it is recorded, without a gap unless a rollback overlapped, and success means complete.
THEOREM MigrationsSoundHolds == MigrateSpec => []MigrationsSound
<1>1. MigrateInit => MigrateIInv
    BY MigrateStarts
<1>2. MigrateIInv /\ [MigrateNext]_migrateVars => MigrateIInv'
    BY MigrateKeeps
<1>3. MigrateIInv => MigrationsSound
    BY MigrateImplies
<1> QED
    BY <1>1, <1>2, <1>3, PTL DEF MigrateSpec

\* Types of the commands, the tables and the server: a command stays within the plan, indexes within the
\* collections.
THEOREM MigrateTypes == MigrateSpec => []MigrateTypeOK
<1>1. MigrateIInv => MigrateTypeOK
    BY DEF MigrateIInv
<1> QED
    BY <1>1, MigrateStarts, MigrateKeeps, PTL DEF MigrateSpec

-----------------------------------------------------------------------------
(* The order in which modules start.                                       *)

\* The names sorted, and those that wait in the queue.
Sorted == {sorted[i] : i \in 1..Len(sorted)}
Queued == {queue[i] : i \in 1..Len(queue)}

\* Requirements are between modules, and only modules are enabled.
WiringTypeOK == requires \in [Modules -> SUBSET Modules] /\ enabled \subseteq Modules

\* What is sorted is enabled, sorted once and preceded by what it requires.
InOrder ==
    /\ Sorted \subseteq enabled
    /\ \A i, j \in 1..Len(sorted) : sorted[i] = sorted[j] => i = j
    /\ \A i \in 1..Len(sorted) : requires[sorted[i]] \subseteq {sorted[j] : j \in 1..(i - 1)}

\* The queue holds, once each, exactly the names whose requirements are all sorted.
QueueReady ==
    /\ \A i, j \in 1..Len(queue) : queue[i] = queue[j] => i = j
    /\ Queued = {m \in enabled \ Sorted : requires[m] \subseteq Sorted}
    /\ \A m \in enabled \ Sorted : inDegree[m] = Cardinality(requires[m] \ Sorted)

\* The services of the modules that are up are in the container.
ServicesUp ==
    /\ phase \in {"validate", "missing", "sort", "cycle", "connect", "unready"} => inits = 0 /\ provided = {}
    /\ phase \in {"init", "failed"} => provided = Up

\* The inductive invariant of the start: each phase has what the one before it left.
StartupIInv ==
    /\ StartupTypeOK /\ WiringTypeOK /\ InOrder /\ ServicesUp
    /\ phase \in {"validate", "missing"} => queue = <<>> /\ sorted = <<>>
    /\ phase \notin {"validate", "missing"} => \A m \in enabled : requires[m] \subseteq enabled
    /\ phase = "sort" => QueueReady
    /\ phase \in {"connect", "unready", "init", "failed", "running", "stopping", "stopped"} =>
          Sorted = enabled /\ Len(sorted) = Cardinality(enabled)
    /\ phase = "cycle" => Sorted # enabled /\ \A m \in enabled \ Sorted : ~ (requires[m] \subseteq Sorted)
    /\ phase # "panic"
-----------------------------------------------------------------------------
\* What is enabled is finite, and counting it gives a number.
LEMMA Counted ==
    ASSUME WiringTypeOK
    PROVE  IsFiniteSet(enabled) /\ Cardinality(enabled) \in Nat
    BY StartupAssumption, FS_Subset, FS_CardinalityType DEF WiringTypeOK

\* So is what a module requires, apart from what is done: the count is zero when all is done.
LEMMA Remaining ==
    ASSUME WiringTypeOK, NEW m \in Modules, NEW S
    PROVE  /\ IsFiniteSet(requires[m] \ S) /\ Cardinality(requires[m] \ S) \in Nat
           /\ Cardinality(requires[m] \ S) = 0 <=> requires[m] \subseteq S
<1>1. requires[m] \ S \in SUBSET Modules
    BY DEF WiringTypeOK
<1>2. IsFiniteSet(requires[m] \ S)
    BY <1>1, StartupAssumption, FS_Subset
<1>3. Cardinality(requires[m] \ S) \in Nat
    BY <1>2, FS_CardinalityType
<1>4. Cardinality(requires[m] \ S) = 0 <=> requires[m] \ S = {}
    BY <1>2, FS_EmptySet
<1> QED
    BY <1>2, <1>3, <1>4

\* A listing of a finite set has each of its elements once.
LEMMA Listings ==
    ASSUME NEW S, IsFiniteSet(S), NEW s \in SetToSeqs(S)
    PROVE  /\ s \in Seq(S) /\ Len(s) \in Nat
           /\ \A i, j \in 1..Len(s) : s[i] = s[j] => i = j
           /\ {s[i] : i \in 1..Len(s)} = S
<1> DEFINE n == Cardinality(S)
<1>1. n \in Nat
    BY FS_CardinalityType
<1>2. s \in [1..n -> S] /\ \A i, j \in 1..n : i # j => s[i] # s[j]
    BY DEF SetToSeqs
<1>3. s \in Seq(S) /\ Len(s) = n
    BY <1>1, <1>2
<1>4. s \in Injection(1..n, S)
    BY <1>2 DEF Injection, IsInjective
<1>5. Cardinality(1..n) = n /\ IsFiniteSet(1..n)
    BY <1>1, FS_Interval
<1>6. s \in Surjection(1..n, S)
    BY <1>4, <1>5, FS_Injection
<1>7. \A x \in S : \E i \in 1..n : s[i] = x
    BY <1>6 DEF Surjection
<1> QED
    BY <1>1, <1>2, <1>3, <1>7

\* Sorting is complete exactly when as many names are sorted as are enabled.
LEMMA SortedCount ==
    ASSUME WiringTypeOK, sorted \in Seq(Modules), InOrder
    PROVE  Len(sorted) = Cardinality(enabled) <=> Sorted = enabled
<1>1. Len(sorted) \in Nat /\ \A i \in 1..Len(sorted) : sorted[i] \in Sorted
    BY DEF Sorted
<1>2. ExistsBijection(1..Len(sorted), Sorted)
  <2> DEFINE f == [i \in 1..Len(sorted) |-> sorted[i]]
  <2>1. f \in Injection(1..Len(sorted), Sorted)
      BY <1>1 DEF Injection, IsInjective, InOrder
  <2>2. f \in Surjection(1..Len(sorted), Sorted)
      BY <1>1 DEF Surjection, Sorted
  <2> QED
      BY <2>1, <2>2 DEF ExistsBijection, Bijection
<1>3. Cardinality(Sorted) = Len(sorted)
    BY <1>1, <1>2, FS_CountingElements
<1>4. Sorted \subseteq enabled /\ IsFiniteSet(enabled)
    BY Counted DEF InOrder
<1>5. Cardinality(Sorted) = Cardinality(enabled) <=> Sorted = enabled
    BY <1>4, FS_Subset
<1> QED
    BY <1>3, <1>5

\* In an order that puts requirements first nothing is missing or in a circle.
LEMMA OrderIsAcyclic ==
    ASSUME WiringTypeOK, sorted \in Seq(Modules), InOrder, Sorted = enabled, Len(sorted) = Cardinality(enabled)
    PROVE  Acyclic
<1> DEFINE rank == [m \in enabled |-> CHOOSE i \in 1..Len(sorted) : sorted[i] = m]
<1>1. \A m \in enabled : rank[m] \in 1..Len(sorted) /\ sorted[rank[m]] = m
  <2>1. \A m \in enabled : \E i \in 1..Len(sorted) : sorted[i] = m
      BY DEF Sorted
  <2> QED
      BY <2>1
<1>2. rank \in [enabled -> 1..Cardinality(enabled)]
    BY <1>1
<1>3. ASSUME NEW m \in enabled, NEW d \in requires[m] PROVE rank[d] < rank[m]
  <2>1. PICK j \in 1..(rank[m] - 1) : d = sorted[j]
      BY <1>1, <1>3 DEF InOrder
  <2>2. j \in 1..Len(sorted) /\ rank[m] \in 1..Len(sorted) /\ Len(sorted) \in Nat
      BY <1>1, <2>1
  <2>3. d \in enabled
      BY <2>1, <2>2 DEF Sorted
  <2>4. rank[d] = j
      BY <1>1, <2>1, <2>2, <2>3 DEF InOrder
  <2>5. \A n \in 1..Len(sorted) : j \in 1..(n - 1) => j < n
      BY <2>2
  <2>6. j < rank[m]
      BY <2>1, <2>2, <2>5
  <2> QED
      BY <2>4, <2>6
<1> HIDE DEF rank
<1> QED
    BY <1>2, <1>3 DEF Acyclic

\* Where each unsorted name requires another unsorted one there is a circle: of the unsorted
\* names, the one with the lowest number would require one with a lower number.
LEMMA StuckIsCyclic ==
    ASSUME WiringTypeOK, \A m \in enabled : requires[m] \subseteq enabled,
           enabled \ Sorted # {}, \A m \in enabled \ Sorted : ~ (requires[m] \subseteq Sorted)
    PROVE  ~Acyclic
<1> SUFFICES ASSUME Acyclic PROVE FALSE
    OBVIOUS
<1>1. Cardinality(enabled) \in Nat
    BY Counted
<1>2. PICK rank \in [enabled -> 1..Cardinality(enabled)] : \A m \in enabled : \A d \in requires[m] : rank[d] < rank[m]
    BY DEF Acyclic
<1> DEFINE T == {rank[m] : m \in enabled \ Sorted}
<1>3. T \subseteq Nat /\ T # {}
    BY <1>1, <1>2
<1>4. PICK x \in T : \A y \in T : ~ (<<y, x>> \in OpToRel(<, Nat))
    BY <1>3, NatLessThanWellFounded, WFMin
<1>5. PICK m \in enabled \ Sorted : x = rank[m]
    OBVIOUS
<1>6. PICK d \in requires[m] : d \notin Sorted
    BY <1>5
<1>7. d \in enabled \ Sorted /\ rank[d] < rank[m]
    BY <1>2, <1>5, <1>6
<1>8. rank[d] \in T /\ rank[m] \in T
    BY <1>5, <1>7
<1>9. <<rank[d], rank[m]>> \in OpToRel(<, Nat)
    BY <1>3, <1>7, <1>8 DEF OpToRel
<1> QED
    BY <1>4, <1>5, <1>8, <1>9
-----------------------------------------------------------------------------
(* Every step keeps the invariant.                                         *)

\* Nothing is sorted when a process starts.
LEMMA StartupStarts == StartupInit => StartupIInv
<1> SUFFICES ASSUME StartupInit PROVE StartupIInv
    OBVIOUS
<1>1. /\ phase = "validate" /\ queue = <<>> /\ sorted = <<>> /\ inits = 0 /\ provided = {}
      /\ requires \in [Modules -> SUBSET Modules] /\ enabled \subseteq Modules /\ inDegree \in [Modules -> Nat]
    BY DEF StartupInit
<1>2. StartupTypeOK /\ WiringTypeOK
    BY <1>1 DEF StartupTypeOK, WiringTypeOK
<1>3. InOrder
    BY <1>1 DEF InOrder, Sorted
<1>4. ServicesUp
    BY <1>1 DEF ServicesUp
<1> QED
    BY <1>1, <1>2, <1>3, <1>4 DEF StartupIInv

\* The names without a requirement are queued first.
LEMMA KeepsValidate ==
    ASSUME StartupIInv, validate
    PROVE  StartupIInv'
<1>1. /\ phase = "validate" /\ queue = <<>> /\ sorted = <<>> /\ inits = 0 /\ provided = {}
      /\ StartupTypeOK /\ WiringTypeOK /\ InOrder
      /\ UNCHANGED <<requires, enabled, sorted, inits, provided>>
    BY DEF StartupIInv, ServicesUp, validate, Wiring
<1>2. Sorted = {} /\ Sorted' = {}
    BY <1>1 DEF Sorted
<1>3. WiringTypeOK' /\ InOrder'
    BY <1>1, <1>2 DEF WiringTypeOK, InOrder
<1>4. CASE \A m \in enabled : requires[m] \subseteq enabled
  <2> DEFINE S == {m \in enabled : Degree(m) = 0}
  <2>1. phase' = "sort" /\ inDegree' = [m \in Modules |-> IF m \in enabled THEN Degree(m) ELSE 0] /\ queue' \in SetToSeqs(S)
      BY <1>4 DEF validate
  <2>2. \A m \in enabled : Degree(m) \in Nat /\ Degree(m) = Cardinality(requires[m] \ {}) /\ (Degree(m) = 0 <=> requires[m] \subseteq {})
    <3>1. ASSUME NEW m \in enabled
          PROVE  Degree(m) \in Nat /\ Degree(m) = Cardinality(requires[m] \ {}) /\ (Degree(m) = 0 <=> requires[m] \subseteq {})
      <4>1. m \in Modules /\ requires[m] \ {} = requires[m]
          BY <1>1 DEF WiringTypeOK
      <4> QED
          BY <1>1, <4>1, Remaining DEF Degree
    <3> QED
        BY <3>1
  <2>3. IsFiniteSet(S)
      BY <1>1, Counted, FS_Subset
  <2>4. /\ queue' \in Seq(S) /\ (\A i, j \in 1..Len(queue') : queue'[i] = queue'[j] => i = j)
        /\ {queue'[i] : i \in 1..Len(queue')} = S
    <3> HIDE DEF S
    <3> QED
        BY <2>1, <2>3, Listings
  <2>5. queue' \in Seq(Modules)
    <3>1. S \subseteq Modules
        BY <1>1 DEF WiringTypeOK
    <3> HIDE DEF S
    <3> QED
        BY <2>4, <3>1
  <2>6. inDegree' \in [Modules -> Nat]
      BY <2>1, <2>2
  <2>7. StartupTypeOK'
      BY <1>1, <2>1, <2>5, <2>6 DEF StartupTypeOK
  <2>8. QueueReady'
    <3>1. Queued' = {m \in enabled : requires[m] \subseteq {}}
        BY <2>2, <2>4 DEF Queued
    <3>2. \A m \in enabled : inDegree'[m] = Cardinality(requires[m] \ {})
        BY <1>1, <2>1, <2>2 DEF WiringTypeOK
    <3> QED
        BY <1>1, <1>2, <2>4, <3>1, <3>2 DEF QueueReady
  <2>9. ServicesUp'
      BY <1>1, <2>1 DEF ServicesUp
  <2> QED
      BY <1>1, <1>3, <1>4, <2>1, <2>7, <2>8, <2>9 DEF StartupIInv
<1>5. CASE ~ \A m \in enabled : requires[m] \subseteq enabled
  <2>1. phase' = "missing" /\ UNCHANGED <<inDegree, queue>>
      BY <1>5 DEF validate
  <2>2. StartupTypeOK'
      BY <1>1, <2>1 DEF StartupTypeOK
  <2>3. ServicesUp'
      BY <1>1, <2>1 DEF ServicesUp
  <2> QED
      BY <1>1, <1>3, <2>1, <2>2, <2>3 DEF StartupIInv
<1> QED
    BY <1>4, <1>5

\* A name is sorted; those it was the last requirement of are queued.
LEMMA KeepsSort ==
    ASSUME StartupIInv, sort
    PROVE  StartupIInv'
<1> DEFINE c == Head(queue)
           R == Ready(c)
<1>1. /\ phase = "sort" /\ queue # <<>> /\ StartupTypeOK /\ WiringTypeOK /\ InOrder /\ QueueReady /\ ServicesUp
      /\ (\A m \in enabled : requires[m] \subseteq enabled) /\ inits = 0 /\ provided = {}
      /\ UNCHANGED <<requires, enabled, phase, inits, provided>>
    BY DEF StartupIInv, ServicesUp, sort, Wiring
<1>2. sorted' = Append(sorted, c) /\ inDegree' = [d \in Modules |-> IF d \in dependents(c) THEN inDegree[d] - 1 ELSE inDegree[d]]
    BY DEF sort
<1>3. PICK next \in SetToSeqs(R) : queue' = Tail(queue) \o next
    BY DEF sort
<1>4. queue \in Seq(Modules) /\ sorted \in Seq(Modules) /\ inDegree \in [Modules -> Nat] /\ enabled \subseteq Modules
    BY <1>1 DEF StartupTypeOK, WiringTypeOK
<1>5. c = queue[1] /\ 1 \in 1..Len(queue) /\ Len(queue) \in Nat /\ Len(sorted) \in Nat
    BY <1>1, <1>4
<1>6. c \in enabled \ Sorted /\ requires[c] \subseteq Sorted /\ c \in Modules
    BY <1>1, <1>4, <1>5 DEF QueueReady, Queued
<1>7. /\ sorted' \in Seq(Modules) /\ Len(sorted') = Len(sorted) + 1 /\ sorted'[Len(sorted) + 1] = c
      /\ \A i \in 1..Len(sorted) : sorted'[i] = sorted[i]
    BY <1>2, <1>4, <1>6
<1>8. Sorted' = Sorted \cup {c}
  <2>1. \A i \in 1..Len(sorted') : i \in 1..Len(sorted) \/ i = Len(sorted) + 1
      BY <1>5, <1>7
  <2>2. \A i \in 1..Len(sorted) : i \in 1..Len(sorted')
      BY <1>5, <1>7
  <2>3. Len(sorted) + 1 \in 1..Len(sorted')
      BY <1>5, <1>7
  <2> QED
      BY <1>7, <2>1, <2>2, <2>3 DEF Sorted
<1>9. InOrder'
  <2>1. Sorted' \subseteq enabled'
      BY <1>1, <1>6, <1>8 DEF InOrder
  <2>2. ASSUME NEW i \in 1..Len(sorted'), NEW j \in 1..Len(sorted'), sorted'[i] = sorted'[j] PROVE i = j
    <3>1. \A k \in 1..Len(sorted) : sorted'[k] = sorted[k] /\ sorted[k] # c
        BY <1>6, <1>7 DEF Sorted
    <3>2. i \in 1..Len(sorted) \/ i = Len(sorted) + 1
        BY <1>5, <1>7
    <3>3. j \in 1..Len(sorted) \/ j = Len(sorted) + 1
        BY <1>5, <1>7
    <3> QED
        BY <1>1, <1>7, <2>2, <3>1, <3>2, <3>3 DEF InOrder
  <2>3. ASSUME NEW i \in 1..Len(sorted')
        PROVE  requires'[sorted'[i]] \subseteq {sorted'[j] : j \in 1..(i - 1)}
    <3>1. CASE i \in 1..Len(sorted)
      <4>1. \A j \in 1..(i - 1) : sorted'[j] = sorted[j]
          BY <1>5, <1>7, <3>1
      <4>2. requires[sorted[i]] \subseteq {sorted[j] : j \in 1..(i - 1)}
          BY <1>1, <3>1 DEF InOrder
      <4> QED
          BY <1>1, <1>7, <3>1, <4>1, <4>2
    <3>2. CASE i = Len(sorted) + 1
      <4>1. requires[c] \subseteq {sorted[j] : j \in 1..Len(sorted)}
          BY <1>6 DEF Sorted
      <4>2. i - 1 = Len(sorted)
          BY <1>5, <3>2
      <4> QED
          BY <1>1, <1>7, <3>2, <4>1, <4>2
    <3> QED
        BY <1>5, <1>7, <3>1, <3>2
  <2> QED
      BY <2>1, <2>2, <2>3 DEF InOrder
<1>10. \A d \in dependents(c) : d \in enabled \ Sorted' /\ d \notin Queued /\ inDegree[d] \in Nat \ {0}
  <2> SUFFICES ASSUME NEW d \in dependents(c) PROVE d \in enabled \ Sorted' /\ d \notin Queued /\ inDegree[d] \in Nat \ {0}
      OBVIOUS
  <2>1. d \in enabled /\ c \in requires[d] /\ d \in Modules
      BY <1>4 DEF dependents
  <2>2. d \notin Sorted
    <3> SUFFICES ASSUME d \in Sorted PROVE FALSE
        OBVIOUS
    <3>1. PICK i \in 1..Len(sorted) : d = sorted[i]
        BY DEF Sorted
    <3>2. PICK j \in 1..(i - 1) : c = sorted[j]
        BY <1>1, <2>1, <3>1 DEF InOrder
    <3>3. j \in 1..Len(sorted)
        BY <1>5, <3>1, <3>2
    <3> QED
        BY <1>6, <3>2, <3>3 DEF Sorted
  <2>3. ~ (requires[d] \subseteq Sorted) /\ d # c
      BY <1>6, <2>1
  <2>4. inDegree[d] = Cardinality(requires[d] \ Sorted)
      BY <1>1, <2>1, <2>2 DEF QueueReady
  <2>5. inDegree[d] \in Nat /\ inDegree[d] # 0
      BY <1>1, <2>1, <2>3, <2>4, Remaining
  <2> QED
      BY <1>1, <1>8, <2>1, <2>2, <2>3, <2>5 DEF QueueReady
<1>11. inDegree' \in [Modules -> Nat]
  <2>1. ASSUME NEW d \in Modules PROVE inDegree'[d] \in Nat
      BY <1>2, <1>4, <1>10, <2>1
  <2> QED
      BY <1>2, <2>1
<1>12. \A d \in enabled \ Sorted' : inDegree'[d] = Cardinality(requires[d] \ Sorted')
  <2> SUFFICES ASSUME NEW d \in enabled, d \notin Sorted' PROVE inDegree'[d] = Cardinality(requires[d] \ Sorted')
      OBVIOUS
  <2>1. d \in Modules /\ d \notin Sorted /\ inDegree[d] = Cardinality(requires[d] \ Sorted) /\ IsFiniteSet(requires[d] \ Sorted)
      BY <1>1, <1>4, <1>8, Remaining DEF QueueReady
  <2>2. requires[d] \ Sorted' = (requires[d] \ Sorted) \ {c}
      BY <1>8
  <2>3. CASE c \in requires[d]
    <3>1. d \in dependents(c)
        BY <2>3 DEF dependents
    <3>2. inDegree'[d] = inDegree[d] - 1
        BY <1>2, <2>1, <3>1
    <3>3. c \in requires[d] \ Sorted
        BY <1>6, <2>3
    <3>4. Cardinality((requires[d] \ Sorted) \ {c}) = Cardinality(requires[d] \ Sorted) - 1
        BY <2>1, <3>3, FS_RemoveElement
    <3> QED
        BY <2>1, <2>2, <3>2, <3>4
  <2>4. CASE c \notin requires[d]
    <3>1. d \notin dependents(c)
        BY <2>4 DEF dependents
    <3>2. inDegree'[d] = inDegree[d]
        BY <1>2, <2>1, <3>1
    <3>3. requires[d] \ Sorted' = requires[d] \ Sorted
        BY <2>2, <2>4
    <3> QED
        BY <2>1, <3>2, <3>3
  <2> QED
      BY <2>3, <2>4
<1>13. IsFiniteSet(R) /\ R \subseteq Modules
  <2>1. R \in SUBSET Modules
      BY <1>4 DEF Ready, dependents
  <2> HIDE DEF R
  <2> QED
      BY <2>1, StartupAssumption, FS_Subset
<1>14. /\ next \in Seq(R) /\ Len(next) \in Nat /\ (\A i, j \in 1..Len(next) : next[i] = next[j] => i = j)
       /\ {next[i] : i \in 1..Len(next)} = R
  <2> HIDE DEF R
  <2> QED
      BY <1>13, Listings
<1> DEFINE n == Len(queue) - 1
<1>15. /\ n \in Nat /\ queue' \in Seq(Modules) /\ Len(queue') = n + Len(next)
       /\ \A i \in 1..n : queue'[i] = queue[i + 1]
       /\ \A i \in 1..Len(next) : queue'[n + i] = next[i]
  <2>1. next \in Seq(Modules)
    <3> HIDE DEF R
    <3> QED
        BY <1>13, <1>14
  <2>2. Tail(queue) \in Seq(Modules) /\ Len(Tail(queue)) = n /\ \A i \in 1..n : Tail(queue)[i] = queue[i + 1]
      BY <1>1, <1>4, <1>5
  <2> HIDE DEF n, R
  <2>3. n \in Nat
      BY <1>5 DEF n
  <2>4. queue' \in Seq(Modules) /\ Len(queue') = n + Len(next)
      BY <1>3, <2>1, <2>2
  <2>5. \A i \in 1..n : queue'[i] = queue[i + 1]
      BY <1>3, <1>14, <2>1, <2>2, <2>3
  <2>6. ASSUME NEW i \in 1..Len(next) PROVE queue'[n + i] = next[i]
    <3>1. n + i \in 1..(n + Len(next)) /\ ~ (n + i <= n) /\ (n + i) - n = i
        BY <1>14, <2>3
    <3>2. (Tail(queue) \o next)[n + i] = next[(n + i) - n]
        BY <2>1, <2>2, <3>1
    <3> QED
        BY <1>3, <3>1, <3>2
  <2> QED
      BY <2>3, <2>4, <2>5, <2>6
<1>16. \A i \in 1..Len(queue') : i \in 1..n \/ \E k \in 1..Len(next) : i = n + k
  <2> SUFFICES ASSUME NEW i \in 1..Len(queue'), i \notin 1..n PROVE \E k \in 1..Len(next) : i = n + k
      OBVIOUS
  <2> HIDE DEF n
  <2>1. i - n \in 1..Len(next) /\ i = n + (i - n)
      BY <1>14, <1>15
  <2> QED
      BY <2>1
<1>17. \A i \in 1..n : queue[i + 1] \in Queued \ {c} /\ i + 1 \in 1..Len(queue)
  <2> SUFFICES ASSUME NEW i \in 1..n PROVE queue[i + 1] \in Queued \ {c} /\ i + 1 \in 1..Len(queue)
      OBVIOUS
  <2>1. i + 1 \in 1..Len(queue) /\ i + 1 # 1
      BY <1>5
  <2> QED
      BY <1>1, <1>5, <2>1 DEF QueueReady, Queued
<1>18. \A k \in 1..Len(next) : next[k] \in R /\ next[k] \notin Queued
  <2>1. R \subseteq dependents(c)
      BY DEF Ready
  <2> QED
      BY <1>10, <1>14, <2>1
<1>19. Queued' = (Queued \ {c}) \cup R
  <2>1. Queued' \subseteq (Queued \ {c}) \cup R
    <3> SUFFICES ASSUME NEW i \in 1..Len(queue') PROVE queue'[i] \in (Queued \ {c}) \cup R
        BY DEF Queued
    <3>1. CASE i \in 1..n
        BY <1>15, <1>17, <3>1
    <3>2. CASE \E k \in 1..Len(next) : i = n + k
        BY <1>15, <1>18, <3>2
    <3> QED
        BY <1>16, <3>1, <3>2
  <2>2. ASSUME NEW x \in Queued \ {c} PROVE x \in Queued'
    <3>1. PICK j \in 1..Len(queue) : x = queue[j]
        BY DEF Queued
    <3>2. j # 1
        BY <1>5, <3>1
    <3>3. j - 1 \in 1..n /\ (j - 1) + 1 = j
        BY <1>5, <3>1, <3>2
    <3>4. j - 1 \in 1..Len(queue')
      <4> HIDE DEF n
      <4> QED
          BY <1>14, <1>15, <3>3
    <3>5. queue'[j - 1] = x
        BY <1>15, <3>1, <3>3
    <3> QED
        BY <3>4, <3>5 DEF Queued
  <2>3. ASSUME NEW x \in R PROVE x \in Queued'
    <3>1. PICK k \in 1..Len(next) : x = next[k]
        BY <1>14
    <3>2. n + k \in 1..Len(queue')
      <4>1. n \in Nat /\ Len(next) \in Nat /\ Len(queue') = n + Len(next)
          BY <1>14, <1>15
      <4> HIDE DEF n
      <4> QED
          BY <4>1
    <3> QED
        BY <1>15, <3>1, <3>2 DEF Queued
  <2> QED
      BY <2>1, <2>2, <2>3
<1>20. QueueReady'
  <2>1. ASSUME NEW i \in 1..Len(queue'), NEW j \in 1..Len(queue'), queue'[i] = queue'[j] PROVE i = j
    <3>1. CASE i \in 1..n /\ j \in 1..n
      <4>1. queue[i + 1] = queue[j + 1] /\ i + 1 \in 1..Len(queue) /\ j + 1 \in 1..Len(queue)
          BY <1>15, <1>17, <2>1, <3>1
      <4>2. i + 1 = j + 1
          BY <1>1, <4>1 DEF QueueReady
      <4> QED
          BY <1>15, <3>1, <4>2
    <3>2. CASE \E k, l \in 1..Len(next) : i = n + k /\ j = n + l
        BY <1>14, <1>15, <2>1, <3>2
    <3>3. CASE i \in 1..n /\ \E l \in 1..Len(next) : j = n + l
      <4>1. PICK l \in 1..Len(next) : j = n + l
          BY <3>3
      <4>2. queue'[i] \in Queued /\ queue'[j] \notin Queued
          BY <1>15, <1>17, <1>18, <3>3, <4>1
      <4> QED
          BY <2>1, <4>2
    <3>4. CASE j \in 1..n /\ \E l \in 1..Len(next) : i = n + l
      <4>1. PICK l \in 1..Len(next) : i = n + l
          BY <3>4
      <4>2. queue'[j] \in Queued /\ queue'[i] \notin Queued
          BY <1>15, <1>17, <1>18, <3>4, <4>1
      <4> QED
          BY <2>1, <4>2
    <3> QED
        BY <1>16, <3>1, <3>2, <3>3, <3>4
  <2>2. \A d \in R : d \in enabled \ Sorted' /\ requires[d] \subseteq Sorted'
    <3> SUFFICES ASSUME NEW d \in R PROVE d \in enabled \ Sorted' /\ requires[d] \subseteq Sorted'
        OBVIOUS
    <3>1. d \in dependents(c) /\ inDegree[d] = 1
        BY DEF Ready
    <3>2. d \in enabled \ Sorted' /\ d \in Modules
        BY <1>4, <1>10, <3>1
    <3>3. inDegree'[d] = 0
        BY <1>2, <3>1, <3>2
    <3>4. Cardinality(requires[d] \ Sorted') = 0
        BY <1>12, <3>2, <3>3
    <3> QED
        BY <1>1, <3>2, <3>4, Remaining
  <2>3. ASSUME NEW d \in enabled \ Sorted', requires[d] \subseteq Sorted' PROVE d \in (Queued \ {c}) \cup R
    <3>1. d \notin Sorted /\ d # c /\ d \in Modules
        BY <1>4, <1>8
    <3>2. CASE c \notin requires[d]
      <4>1. requires[d] \subseteq Sorted
          BY <1>8, <2>3, <3>2
      <4> QED
          BY <1>1, <2>3, <3>1, <4>1 DEF QueueReady
    <3>3. CASE c \in requires[d]
      <4>1. d \in dependents(c)
          BY <2>3, <3>3 DEF dependents
      <4>2. inDegree'[d] = 0
          BY <1>1, <1>12, <2>3, <3>1, Remaining
      <4>3. inDegree[d] = 1
          BY <1>2, <1>10, <3>1, <4>1, <4>2
      <4> QED
          BY <4>1, <4>3 DEF Ready
    <3> QED
        BY <3>2, <3>3
  <2>4. \A d \in Queued \ {c} : d \in enabled \ Sorted' /\ requires[d] \subseteq Sorted'
      BY <1>1, <1>8 DEF QueueReady
  <2>5. Queued' = {m \in enabled \ Sorted' : requires[m] \subseteq Sorted'}
      BY <1>19, <2>2, <2>3, <2>4
  <2> QED
      BY <1>1, <1>12, <2>1, <2>5 DEF QueueReady
<1>21. StartupTypeOK'
    BY <1>1, <1>5, <1>7, <1>11, <1>15 DEF StartupTypeOK
<1>22. WiringTypeOK' /\ ServicesUp'
    BY <1>1 DEF WiringTypeOK, ServicesUp
<1> QED
    BY <1>1, <1>9, <1>20, <1>21, <1>22 DEF StartupIInv
\* The queue is empty: either every name is sorted, or each of the others waits for another.
LEMMA KeepsFindCycle ==
    ASSUME StartupIInv, findCycle
    PROVE  StartupIInv'
<1>1. /\ phase = "sort" /\ queue = <<>> /\ StartupTypeOK /\ WiringTypeOK /\ InOrder /\ QueueReady /\ ServicesUp
      /\ (\A m \in enabled : requires[m] \subseteq enabled) /\ inits = 0 /\ provided = {}
      /\ UNCHANGED <<requires, enabled, inDegree, queue, sorted, inits, provided>>
      /\ phase' = IF Len(sorted) # Cardinality(enabled) THEN "cycle" ELSE "connect"
    BY DEF StartupIInv, ServicesUp, findCycle, Wiring
<1>2. Sorted' = Sorted /\ InOrder' /\ WiringTypeOK' /\ StartupTypeOK'
    BY <1>1 DEF Sorted, InOrder, WiringTypeOK, StartupTypeOK
<1>3. Len(sorted) = Cardinality(enabled) <=> Sorted = enabled
    BY <1>1, SortedCount DEF StartupTypeOK
<1>4. \A m \in enabled \ Sorted : ~ (requires[m] \subseteq Sorted)
    BY <1>1 DEF QueueReady, Queued
<1>5. ServicesUp'
    BY <1>1 DEF ServicesUp
<1> QED
    BY <1>1, <1>2, <1>3, <1>4, <1>5 DEF StartupIInv

\* The infrastructure is connected or not.
LEMMA KeepsConnect ==
    ASSUME StartupIInv, connectWithRetry
    PROVE  StartupIInv'
<1>1. /\ phase = "connect" /\ phase' \in {"init", "unready"} /\ inits = 0 /\ provided = {}
      /\ StartupTypeOK /\ WiringTypeOK /\ InOrder
      /\ UNCHANGED <<requires, enabled, inDegree, queue, sorted, inits, provided>>
    BY DEF StartupIInv, ServicesUp, connectWithRetry, Wiring, Infrastructure
<1>2. Sorted' = Sorted /\ InOrder' /\ WiringTypeOK' /\ StartupTypeOK'
    BY <1>1 DEF Sorted, InOrder, WiringTypeOK, StartupTypeOK
<1>3. Up' = {}
    BY <1>1 DEF Up
<1>4. ServicesUp'
    BY <1>1, <1>3 DEF ServicesUp
<1> QED
    BY <1>1, <1>2, <1>4 DEF StartupIInv

\* The next module in the order finds the services of all it requires.
LEMMA KeepsInit ==
    ASSUME StartupIInv, InitModules
    PROVE  StartupIInv'
<1>1. /\ phase = "init" /\ provided = Up /\ StartupTypeOK /\ WiringTypeOK /\ InOrder
      /\ UNCHANGED <<requires, enabled, inDegree, queue, sorted>>
    BY DEF StartupIInv, ServicesUp, InitModules, Wiring
<1>2. Len(sorted) \in Nat /\ inits \in 0..Len(sorted) /\ sorted \in Seq(Modules)
    BY <1>1 DEF StartupTypeOK
<1>3. Sorted' = Sorted /\ InOrder' /\ WiringTypeOK'
    BY <1>1 DEF Sorted, InOrder, WiringTypeOK
<1>4. CASE inits < Len(sorted)
  <2> DEFINE m == sorted[inits + 1]
  <2>1. initModule(m)
      BY <1>4 DEF InitModules
  <2>2. inits + 1 \in 1..Len(sorted)
      BY <1>2, <1>4
  <2>3. (inits + 1) - 1 = inits
      BY <1>2
  <2>4. requires[m] \subseteq provided /\ m \in enabled
      BY <1>1, <2>2, <2>3 DEF InOrder, Up, Sorted
  <2>5. \/ inits' = inits + 1 /\ provided' = provided \cup {m} /\ phase' = "init"
        \/ phase' = "failed" /\ UNCHANGED <<inits, provided>>
      BY <1>1, <2>1, <2>4 DEF initModule, MustResolve
  <2>6. CASE inits' = inits + 1 /\ provided' = provided \cup {m} /\ phase' = "init"
    <3>1. Up' = Up \cup {m}
      <4>1. \A i \in 1..(inits + 1) : i \in 1..inits \/ i = inits + 1
          BY <1>2
      <4>2. inits + 1 \in 1..(inits + 1) /\ \A i \in 1..inits : i \in 1..(inits + 1)
          BY <1>2
      <4> QED
          BY <1>1, <2>6, <4>1, <4>2 DEF Up
    <3>2. StartupTypeOK'
        BY <1>1, <1>2, <2>2, <2>4, <2>6 DEF StartupTypeOK
    <3>3. ServicesUp'
        BY <1>1, <2>6, <3>1 DEF ServicesUp
    <3> QED
        BY <1>1, <1>3, <2>6, <3>2, <3>3 DEF StartupIInv
  <2>7. CASE phase' = "failed" /\ UNCHANGED <<inits, provided>>
    <3>1. Up' = Up
        BY <1>1, <2>7 DEF Up
    <3>2. StartupTypeOK' /\ ServicesUp'
        BY <1>1, <2>7, <3>1 DEF StartupTypeOK, ServicesUp
    <3> QED
        BY <1>1, <1>3, <2>7, <3>2 DEF StartupIInv
  <2> QED
      BY <2>5, <2>6, <2>7
<1>5. CASE ~ (inits < Len(sorted))
  <2>1. phase' = "running" /\ UNCHANGED <<inits, provided>>
      BY <1>5 DEF InitModules
  <2>2. StartupTypeOK' /\ ServicesUp'
      BY <1>1, <2>1 DEF StartupTypeOK, ServicesUp
  <2> QED
      BY <1>1, <1>3, <2>1, <2>2 DEF StartupIInv
<1> QED
    BY <1>4, <1>5

\* Modules go down from the last.
LEMMA KeepsShutdown ==
    ASSUME StartupIInv, Shutdown
    PROVE  StartupIInv'
<1>1. /\ phase \in {"running", "stopping"} /\ phase' \in {"stopping", "stopped"} /\ inits' = (IF inits = 0 THEN 0 ELSE inits - 1)
      /\ StartupTypeOK /\ WiringTypeOK /\ InOrder
      /\ UNCHANGED <<requires, enabled, inDegree, queue, sorted, provided>>
    BY DEF StartupIInv, Shutdown, Wiring
<1>2. Len(sorted) \in Nat /\ inits' \in 0..Len(sorted)
    BY <1>1 DEF StartupTypeOK
<1>3. Sorted' = Sorted /\ InOrder' /\ WiringTypeOK'
    BY <1>1 DEF Sorted, InOrder, WiringTypeOK
<1>4. StartupTypeOK' /\ ServicesUp'
    BY <1>1, <1>2 DEF StartupTypeOK, ServicesUp
<1> QED
    BY <1>1, <1>3, <1>4 DEF StartupIInv

\* Every step of NewEngine and Shutdown keeps the invariant.
LEMMA StartupKeeps == StartupIInv /\ [StartupNext]_startupVars => StartupIInv'
<1> SUFFICES ASSUME StartupIInv, UNCHANGED startupVars PROVE StartupIInv'
    BY KeepsValidate, KeepsSort, KeepsFindCycle, KeepsConnect, KeepsInit, KeepsShutdown DEF StartupNext
<1>1. UNCHANGED <<requires, enabled, phase, inDegree, queue, sorted, inits, provided>>
    BY DEF startupVars
<1>2. Sorted' = Sorted /\ Queued' = Queued /\ Up' = Up
    BY <1>1 DEF Sorted, Queued, Up
<1>3. /\ StartupTypeOK => StartupTypeOK'
      /\ WiringTypeOK => WiringTypeOK'
      /\ InOrder => InOrder'
      /\ ServicesUp => ServicesUp'
      /\ QueueReady => QueueReady'
    BY <1>1, <1>2 DEF StartupTypeOK, WiringTypeOK, InOrder, ServicesUp, QueueReady
<1> QED
    BY <1>1, <1>2, <1>3 DEF StartupIInv

\* The invariant says what is promised of the order.
LEMMA StartupImplies == StartupIInv => DependenciesFirst
<1> SUFFICES ASSUME StartupIInv PROVE DependenciesFirst
    OBVIOUS
<1>1. StartupTypeOK /\ WiringTypeOK /\ InOrder /\ phase # "panic"
    BY DEF StartupIInv
<1>2. sorted \in Seq(Modules) /\ Len(sorted) \in Nat /\ inits \in 0..Len(sorted) /\ DOMAIN sorted = 1..Len(sorted)
    BY <1>1 DEF StartupTypeOK
<1>3. ASSUME NEW m \in Up PROVE requires[m] \subseteq Up
  <2>1. PICK i \in 1..inits : m = sorted[i]
      BY DEF Up
  <2>2. i \in 1..Len(sorted) /\ \A j \in 1..(i - 1) : j \in 1..inits
      BY <1>2, <2>1
  <2>3. requires[m] \subseteq {sorted[j] : j \in 1..(i - 1)}
      BY <1>1, <2>1, <2>2 DEF InOrder
  <2> QED
      BY <2>2, <2>3 DEF Up
<1>4. phase = "cycle" => ~Acyclic
  <2> SUFFICES ASSUME phase = "cycle" PROVE ~Acyclic
      OBVIOUS
  <2>1. /\ Sorted # enabled /\ (\A m \in enabled \ Sorted : ~ (requires[m] \subseteq Sorted))
        /\ (\A m \in enabled : requires[m] \subseteq enabled)
      BY DEF StartupIInv
  <2>2. enabled \ Sorted # {}
      BY <1>1, <2>1 DEF InOrder
  <2> QED
      BY <1>1, <2>1, <2>2, StuckIsCyclic
<1>5. phase = "connect" => Acyclic /\ IsInjective(sorted) /\ ToSet(sorted) = enabled
  <2> SUFFICES ASSUME phase = "connect" PROVE Acyclic /\ IsInjective(sorted) /\ ToSet(sorted) = enabled
      OBVIOUS
  <2>1. Sorted = enabled /\ Len(sorted) = Cardinality(enabled)
      BY DEF StartupIInv
  <2>2. Acyclic
      BY <1>1, <1>2, <2>1, OrderIsAcyclic
  <2>3. IsInjective(sorted)
      BY <1>1, <1>2 DEF InOrder, IsInjective
  <2>4. ToSet(sorted) = enabled
      BY <1>2, <2>1 DEF ToSet, Sorted
  <2> QED
      BY <2>2, <2>3, <2>4
<1> QED
    BY <1>1, <1>3, <1>4, <1>5 DEF DependenciesFirst

\* Whatever modules depend on whatever others, and in whatever order maps are listed: a module is only
\* initialised with the services it requires, and a cycle is reported exactly when there is one.
THEOREM DependenciesComeFirst == StartupSpec => [](StartupTypeOK /\ DependenciesFirst)
<1>1. StartupInit => StartupIInv
    BY StartupStarts
<1>2. StartupIInv /\ [StartupNext]_startupVars => StartupIInv'
    BY StartupKeeps
<1>3. StartupIInv => StartupTypeOK /\ DependenciesFirst
    BY StartupImplies DEF StartupIInv
<1> QED
    BY <1>1, <1>2, <1>3, PTL DEF StartupSpec

-----------------------------------------------------------------------------
(* The platform: the broker, the migrations and the start side by side.    *)

\* The platform keeps the types of its three parts: a step of one part leaves the other two as
\* they are.
THEOREM PlatformTypes == Spec => []TypeOK
<1>1. Init => RabbitInit /\ MigrateInit /\ StartupInit
  BY DEF Init
<1>2. [Next]_vars => [RabbitNext]_rabbitVars
  BY DEF Next, vars, BusStep, MigrationStep, StartupStep
<1>3. [Next]_vars => [MigrateNext]_migrateVars
  BY DEF Next, vars, BusStep, MigrationStep, StartupStep
<1>4. [Next]_vars => [StartupNext]_startupVars
  BY DEF Next, vars, BusStep, MigrationStep, StartupStep
<1>5. TypeOK <=> RabbitTypeOK /\ MigrateTypeOK /\ StartupTypeOK
  BY DEF TypeOK
<1>6. QED
  BY <1>1, <1>2, <1>3, <1>4, <1>5, RabbitTypes, MigrateTypes, DependenciesComeFirst, PTL
     DEF Spec, RabbitSpec, MigrateSpec, StartupSpec
=============================================================================
