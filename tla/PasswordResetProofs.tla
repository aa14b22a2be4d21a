------------------------ MODULE PasswordResetProofs ------------------------
(***************************************************************************)
(* What sessions and password resets promise, for any number of users,     *)
(* addresses, sessions, tokens and requests.                               *)
(***************************************************************************)
EXTENDS PasswordReset, SequenceTheorems, TLAPS

\* The tables that sessions and resets are about.
Tables ==
    /\ session \in [SessionId -> SessionRow \cup {Nothing}]
    /\ issued \in Seq(IssuedRow) /\ Len(issued) <= MaxTokens
    /\ resets \in [User -> Nat]
    /\ challenge \in [Email -> ChallengeRow \cup {Nothing}]

UserTable == user \in [User -> UserRow]

\* What the requests in flight hold, as far as they are about those tables.
Locals(r) ==
    /\ At(r, "opening") => request[r].user \in User
    /\ At(r, "creating") => request[r].email \in Email
    /\ At(r, "refreshing") \/ At(r, "rotating") => request[r].token \in DOMAIN issued
    /\ At(r, "admitting") => /\ request[r].session \in SessionId
                             /\ session[request[r].session] # Nothing
    /\ At(r, "found") \/ At(r, "storing") \/ At(r, "failing") \/ At(r, "claiming") =>
           request[r].email \in Email
    /\ At(r, "found") \/ At(r, "storing") => request[r].user \in User
    /\ At(r, "storing") => request[r].code \in Code /\ request[r].sends \in 1..MaxSends
    /\ At(r, "claiming") =>
           request[r].seen.user \in User /\ request[r].password \in Password

Shaped ==
    /\ Tables /\ UserTable
    /\ DOMAIN request = Request
    /\ \A r \in Request : Locals(r)

\* The steps that touch sessions, tokens or resets, each with what it does there.
Opens(s) ==
    /\ session[s] = Nothing
    /\ \E u \in User :
          session' = [session EXCEPT ![s] =
              [user |-> u, token |-> NextToken, revoked |-> FALSE, expired |-> FALSE,
               era |-> resets[u]]]
    /\ Issue(s, 0) /\ resets' = resets

Rotates(s, t) ==
    /\ t \in DOMAIN issued /\ issued[t].session = s /\ Rotatable(s, t)
    /\ session' = [session EXCEPT ![s].token = NextToken]
    /\ Issue(s, t) /\ resets' = resets

Closes(s) ==
    /\ session[s] # Nothing
    /\ \/ session' = [session EXCEPT ![s].revoked = TRUE]
       \/ session' = [session EXCEPT ![s].expired = TRUE]
    /\ UNCHANGED <<issued, resets>>

ResetsOf(u) ==
    /\ Revoke(u)
    /\ resets' = [resets EXCEPT ![u] = @ + 1]
    /\ issued' = issued

SessionStep ==
    \/ \E s \in SessionId : Opens(s) \/ Closes(s) \/ \E t \in Token : Rotates(s, t)
    \/ \E u \in User : ResetsOf(u)
    \/ UNCHANGED <<session, issued, resets>>

\* A token issued is one of Token and belongs to a session id.
LEMMA IssuedKnown ==
    ASSUME Shaped, NEW t \in DOMAIN issued
    PROVE  t \in Token /\ issued[t] \in IssuedRow /\ issued[t].session \in SessionId
<1>1. issued \in Seq(IssuedRow) /\ Len(issued) <= MaxTokens
    BY DEF Shaped, Tables
<1>2. DOMAIN issued = 1..Len(issued) /\ Len(issued) \in Nat
    BY <1>1
<1>3. t \in Token
    BY <1>1, <1>2, MaxTokensNat DEF Token
<1>4. issued[t] \in IssuedRow
    BY <1>1, <1>2
<1> QED BY <1>3, <1>4 DEF IssuedRow

\* The number of the token issued next.
LEMMA NextKnown ==
    ASSUME Shaped, NEW s, NEW from, Issue(s, from)
    PROVE  NextToken \in Token
<1>1. Len(issued) \in Nat
    BY DEF Shaped, Tables
<1> QED BY <1>1, MaxTokensNat DEF Issue, NextToken, Token

\* What Issue appends.
LEMMA Issued ==
    ASSUME Shaped, NEW s \in SessionId, NEW from \in 0..MaxTokens, Issue(s, from)
    PROVE  /\ issued' \in Seq(IssuedRow) /\ Len(issued') <= MaxTokens
           /\ NextToken \in Token /\ NextToken \notin DOMAIN issued
           /\ DOMAIN issued' = DOMAIN issued \cup {NextToken}
           /\ issued'[NextToken] = [session |-> s, from |-> from]
           /\ \A t \in DOMAIN issued : issued'[t] = issued[t]
<1> DEFINE row == [session |-> s, from |-> from]
<1>1. issued \in Seq(IssuedRow) /\ Len(issued) \in Nat /\ Len(issued) < MaxTokens
    BY DEF Shaped, Tables, Issue
<1>2. row \in IssuedRow
    BY DEF IssuedRow
<1>3. issued' = Append(issued, row)
    BY DEF Issue
<1> HIDE DEF row
<1>4. /\ issued' \in Seq(IssuedRow) /\ Len(issued') = Len(issued) + 1
      /\ issued'[Len(issued) + 1] = row
      /\ \A t \in 1..Len(issued) : issued'[t] = issued[t]
    BY <1>1, <1>2, <1>3, AppendProperties
<1>5. DOMAIN issued = 1..Len(issued) /\ DOMAIN issued' = 1..(Len(issued) + 1)
    BY <1>1, <1>4
<1> QED
    BY <1>1, <1>4, <1>5, MaxTokensNat DEF Token, NextToken, row

\* Every step of the specification is one of those.
LEMMA StepKinds ==
    Shaped /\ [PasswordResetNext]_resetVars => SessionStep
<1> SUFFICES ASSUME Shaped, [PasswordResetNext]_resetVars PROVE SessionStep
    OBVIOUS
<1> USE DEF SessionStep, Shaped, Locals
<1>1. ASSUME NEW r \in Request, OpenSession(r) PROVE SessionStep
    BY <1>1 DEF OpenSession, Opens
<1>2. ASSUME NEW r \in Request, Rotate(r) PROVE SessionStep
    <2>1. request[r].token \in DOMAIN issued
        BY <1>2 DEF Rotate
    <2>2. issued[request[r].token].session \in SessionId /\ request[r].token \in Token
        BY <2>1, IssuedKnown
    <2> QED BY <1>2, <2>1, <2>2 DEF Rotate, Rotates
<1>3. ASSUME NEW r \in Request, Logout(r) PROVE SessionStep
    BY <1>3 DEF Logout, Closes
<1>4. ASSUME NEW s \in SessionId, SessionExpires(s) PROVE SessionStep
    BY <1>4 DEF SessionExpires, Closes, Live
<1>5. ASSUME NEW r \in Request, ConfirmClaim(r) PROVE SessionStep
    BY <1>5 DEF ConfirmClaim, ResetsOf
<1>6. ASSUME NEW r \in Request,
             \/ \E e \in Email : FederatedRead(r, e) \/ \E p \in Password : LoginRead(r, e, p)
             \/ FederatedCreate(r)
             \/ \E t \in Token : RefreshRead(r, t)
             \/ RefreshUser(r)
             \/ \E s \in SessionId : Present(r, s)
             \/ \E what \in {"user", "session"} : Admit(r, what)
             \/ RequestEnds(r)
      PROVE  UNCHANGED <<session, issued, resets>>
    BY <1>6 DEF FederatedRead, LoginRead, FederatedCreate, RefreshRead, RefreshUser,
                Present, Admit, RequestEnds
<1>7. ASSUME NEW u \in User, UsersHandler(u)
      PROVE  UNCHANGED <<session, issued, resets>>
    BY <1>7 DEF UsersHandler, CreateUser, FindUser, UpdateUser, DeleteUser
<1>8. ASSUME NEW r \in Request,
             \/ \E e \in Email :
                   \/ StartFind(r, e)
                   \/ \E code \in Code, p \in Password : ConfirmRead(r, e, code, p)
             \/ \E code \in Code : StartRead(r, code)
             \/ StartStore(r) \/ ConfirmFails(r)
      PROVE  UNCHANGED <<session, issued, resets>>
    BY <1>8 DEF StartFind, ConfirmRead, StartRead, StartStore, ConfirmFails, accountVars
<1>9. ASSUME NEW e \in Email, Age(e) PROVE UNCHANGED <<session, issued, resets>>
    BY <1>9 DEF Age, sessionVars
<1>10. CASE UNCHANGED resetVars
    BY <1>10 DEF resetVars
<1> QED
    BY <1>1, <1>2, <1>3, <1>4, <1>5, <1>6, <1>7, <1>8, <1>9, <1>10
    DEF PasswordResetNext, SessionNext, AuthHandler, ResetHandler

-----------------------------------------------------------------------------
\* What each kind of step does to one row: it opens it, rotates it, ends it or
\* leaves it, and a row never goes away.
LEMMA RowStep ==
    ASSUME Shaped, SessionStep, NEW s \in SessionId
    PROVE  /\ session'[s] \in SessionRow \cup {Nothing}
           /\ \/ session'[s] = session[s]
              \/ session[s] = Nothing
              \/ /\ Live(s) /\ Live(s)'
                 /\ session'[s].user = session[s].user
                 /\ session'[s].era = session[s].era
              \/ /\ session[s] # Nothing /\ session'[s] # Nothing /\ ~Live(s)'
                 /\ session'[s].user = session[s].user
                 /\ session'[s].token = session[s].token
           /\ session[s] # Nothing => session'[s] # Nothing
           /\ DOMAIN session' = SessionId
<1> USE NothingIsNoSession DEF Live
<1>1. session \in [SessionId -> SessionRow \cup {Nothing}]
    BY DEF Shaped, Tables
<1>2. ASSUME NEW q \in SessionId, Opens(q)
      PROVE  /\ session'[q] \in SessionRow /\ session[q] = Nothing
             /\ \A p \in SessionId : p # q => session'[p] = session[p]
             /\ DOMAIN session' = SessionId
    <2>1. NextToken \in Token
        BY <1>2, NextKnown DEF Opens
    <2>2. resets \in [User -> Nat]
        BY DEF Shaped, Tables
    <2> QED BY <1>1, <1>2, <2>1, <2>2 DEF Opens, SessionRow
<1>3. ASSUME NEW q \in SessionId, NEW t \in Token, Rotates(q, t)
      PROVE  /\ session'[q] \in SessionRow /\ Live(q) /\ Live(q)'
             /\ session'[q].user = session[q].user /\ session'[q].era = session[q].era
             /\ \A p \in SessionId : p # q => session'[p] = session[p]
             /\ DOMAIN session' = SessionId
    <2>1. NextToken \in Token
        BY <1>3, NextKnown DEF Rotates
    <2>2. Live(q) /\ session[q] \in SessionRow
        BY <1>1, <1>3 DEF Rotates, Rotatable
    <2> QED BY <1>1, <1>3, <2>1, <2>2 DEF Rotates, SessionRow
<1>4. ASSUME NEW q \in SessionId, Closes(q)
      PROVE  /\ session'[q] \in SessionRow /\ ~Live(q)'
             /\ session'[q].user = session[q].user /\ session'[q].token = session[q].token
             /\ session[q] # Nothing
             /\ \A p \in SessionId : p # q => session'[p] = session[p]
             /\ DOMAIN session' = SessionId
    <2>1. session[q] \in SessionRow
        BY <1>1, <1>4 DEF Closes
    <2> QED BY <1>1, <1>4, <2>1 DEF Closes, SessionRow
<1>5. ASSUME NEW u \in User, ResetsOf(u)
      PROVE  /\ session'[s] \in SessionRow \cup {Nothing}
             /\ \/ session'[s] = session[s]
                \/ /\ session'[s] # Nothing /\ ~Live(s)' /\ session[s] # Nothing
                   /\ session'[s].user = session[s].user
                   /\ session'[s].token = session[s].token
             /\ DOMAIN session' = SessionId
    BY <1>1, <1>5 DEF ResetsOf, Revoke, SessionRow
<1>6. CASE UNCHANGED <<session, issued, resets>>
    BY <1>1, <1>6
<1>7. ASSUME NEW q \in SessionId, Opens(q) \/ Closes(q) \/ \E t \in Token : Rotates(q, t)
      PROVE  /\ session'[s] \in SessionRow \cup {Nothing}
             /\ \/ session'[s] = session[s]
                \/ session[s] = Nothing
                \/ /\ Live(s) /\ Live(s)'
                   /\ session'[s].user = session[s].user
                   /\ session'[s].era = session[s].era
                \/ /\ session[s] # Nothing /\ session'[s] # Nothing /\ ~Live(s)'
                   /\ session'[s].user = session[s].user
                   /\ session'[s].token = session[s].token
             /\ session[s] # Nothing => session'[s] # Nothing
             /\ DOMAIN session' = SessionId
    BY <1>1, <1>2, <1>3, <1>4, <1>7
<1> QED
    BY <1>5, <1>6, <1>7 DEF SessionStep

\* The three tables keep their types.
LEMMA SessionTablesStep ==
    ASSUME Shaped, SessionStep
    PROVE  /\ session' \in [SessionId -> SessionRow \cup {Nothing}]
           /\ issued' \in Seq(IssuedRow) /\ Len(issued') <= MaxTokens
           /\ resets' \in [User -> Nat]
           /\ DOMAIN issued \subseteq DOMAIN issued'
<1>1. session' \in [SessionId -> SessionRow \cup {Nothing}]
    <2>1. CASE SessionId = {}
        <3>1. session' \in [SessionId -> SessionRow \cup {Nothing}]
            BY <2>1 DEF Shaped, Tables, SessionStep, ResetsOf, Revoke
        <3> QED BY <3>1
    <2>2. CASE SessionId # {}
        <3>1. PICK q \in SessionId : TRUE
            BY <2>2
        <3>2. DOMAIN session' = SessionId
            BY <3>1, RowStep
        <3>3. session' = [s \in SessionId |-> session'[s]]
            <4>1. CASE \E u \in User : ResetsOf(u)
                BY <4>1 DEF ResetsOf, Revoke
            <4>2. CASE \E s \in SessionId :
                          Opens(s) \/ Closes(s) \/ \E t \in Token : Rotates(s, t)
                BY <4>2 DEF Shaped, Tables, Opens, Closes, Rotates
            <4>3. CASE UNCHANGED <<session, issued, resets>>
                BY <4>3 DEF Shaped, Tables
            <4> QED BY <4>1, <4>2, <4>3 DEF SessionStep
        <3> QED BY <3>3, RowStep
    <2> QED BY <2>1, <2>2
<1>2. issued' \in Seq(IssuedRow) /\ Len(issued') <= MaxTokens
      /\ DOMAIN issued \subseteq DOMAIN issued'
    <2>1. CASE issued' = issued
        BY <2>1 DEF Shaped, Tables
    <2>2. ASSUME NEW s \in SessionId, NEW from \in 0..MaxTokens, Issue(s, from)
          PROVE  /\ issued' \in Seq(IssuedRow) /\ Len(issued') <= MaxTokens
                 /\ DOMAIN issued \subseteq DOMAIN issued'
        BY <2>2, Issued
    <2> QED
        BY <2>1, <2>2, MaxTokensNat
        DEF SessionStep, Opens, Rotates, Closes, ResetsOf, Token
<1>3. resets' \in [User -> Nat]
    BY DEF SessionStep, Opens, Rotates, Closes, ResetsOf, Shaped, Tables
<1> QED BY <1>1, <1>2, <1>3

-----------------------------------------------------------------------------
\* Locals change only for the request that takes the step.
LEMMA Others ==
    ASSUME NEW r \in Request, NEW local, DOMAIN request = Request, Goes(r, local)
    PROVE  /\ DOMAIN request' = Request
           /\ request'[r] = local
           /\ \A q \in Request : q # r => request'[q] = request[q]
BY DEF Goes

\* A step that moves no request leaves what they hold as true as it was.
LEMMA LocalsStay ==
    ASSUME Shaped, SessionStep, NEW r \in Request, request'[r] = request[r]
    PROVE  Locals(r)'
<1>1. DOMAIN issued \subseteq DOMAIN issued'
    BY SessionTablesStep
<1>2. At(r, "admitting") =>
          request[r].session \in SessionId /\ session'[request[r].session] # Nothing
    BY RowStep DEF Shaped, Locals
<1>3. Locals(r)
    BY DEF Shaped
<1> QED BY <1>1, <1>2, <1>3 DEF Locals, At

\* What a start stores, and what failed tries and time leave, are rows.
LEMMA ChallengeStep ==
    Shaped /\ [PasswordResetNext]_resetVars =>
        challenge' \in [Email -> ChallengeRow \cup {Nothing}]
<1> SUFFICES ASSUME Shaped, [PasswordResetNext]_resetVars
             PROVE  challenge' \in [Email -> ChallengeRow \cup {Nothing}]
    OBVIOUS
<1> DEFINE Good == challenge' \in [Email -> ChallengeRow \cup {Nothing}]
<1>1. challenge \in [Email -> ChallengeRow \cup {Nothing}]
    BY DEF Shaped, Tables
<1>2. ASSUME UNCHANGED challenge PROVE Good
    BY <1>1, <1>2
<1>3. ASSUME NEW r \in Request, NEW e \in Email, StartFind(r, e) PROVE Good
    BY <1>1, <1>3 DEF StartFind
<1>4. ASSUME NEW r \in Request, StartStore(r) PROVE Good
    <2> DEFINE row == [user |-> request[r].user, code |-> request[r].code,
                       phase |-> "resting", attempts |-> 0,
                       sends |-> request[r].sends]
    <2>1. row \in ChallengeRow
        BY <1>4, ChallengeBounds DEF StartStore, Shaped, Locals, ChallengeRow, Phase
    <2>2. challenge' = [challenge EXCEPT ![request[r].email] = row]
        BY <1>4 DEF StartStore
    <2> HIDE DEF row
    <2> QED BY <1>1, <2>1, <2>2
<1>5. ASSUME NEW r \in Request, ConfirmFails(r) PROVE Good
    <2>1. request[r].email \in Email
        BY <1>5 DEF ConfirmFails, Shaped, Locals
    <2>2. Failed(challenge[request[r].email], request[r].seen) \in ChallengeRow \cup {Nothing}
        BY <1>1, <2>1, ChallengeBounds DEF Failed, Claimable, Current, ChallengeRow
    <2>3. challenge' = [challenge EXCEPT ![request[r].email] =
                            Failed(challenge[request[r].email], request[r].seen)]
        BY <1>5 DEF ConfirmFails
    <2> QED BY <1>1, <2>2, <2>3
<1>6. ASSUME NEW r \in Request, ConfirmClaim(r) PROVE Good
    BY <1>1, <1>6 DEF ConfirmClaim
<1>7. ASSUME NEW e \in Email, Age(e) PROVE Good
    <2>1. [challenge[e] EXCEPT !.phase = Later(@)] \in ChallengeRow
        BY <1>1, <1>7 DEF Age, Later, ChallengeRow, Phase
    <2>2. challenge' = [challenge EXCEPT ![e] = [challenge[e] EXCEPT !.phase = Later(@)]]
        BY <1>7 DEF Age
    <2> QED BY <1>1, <2>1, <2>2
<1>8. ASSUME NEW r \in Request,
             \/ \E e \in Email, code \in Code, p \in Password : ConfirmRead(r, e, code, p)
             \/ \E code \in Code : StartRead(r, code)
      PROVE  UNCHANGED challenge
    BY <1>8 DEF ConfirmRead, StartRead, challengeVars
<1>9. ASSUME SessionNext /\ UNCHANGED challengeVars PROVE UNCHANGED challenge
    BY <1>9 DEF challengeVars
<1>10. ASSUME UNCHANGED resetVars PROVE UNCHANGED challenge
    BY <1>10 DEF resetVars
<1> HIDE DEF Good
<1>11. Good
    BY <1>2, <1>3, <1>4, <1>5, <1>6, <1>7, <1>8, <1>9, <1>10
    DEF PasswordResetNext, ResetHandler
<1> QED BY <1>11 DEF Good

\* Every step leaves every request with the locals its place calls for.
LEMMA LocalsStep ==
    ASSUME Shaped, [PasswordResetNext]_resetVars, NEW q \in Request
    PROVE  DOMAIN request' = Request /\ Locals(q)'
<1> DEFINE Good == DOMAIN request' = Request /\ Locals(q)'
<1>1. SessionStep
    BY StepKinds
<1>2. DOMAIN request = Request
    BY DEF Shaped
<1>3. ASSUME UNCHANGED request PROVE Good
    BY <1>1, <1>2, <1>3, LocalsStay
<1>4. ASSUME NEW r \in Request, NEW local, Goes(r, local), r = q => Locals(q)'
      PROVE  Good
    <2>1. CASE r = q
        BY <1>2, <1>4, <2>1, Others
    <2>2. CASE r # q
        BY <1>1, <1>2, <1>4, <2>2, Others, LocalsStay
    <2> QED BY <2>1, <2>2
<1> USE <1>2 DEF Locals, At
<1>5. ASSUME NEW r \in Request, Ends(r) PROVE Good
    BY <1>4, <1>5, Others DEF Ends
<1>6. ASSUME NEW r \in Request, NEW e \in Email,
             FederatedRead(r, e) \/ \E p \in Password : LoginRead(r, e, p)
      PROVE  Good
    <2>1. CASE \E u \in User : Goes(r, [at |-> "opening", user |-> u])
        BY <1>4, <2>1, Others
    <2>2. CASE Goes(r, [at |-> "creating", email |-> e])
        BY <1>4, <2>2, Others
    <2> QED BY <1>6, <2>1, <2>2 DEF FederatedRead, LoginRead
<1>7. ASSUME NEW r \in Request, FederatedCreate(r) PROVE Good
    <2>1. CASE \E u \in User : Goes(r, [at |-> "opening", user |-> u])
        BY <1>4, <2>1, Others
    <2> QED BY <1>5, <1>7, <2>1 DEF FederatedCreate
<1>8. ASSUME NEW r \in Request, NEW t \in Token, RefreshRead(r, t) PROVE Good
    <2>1. Goes(r, [at |-> "refreshing", token |-> t])
        BY <1>8 DEF RefreshRead
    <2>2. t \in DOMAIN issued'
        BY <1>8 DEF RefreshRead
    <2> QED BY <1>4, <2>1, <2>2, Others
<1>9. ASSUME NEW r \in Request, RefreshUser(r) PROVE Good
    <2>1. CASE Goes(r, [at |-> "rotating", token |-> request[r].token])
        <3>1. request[r].token \in DOMAIN issued'
            BY <1>9 DEF RefreshUser, Shaped
        <3> QED BY <1>4, <2>1, <3>1, Others
    <2> QED BY <1>5, <1>9, <2>1 DEF RefreshUser
<1>10. ASSUME NEW r \in Request, NEW s \in SessionId, Present(r, s) PROVE Good
    <2>1. Goes(r, [at |-> "admitting", session |-> s, seen |-> {}])
        BY <1>10 DEF Present
    <2>2. session'[s] # Nothing
        BY <1>10 DEF Present
    <2> QED BY <1>4, <2>1, <2>2, Others
<1>11. ASSUME NEW r \in Request, NEW what \in {"user", "session"}, Admit(r, what)
       PROVE  Good
    <2> DEFINE local == [request[r] EXCEPT !.seen = @ \cup {what}]
    <2>1. CASE Goes(r, local)
        <3>1. /\ request[r].at = "admitting" /\ request[r].session \in SessionId
              /\ session'[request[r].session] # Nothing
            BY <1>11 DEF Admit, Shaped
        <3>2. local.at = request[r].at /\ local.session = request[r].session
            OBVIOUS
        <3> HIDE DEF local
        <3> QED BY <1>4, <2>1, <3>1, <3>2, Others
    <2> QED BY <1>5, <1>11, <2>1 DEF Admit
<1>12. ASSUME NEW r \in Request, NEW e \in Email, StartFind(r, e) PROVE Good
    <2>1. CASE \E u \in User : Goes(r, [at |-> "found", email |-> e, user |-> u])
        BY <1>4, <2>1, Others
    <2> QED BY <1>3, <1>12, <2>1 DEF StartFind
<1>13. ASSUME NEW r \in Request, NEW code \in Code, StartRead(r, code) PROVE Good
    <2> DEFINE row == challenge[request[r].email]
    <2>1. CASE (Active(row) => MayResend(row))
        <3>1. request[r].email \in Email /\ request[r].user \in User
            BY <1>13 DEF StartRead, Shaped
        <3>2. SendCount(row) \in 1..MaxSends
            BY <2>1, <3>1, ChallengeBounds
            DEF SendCount, Active, MayResend, Shaped, Tables, ChallengeRow
        <3>3. Goes(r, [at |-> "storing", email |-> request[r].email,
                       user |-> request[r].user, code |-> code,
                       sends |-> SendCount(row)])
            BY <1>13, <2>1 DEF StartRead
        <3> HIDE DEF row
        <3> QED BY <1>4, <3>1, <3>2, <3>3, Others
    <2> QED BY <1>5, <1>13, <2>1 DEF StartRead
<1>14. ASSUME NEW r \in Request, NEW e \in Email, NEW code \in Code, NEW p \in Password,
              ConfirmRead(r, e, code, p)
       PROVE  Good
    <2>1. challenge[e].user \in User
        BY <1>14 DEF ConfirmRead, MayTry, Active, Shaped, Tables, ChallengeRow
    <2>2. Saw(challenge[e]).user \in User
        BY <2>1 DEF Saw
    <2>3. CASE Goes(r, [at |-> "claiming", email |-> e, seen |-> Saw(challenge[e]),
                        password |-> p])
        BY <1>4, <2>2, <2>3, Others
    <2>4. CASE Goes(r, [at |-> "failing", email |-> e, seen |-> Saw(challenge[e])])
        BY <1>4, <2>4, Others
    <2> QED BY <1>14, <2>3, <2>4 DEF ConfirmRead
<1>15. ASSUME NEW r \in Request,
              \/ OpenSession(r) \/ Rotate(r) \/ Logout(r) \/ RequestEnds(r)
              \/ StartStore(r) \/ ConfirmFails(r) \/ ConfirmClaim(r)
       PROVE  Ends(r)
    BY <1>15 DEF OpenSession, Rotate, Logout, RequestEnds, StartStore, ConfirmFails,
                 ConfirmClaim
<1>16. ASSUME NEW u \in User, UsersHandler(u)
       PROVE  UNCHANGED request
    BY <1>16 DEF UsersHandler, CreateUser, FindUser, UpdateUser, DeleteUser
<1>17. ASSUME NEW s \in SessionId, SessionExpires(s) PROVE UNCHANGED request
    BY <1>17 DEF SessionExpires
<1>18. ASSUME NEW e \in Email, Age(e) PROVE UNCHANGED request
    BY <1>18 DEF Age, sessionVars
<1>19. ASSUME UNCHANGED resetVars PROVE UNCHANGED request
    BY <1>19 DEF resetVars
<1> HIDE DEF Good
<1>20. Good
    BY <1>3, <1>5, <1>6, <1>7, <1>8, <1>9, <1>10, <1>11, <1>12, <1>13, <1>14, <1>15,
       <1>16, <1>17, <1>18, <1>19
    DEF PasswordResetNext, SessionNext, AuthHandler, ResetHandler
<1> QED BY <1>20 DEF Good

\* What is written to the users table are users.
LEMMA UserStep ==
    Shaped /\ [PasswordResetNext]_resetVars => UserTable'
<1> SUFFICES ASSUME Shaped, [PasswordResetNext]_resetVars PROVE UserTable'
    OBVIOUS
<1>1. user \in [User -> UserRow]
    BY DEF Shaped, UserTable
<1>2. ASSUME UNCHANGED user PROVE UserTable'
    BY <1>1, <1>2 DEF UserTable
<1>3. ASSUME NEW r \in Request, FederatedCreate(r) PROVE UserTable'
    <2> DEFINE row == [status |-> "ACTIVE", email |-> request[r].email,
                       password |-> Unknown]
    <2>1. row \in UserRow
        BY <1>3 DEF FederatedCreate, Shaped, Locals, UserRow, UserStatus
    <2>2. CASE \E u \in User : user' = [user EXCEPT ![u] = row]
        <3> HIDE DEF row
        <3> QED BY <1>1, <2>1, <2>2 DEF UserTable
    <2> QED BY <1>2, <1>3, <2>2 DEF FederatedCreate
<1>4. ASSUME NEW u \in User, CreateUser(u) \/ UpdateUser(u) PROVE UserTable'
    <2>1. PICK status \in UserStatus, e \in Email \cup {user[u].email},
               p \in Password \cup {user[u].password} :
              user' = [user EXCEPT ![u] = [status |-> status, email |-> e, password |-> p]]
        BY <1>4 DEF CreateUser, UpdateUser
    <2>2. [status |-> status, email |-> e, password |-> p] \in UserRow
        BY <1>1 DEF UserRow
    <2> QED BY <1>1, <2>1, <2>2 DEF UserTable
<1>5. ASSUME NEW u \in User, DeleteUser(u) PROVE UserTable'
    <2>1. [user[u] EXCEPT !.status = "DELETED"] \in UserRow
        BY <1>1 DEF UserRow, UserStatus
    <2> QED BY <1>1, <1>5, <2>1 DEF DeleteUser, UserTable
<1>6. ASSUME NEW r \in Request, ConfirmClaim(r) PROVE UserTable'
    <2> DEFINE w == request[r].seen.user
    <2>1. request[r].password \in Password /\ w \in User
        BY <1>6 DEF ConfirmClaim, Shaped, Locals
    <2>2. [user[w] EXCEPT !.password = request[r].password] \in UserRow
        BY <1>1, <2>1 DEF UserRow
    <2>3. CASE user' = [user EXCEPT ![w] = [user[w] EXCEPT !.password = request[r].password]]
        BY <1>1, <2>2, <2>3 DEF UserTable
    <2> QED BY <1>2, <1>6, <2>3 DEF ConfirmClaim
<1>7. ASSUME NEW r \in Request,
             \/ AuthHandler(r) /\ ~FederatedCreate(r)
             \/ ResetHandler(r) /\ ~ConfirmClaim(r)
      PROVE  UNCHANGED user
    BY <1>7
    DEF AuthHandler, ResetHandler, FederatedRead, LoginRead, OpenSession, RefreshRead,
        RefreshUser, Rotate, Present, Admit, Logout, RequestEnds, StartFind, StartRead,
        StartStore, ConfirmRead, ConfirmFails, accountVars
<1>8. ASSUME NEW u \in User, FindUser(u) PROVE UNCHANGED user
    BY <1>8 DEF FindUser
<1>9. ASSUME NEW s \in SessionId, SessionExpires(s) PROVE UNCHANGED user
    BY <1>9 DEF SessionExpires
<1>10. ASSUME NEW e \in Email, Age(e) PROVE UNCHANGED user
    BY <1>10 DEF Age, sessionVars
<1> QED
    BY <1>2, <1>3, <1>4, <1>5, <1>6, <1>7, <1>8, <1>9, <1>10
    DEF PasswordResetNext, SessionNext, UsersHandler, resetVars

\* The shape is inductive.
LEMMA ShapedStep == Shaped /\ [PasswordResetNext]_resetVars => Shaped'
<1> SUFFICES ASSUME Shaped, [PasswordResetNext]_resetVars PROVE Shaped'
    OBVIOUS
<1>1. Tables' /\ UserTable'
    BY StepKinds, SessionTablesStep, ChallengeStep, UserStep DEF Tables
<1>2. \A r \in Request : DOMAIN request' = Request /\ Locals(r)'
    BY LocalsStep
<1>3. CASE Request = {}
    <2>1. ASSUME NEW u \in User, UsersHandler(u)
          PROVE  UNCHANGED request
        BY <2>1 DEF UsersHandler, CreateUser, FindUser, UpdateUser, DeleteUser
    <2>2. ASSUME NEW s \in SessionId, SessionExpires(s) PROVE UNCHANGED request
        BY <2>2 DEF SessionExpires
    <2>3. ASSUME NEW e \in Email, Age(e) PROVE UNCHANGED request
        BY <2>3 DEF Age, sessionVars
    <2>4. UNCHANGED request
        BY <1>3, <2>1, <2>2, <2>3 DEF PasswordResetNext, SessionNext, resetVars
    <2> QED BY <1>1, <1>3, <2>4 DEF Shaped
<1>4. CASE Request # {}
    BY <1>1, <1>2, <1>4 DEF Shaped
<1> QED BY <1>3, <1>4

\* It holds when nothing has been issued and no request is in flight.
LEMMA ShapedInit == PasswordResetInit => Shaped
BY MaxTokensNat
DEF PasswordResetInit, SessionInit, Shaped, Tables, Locals, At, UserTable, UserRow,
    UserStatus, NoUser

-----------------------------------------------------------------------------
\* The tables and the locals keep their shape in every behaviour.
LEMMA AlwaysShaped == PasswordResetSpec => []Shaped
BY ShapedInit, ShapedStep, PTL DEF PasswordResetSpec

-----------------------------------------------------------------------------
\* What a request may hold, and what it holds of a handler's place.
Rows == RequestRow \cup ResetRow

Held == request \in [Request -> Rows \cup {Nothing}]

\* A request whose token is being checked holds the session and what it has seen.
LEMMA AdmittingRow ==
    ASSUME NEW row \in Rows, row.at = "admitting"
    PROVE  row \in [at : {"admitting"}, session : SessionId,
                    seen : SUBSET {"user", "session"}]
BY DEF Rows, RequestRow, ResetRow

\* Every step leaves every request with one of the rows of its handler.
LEMMA HeldStep ==
    Shaped /\ Held /\ [PasswordResetNext]_resetVars => Held'
<1> SUFFICES ASSUME Shaped, Held, [PasswordResetNext]_resetVars PROVE Held'
    OBVIOUS
<1>1. ASSUME UNCHANGED request PROVE Held'
    BY <1>1 DEF Held
<1>2. ASSUME NEW r \in Request, NEW local \in Rows, Goes(r, local) PROVE Held'
    BY <1>2 DEF Held, Goes
<1>3. ASSUME NEW r \in Request, Ends(r) PROVE Held'
    BY <1>3 DEF Held, Ends, Goes
<1>4. ASSUME NEW u \in User PROVE [at |-> "opening", user |-> u] \in Rows
    BY DEF Rows, RequestRow
<1>5. ASSUME NEW r \in Request, NEW e \in Email,
             FederatedRead(r, e) \/ \E p \in Password : LoginRead(r, e, p)
      PROVE  Held'
    <2>1. [at |-> "creating", email |-> e] \in Rows
        BY DEF Rows, RequestRow
    <2> QED BY <1>2, <1>4, <1>5, <2>1 DEF FederatedRead, LoginRead
<1>6. ASSUME NEW r \in Request, FederatedCreate(r) PROVE Held'
    BY <1>2, <1>3, <1>4, <1>6 DEF FederatedCreate
<1>7. ASSUME NEW t \in DOMAIN issued, NEW place \in {"refreshing", "rotating"}
      PROVE  [at |-> place, token |-> t] \in Rows
    BY IssuedKnown DEF Rows, RequestRow
<1>8. ASSUME NEW r \in Request, NEW t \in Token, RefreshRead(r, t) PROVE Held'
    <2>1. t \in DOMAIN issued /\ Goes(r, [at |-> "refreshing", token |-> t])
        BY <1>8 DEF RefreshRead
    <2> QED BY <1>2, <1>7, <2>1
<1>9. ASSUME NEW r \in Request, RefreshUser(r) PROVE Held'
    <2>1. request[r].token \in DOMAIN issued
        BY <1>9 DEF RefreshUser, Shaped, Locals
    <2>2. [at |-> "rotating", token |-> request[r].token] \in Rows
        BY <1>7, <2>1
    <2> QED BY <1>2, <1>3, <1>9, <2>2 DEF RefreshUser
<1>10. ASSUME NEW r \in Request, NEW s \in SessionId, Present(r, s) PROVE Held'
    <2>1. [at |-> "admitting", session |-> s, seen |-> {}] \in Rows
        BY DEF Rows, RequestRow
    <2> QED BY <1>2, <1>10, <2>1 DEF Present
<1>11. ASSUME NEW r \in Request, NEW what \in {"user", "session"}, Admit(r, what)
       PROVE  Held'
    <2> DEFINE local == [request[r] EXCEPT !.seen = @ \cup {what}]
    <2>1. request[r] \in Rows /\ request[r].at = "admitting"
        BY <1>11 DEF Admit, At, Held
    <2>2. request[r] \in [at : {"admitting"}, session : SessionId,
                          seen : SUBSET {"user", "session"}]
        BY <2>1, AdmittingRow
    <2>3. local \in [at : {"admitting"}, session : SessionId,
                     seen : SUBSET {"user", "session"}]
        BY <2>2
    <2>4. local \in Rows
        BY <2>3 DEF Rows, RequestRow
    <2>5. Goes(r, local) \/ Ends(r)
        BY <1>11 DEF Admit
    <2> HIDE DEF local
    <2> QED BY <1>2, <1>3, <2>4, <2>5
<1>12. ASSUME NEW r \in Request, NEW e \in Email, StartFind(r, e) PROVE Held'
    <2>1. \A u \in User : [at |-> "found", email |-> e, user |-> u] \in Rows
        BY DEF Rows, ResetRow
    <2> QED BY <1>1, <1>2, <1>12, <2>1 DEF StartFind
<1>13. ASSUME NEW r \in Request, NEW code \in Code, StartRead(r, code) PROVE Held'
    <2> DEFINE row   == challenge[request[r].email]
               local == [at |-> "storing", email |-> request[r].email,
                         user |-> request[r].user, code |-> code,
                         sends |-> SendCount(row)]
    <2>1. CASE (Active(row) => MayResend(row))
        <3>1. request[r].email \in Email /\ request[r].user \in User
            BY <1>13 DEF StartRead, Shaped, Locals
        <3>2. SendCount(row) \in 1..MaxSends
            BY <2>1, <3>1, ChallengeBounds
            DEF SendCount, Active, MayResend, Shaped, Tables, ChallengeRow
        <3>3. local \in Rows
            <4> HIDE DEF row
            <4> QED BY <3>1, <3>2 DEF Rows, ResetRow
        <3>4. Goes(r, local)
            BY <1>13, <2>1 DEF StartRead
        <3> HIDE DEF local
        <3> QED BY <1>2, <3>3, <3>4
    <2>2. CASE ~(Active(row) => MayResend(row))
        BY <1>3, <1>13, <2>2 DEF StartRead
    <2> QED BY <2>1, <2>2
<1>14. ASSUME NEW r \in Request, NEW e \in Email, NEW code \in Code, NEW p \in Password,
              ConfirmRead(r, e, code, p)
       PROVE  Held'
    <2>1. Saw(challenge[e]) \in Seen
        BY <1>14 DEF ConfirmRead, MayTry, Active, Shaped, Tables, ChallengeRow, Saw, Seen
    <2>2. ASSUME NEW seen \in Seen
          PROVE  /\ [at |-> "claiming", email |-> e, seen |-> seen, password |-> p] \in Rows
                 /\ [at |-> "failing", email |-> e, seen |-> seen] \in Rows
        BY DEF Rows, ResetRow
    <2>3. \/ Goes(r, [at |-> "claiming", email |-> e, seen |-> Saw(challenge[e]),
                      password |-> p])
          \/ Goes(r, [at |-> "failing", email |-> e, seen |-> Saw(challenge[e])])
        BY <1>14 DEF ConfirmRead
    <2> QED BY <1>2, <2>1, <2>2, <2>3
<1>15. ASSUME NEW r \in Request,
              \/ OpenSession(r) \/ Rotate(r) \/ Logout(r) \/ RequestEnds(r)
              \/ StartStore(r) \/ ConfirmFails(r) \/ ConfirmClaim(r)
       PROVE  Ends(r)
    BY <1>15 DEF OpenSession, Rotate, Logout, RequestEnds, StartStore, ConfirmFails,
                 ConfirmClaim
<1>16. ASSUME \/ \E u \in User : UsersHandler(u)
              \/ \E s \in SessionId : SessionExpires(s)
              \/ \E e \in Email : Age(e)
              \/ UNCHANGED resetVars
       PROVE  UNCHANGED request
    BY <1>16 DEF UsersHandler, CreateUser, FindUser, UpdateUser, DeleteUser, SessionExpires,
                 Age, sessionVars, resetVars
<1> QED
    BY <1>1, <1>3, <1>5, <1>6, <1>8, <1>9, <1>10, <1>11, <1>12, <1>13, <1>14, <1>15, <1>16
    DEF PasswordResetNext, SessionNext, AuthHandler, ResetHandler

\* Only users that were found are edited, and the codes stored are counted to MaxStores.
LEMMA BoundsStep ==
    editing \subseteq User /\ stored \in 0..MaxStores /\ [PasswordResetNext]_resetVars =>
        editing' \subseteq User /\ stored' \in 0..MaxStores
<1> SUFFICES ASSUME editing \subseteq User, stored \in 0..MaxStores,
                    [PasswordResetNext]_resetVars
             PROVE  editing' \subseteq User /\ stored' \in 0..MaxStores
    OBVIOUS
<1>1. ASSUME NEW u \in User, UsersHandler(u)
      PROVE  editing' \subseteq User
    BY <1>1 DEF UsersHandler, CreateUser, FindUser, UpdateUser, DeleteUser
<1>2. ASSUME NEW r \in Request, AuthHandler(r) PROVE UNCHANGED editing
    BY <1>2
    DEF AuthHandler, FederatedRead, LoginRead, FederatedCreate, OpenSession, RefreshRead,
        RefreshUser, Rotate, Present, Admit, Logout, RequestEnds
<1>3. ASSUME NEW r \in Request, ResetHandler(r)
      PROVE  UNCHANGED editing /\ stored' \in 0..MaxStores
    <2>1. CASE StartStore(r)
        <3>1. stored' = stored + 1 /\ stored < MaxStores /\ UNCHANGED editing
            BY <2>1 DEF StartStore, accountVars
        <3> QED BY <3>1, MaxStoresNat
    <2>2. CASE ~StartStore(r)
        BY <1>3, <2>2
        DEF ResetHandler, StartFind, StartRead, ConfirmRead, ConfirmFails, ConfirmClaim,
            accountVars, challengeVars
    <2> QED BY <2>1, <2>2
<1>4. ASSUME \/ \E s \in SessionId : SessionExpires(s) /\ UNCHANGED challengeVars
             \/ \E e \in Email : Age(e)
             \/ UNCHANGED resetVars
      PROVE  UNCHANGED <<editing, stored>>
    BY <1>4 DEF SessionExpires, Age, sessionVars, resetVars, challengeVars
<1> QED
    BY <1>1, <1>2, <1>3, <1>4 DEF PasswordResetNext, SessionNext, challengeVars

\* Users, sessions, codes and what the requests in flight hold are of their types: no
\* code is tried past MAX_ATTEMPTS, none is sent past MAX_SENDS.
THEOREM PasswordResetTypes == PasswordResetSpec => []PasswordResetTypeOK
<1> DEFINE TypeInv == Held /\ editing \subseteq User /\ stored \in 0..MaxStores
<1>1. PasswordResetInit => TypeInv
    BY MaxStoresNat DEF PasswordResetInit, SessionInit, Held
<1>2. (Shaped /\ TypeInv) /\ [PasswordResetNext]_resetVars => TypeInv'
    BY HeldStep, BoundsStep
<1>3. Shaped /\ TypeInv => PasswordResetTypeOK
    BY DEF Shaped, Tables, UserTable, Held, Rows, PasswordResetTypeOK, SessionTypeOK
<1> HIDE DEF TypeInv
<1> QED
    BY <1>1, <1>2, <1>3, AlwaysShaped, PTL DEF PasswordResetSpec

\* A session that has ended stays so and accepts no other token.
THEOREM AlwaysEndedForGood == PasswordResetSpec => EndedForGood
<1>1. ASSUME Shaped, [PasswordResetNext]_resetVars, NEW s \in SessionId,
             session[s] # Nothing, ~Live(s)
      PROVE  ~Live(s)' /\ session'[s].token = session[s].token
    BY <1>1, StepKinds, RowStep DEF Live
<1>2. Shaped /\ [PasswordResetNext]_resetVars =>
        [\A s \in SessionId :
            session[s] # Nothing /\ ~Live(s) =>
                /\ ~Live(s)'
                /\ session'[s].token = session[s].token
        ]_sessionVars
    BY <1>1
<1> QED
    BY <1>2, AlwaysShaped, PTL DEF PasswordResetSpec, EndedForGood

\* No live session is older than the last reset of its user's password.
LEMMA ResetEndsSessionsStep ==
    Shaped /\ ResetEndsSessions /\ [PasswordResetNext]_resetVars => ResetEndsSessions'
<1> SUFFICES ASSUME Shaped, ResetEndsSessions, [PasswordResetNext]_resetVars,
                    NEW s \in SessionId, Live(s)'
             PROVE  session'[s].era = resets'[session'[s].user]
    BY DEF ResetEndsSessions
<1> USE DEF Live
<1>1. /\ SessionStep
      /\ session \in [SessionId -> SessionRow \cup {Nothing}]
      /\ resets \in [User -> Nat]
    BY StepKinds DEF Shaped, Tables
<1>2. CASE \E q \in SessionId : Opens(q)
    <2>1. PICK q \in SessionId : Opens(q)
        BY <1>2
    <2>2. CASE q = s
        BY <1>1, <2>1, <2>2 DEF Opens
    <2>3. CASE q # s
        BY <1>1, <2>1, <2>3 DEF Opens, ResetEndsSessions
    <2> QED BY <2>2, <2>3
<1>3. CASE UNCHANGED resets /\ session[s] # Nothing
    BY <1>1, <1>3, RowStep DEF ResetEndsSessions
<1>4. CASE \E u \in User : ResetsOf(u)
    <2>1. PICK u \in User : ResetsOf(u)
        BY <1>4
    <2>2. session[s] \in SessionRow /\ session[s].user # u /\ session'[s] = session[s]
        BY <1>1, <2>1 DEF ResetsOf, Revoke, SessionRow
    <2>3. session[s].user \in User /\ resets'[session[s].user] = resets[session[s].user]
        BY <1>1, <2>1, <2>2 DEF ResetsOf, SessionRow
    <2> QED BY <2>2, <2>3 DEF ResetEndsSessions
<1>5. CASE \E q \in SessionId : Closes(q) \/ \E t \in Token : Rotates(q, t)
    <2>1. UNCHANGED resets
        BY <1>5 DEF Closes, Rotates
    <2>2. session[s] # Nothing
        BY <1>1, <1>5, NothingIsNoSession DEF Closes, Rotates, Rotatable
    <2> QED BY <1>3, <2>1, <2>2
<1>6. CASE UNCHANGED <<session, issued, resets>>
    BY <1>6 DEF ResetEndsSessions
<1> QED BY <1>1, <1>2, <1>4, <1>5, <1>6 DEF SessionStep

\* confirm revokes every session opened before it, and no refresh brings one back.
THEOREM ResetAlwaysEndsSessions == PasswordResetSpec => []ResetEndsSessions
<1>1. PasswordResetInit => ResetEndsSessions
    BY DEF PasswordResetInit, SessionInit, ResetEndsSessions, Live
<1>2. (Shaped /\ ResetEndsSessions) /\ [PasswordResetNext]_resetVars => ResetEndsSessions'
    BY ResetEndsSessionsStep
<1> QED
    BY <1>1, <1>2, AlwaysShaped, PTL DEF PasswordResetSpec

\* A reset changes the one account that has the address, with the code that stands.
THEOREM AlwaysResetByStandingCode == PasswordResetSpec => ResetOnlyByStandingCode
<1>1. ASSUME Shaped, [PasswordResetNext]_resetVars, NEW u \in User, resets'[u] # resets[u]
      PROVE  /\ IsActive(u)
             /\ \A v \in User \ {u} : user'[v] = user[v]
             /\ LET e == user[u].email IN
                /\ challenge[e] # Nothing /\ challenge'[e] = Nothing
                /\ challenge[e].attempts < MaxAttempts
                /\ \E r \in Request :
                      /\ At(r, "claiming") /\ request[r].email = e
                      /\ request[r].seen.code = challenge[e].code
                      /\ user'[u].password = request[r].password
    <2>1. PICK r \in Request : ConfirmClaim(r)
        <3>1. ASSUME NEW r \in Request,
                     AuthHandler(r) \/ (ResetHandler(r) /\ ~ConfirmClaim(r))
              PROVE  UNCHANGED resets
            BY <3>1
            DEF AuthHandler, ResetHandler, FederatedRead, LoginRead, FederatedCreate,
                OpenSession, RefreshRead, RefreshUser, Rotate, Present, Admit, Logout,
                RequestEnds, StartFind, StartRead, StartStore, ConfirmRead,
                ConfirmFails, accountVars
        <3>2. ASSUME NEW v \in User, UsersHandler(v)
              PROVE  UNCHANGED resets
            BY <3>2 DEF UsersHandler, CreateUser, FindUser, UpdateUser, DeleteUser
        <3>3. ASSUME NEW s \in SessionId, SessionExpires(s) PROVE UNCHANGED resets
            BY <3>3 DEF SessionExpires
        <3>4. ASSUME NEW e \in Email, Age(e) PROVE UNCHANGED resets
            BY <3>4 DEF Age, sessionVars
        <3> QED
            BY <1>1, <3>1, <3>2, <3>3, <3>4
            DEF PasswordResetNext, SessionNext, resetVars
    <2> DEFINE e == request[r].email
               w == request[r].seen.user
    <2>2. /\ Claimable(challenge[e], request[r].seen) /\ Resettable(w, e)
          /\ user' = [user EXCEPT ![w].password = request[r].password]
          /\ challenge' = [challenge EXCEPT ![e] = Nothing]
          /\ resets' = [resets EXCEPT ![w] = @ + 1]
        BY <1>1, <2>1 DEF ConfirmClaim
    <2>3. At(r, "claiming") /\ e \in Email /\ w \in User
        BY <1>1, <2>1 DEF ConfirmClaim, Shaped, Locals
    <2>4. u = w
        BY <1>1, <2>2, <2>3 DEF Shaped, Tables
    <2>5. user[u].email = e /\ IsActive(u)
        BY <2>2, <2>4 DEF Resettable, Has
    <2>6. challenge'[e] = Nothing
        BY <1>1, <2>2, <2>3 DEF Shaped, Tables
    <2>7. UserTable
        BY <1>1 DEF Shaped
    <2>8. /\ user'[u].password = request[r].password
          /\ \A v \in User \ {u} : user'[v] = user[v]
        BY <2>2, <2>4, <2>7 DEF UserTable, UserRow
    <2> HIDE DEF e, w
    <2> QED
        BY <2>2, <2>3, <2>5, <2>6, <2>8 DEF e, Claimable, Current
<1>2. Shaped /\ [PasswordResetNext]_resetVars =>
        [\A u \in User : resets'[u] # resets[u] =>
            /\ IsActive(u)
            /\ \A v \in User \ {u} : user'[v] = user[v]
            /\ LET e == user[u].email IN
               /\ challenge[e] # Nothing /\ challenge'[e] = Nothing
               /\ challenge[e].attempts < MaxAttempts
               /\ \E r \in Request :
                     /\ At(r, "claiming") /\ request[r].email = e
                     /\ request[r].seen.code = challenge[e].code
                     /\ user'[u].password = request[r].password
        ]_resetVars
    BY <1>1
<1> QED
    BY <1>2, AlwaysShaped, PTL DEF PasswordResetSpec, ResetOnlyByStandingCode

-----------------------------------------------------------------------------
\* The tokens issued for a session, and those of them that were replaced.
Own(s)  == {t \in DOMAIN issued : issued[t].session = s}
Used(s) == {issued[t].from : t \in Own(s)} \ {0}

Line(s) ==
    /\ \A t, v \in Own(s) : issued[t].from = issued[v].from => t = v
    /\ session[s] # Nothing => Own(s) \ Used(s) = {session[s].token}

\* Tokens belong to sessions that exist and replace older ones.
Linked ==
    \A t \in DOMAIN issued :
        session[issued[t].session] # Nothing /\ issued[t].from < t

LEMMA LineIsLine == RotationIsALine <=> \A s \in SessionId : Line(s)
BY DEF RotationIsALine, Line, Own, Used

\* Linked is inductive.
LEMMA LinkedStep ==
    ASSUME Shaped, Linked, SessionStep
    PROVE  Linked'
<1>1. \A t \in DOMAIN issued : session'[issued[t].session] # Nothing
    BY IssuedKnown, RowStep DEF Linked
<1>2. ASSUME NEW s \in SessionId, NEW from \in 0..MaxTokens, Issue(s, from),
             session'[s] # Nothing, from < NextToken
      PROVE  Linked'
    <2>1. /\ DOMAIN issued' = DOMAIN issued \cup {NextToken}
          /\ issued'[NextToken] = [session |-> s, from |-> from]
          /\ \A t \in DOMAIN issued : issued'[t] = issued[t]
        BY <1>2, Issued
    <2>2. /\ issued'[NextToken].session = s
          /\ issued'[NextToken].from = from
        BY <2>1
    <2> QED BY <1>1, <1>2, <2>1, <2>2 DEF Linked
<1>3. ASSUME NEW s \in SessionId, Opens(s) PROVE Linked'
    <2>1. NextToken \in Token
        BY <1>3, NextKnown DEF Opens
    <2>2. session'[s] # Nothing
        <3>1. PICK u \in User :
                  session' = [session EXCEPT ![s] =
                      [user |-> u, token |-> NextToken, revoked |-> FALSE,
                       expired |-> FALSE, era |-> resets[u]]]
            BY <1>3 DEF Opens
        <3> DEFINE row == [user |-> u, token |-> NextToken, revoked |-> FALSE,
                           expired |-> FALSE, era |-> resets[u]]
        <3>2. row \in SessionRow
            BY <2>1 DEF SessionRow, Shaped, Tables
        <3>3. session'[s] = row
            BY <3>1 DEF Shaped, Tables
        <3> HIDE DEF row
        <3> QED BY <3>2, <3>3, NothingIsNoSession
    <2>3. 0 \in 0..MaxTokens /\ 0 < NextToken
        BY <2>1, MaxTokensNat DEF Token
    <2> QED BY <1>2, <1>3, <2>2, <2>3 DEF Opens
<1>4. ASSUME NEW s \in SessionId, NEW t \in Token, Rotates(s, t) PROVE Linked'
    <2>1. session'[s] # Nothing
        BY <1>4, RowStep DEF Rotates, Rotatable, Live
    <2>2. t \in 0..MaxTokens /\ t < NextToken
        BY <1>4, MaxTokensNat DEF Rotates, Token, NextToken, Shaped, Tables
    <2> QED BY <1>2, <1>4, <2>1, <2>2 DEF Rotates
<1>5. CASE UNCHANGED issued
    BY <1>1, <1>5 DEF Linked
<1> QED BY <1>3, <1>4, <1>5 DEF SessionStep, Closes, ResetsOf

\* A step that issues nothing leaves every line as it is.
LEMMA LineStays ==
    ASSUME Shaped, NEW s \in SessionId, Line(s), UNCHANGED issued,
           session[s] # Nothing \/ session'[s] = session[s],
           session[s] # Nothing => session'[s].token = session[s].token
    PROVE  Line(s)'
BY DEF Line, Own, Used

\* A token issued for s is the next of its line.
LEMMA LineGrows ==
    ASSUME Shaped, Linked, NEW s \in SessionId, NEW from \in 0..MaxTokens,
           Issue(s, from), Line(s), session'[s].token = NextToken,
           \/ from = 0 /\ session[s] = Nothing
           \/ session[s] # Nothing /\ from = session[s].token
    PROVE  Line(s)'
<1> DEFINE n == NextToken
<1>1. /\ DOMAIN issued' = DOMAIN issued \cup {n} /\ n \notin DOMAIN issued
      /\ issued'[n] = [session |-> s, from |-> from]
      /\ \A t \in DOMAIN issued : issued'[t] = issued[t]
    BY Issued
<1>2. Own(s)' = Own(s) \cup {n} /\ n \notin Own(s)
    BY <1>1 DEF Own
<1>3. /\ \A t \in Own(s) : issued'[t].from = issued[t].from
      /\ issued'[n].from = from
    BY <1>1 DEF Own
<1>4. Used(s)' = (Used(s) \cup {from}) \ {0}
    BY <1>2, <1>3 DEF Used
<1>5. /\ DOMAIN issued = 1..Len(issued) /\ Len(issued) \in Nat /\ n = Len(issued) + 1
      /\ \A t \in DOMAIN issued : issued[t].from \in Nat
    <2>1. issued \in Seq(IssuedRow)
        BY DEF Shaped, Tables
    <2>2. DOMAIN issued = 1..Len(issued) /\ Len(issued) \in Nat
        BY <2>1
    <2>3. \A t \in DOMAIN issued : issued[t].from \in Nat
        BY IssuedKnown, MaxTokensNat DEF IssuedRow
    <2> QED BY <2>2, <2>3 DEF NextToken
<1>6. n \notin Used(s)
    BY <1>5 DEF Linked, Used, Own
<1>7. CASE session[s] = Nothing /\ from = 0
    <2>1. Own(s) = {} /\ Used(s) = {}
        BY <1>7 DEF Linked, Own, Used
    <2>2. Own(s)' = {n} /\ Used(s)' = {}
        BY <1>2, <1>4, <1>7, <2>1
    <2> QED BY <2>2 DEF Line
<1>8. CASE session[s] # Nothing /\ from = session[s].token
    <2>1. from \in Own(s) /\ from \notin Used(s) /\ Own(s) \ Used(s) = {from}
        BY <1>8 DEF Line
    <2>2. from # n /\ from # 0 /\ n # 0 /\ 0 \notin Own(s)
        BY <1>2, <1>5, <2>1 DEF Own
    <2>3. Own(s)' \ Used(s)' = {n}
        BY <1>2, <1>4, <1>6, <2>1, <2>2, <1>5
    <2>4. \A t \in Own(s) : issued[t].from # from
        BY <2>1, <2>2 DEF Used
    <2>5. \A t, v \in Own(s) : issued[t].from = issued[v].from => t = v
        BY DEF Line
    <2>6. \A t, v \in Own(s)' : issued'[t].from = issued'[v].from => t = v
        BY <1>2, <1>3, <2>4, <2>5
    <2> HIDE DEF n
    <2> QED BY <2>3, <2>6 DEF Line, n
<1> QED BY <1>7, <1>8

\* A token issued for another session is not in the line of s.
LEMMA LineOfOthers ==
    ASSUME Shaped, NEW s \in SessionId, NEW q \in SessionId, q # s,
           NEW from \in 0..MaxTokens, Issue(q, from), Line(s),
           session'[s] = session[s]
    PROVE  Line(s)'
<1>1. /\ DOMAIN issued' = DOMAIN issued \cup {NextToken}
      /\ issued'[NextToken].session = q
      /\ \A t \in DOMAIN issued : issued'[t] = issued[t]
    <2>1. /\ DOMAIN issued' = DOMAIN issued \cup {NextToken}
          /\ issued'[NextToken] = [session |-> q, from |-> from]
          /\ \A t \in DOMAIN issued : issued'[t] = issued[t]
        BY Issued
    <2> QED BY <2>1
<1>2. Own(s)' = Own(s) /\ \A t \in Own(s) : issued'[t].from = issued[t].from
    BY <1>1 DEF Own
<1>3. Used(s)' = Used(s)
    BY <1>2 DEF Used
<1> QED BY <1>2, <1>3 DEF Line

\* Every step keeps every line.
LEMMA LineStep ==
    ASSUME Shaped, Linked, SessionStep, NEW s \in SessionId, Line(s)
    PROVE  Line(s)'
<1>1. session \in [SessionId -> SessionRow \cup {Nothing}]
    BY DEF Shaped, Tables
<1>2. ASSUME NEW q \in SessionId, Opens(q) PROVE Line(s)'
    <2>1. 0 \in 0..MaxTokens
        BY MaxTokensNat
    <2>2. CASE q = s
        <3>1. session'[s].token = NextToken
            BY <1>1, <1>2, <2>2 DEF Opens
        <3> QED BY <1>2, <2>1, <2>2, <3>1, LineGrows DEF Opens
    <2>3. CASE q # s
        <3>1. session'[s] = session[s]
            BY <1>1, <1>2, <2>3 DEF Opens
        <3> QED BY <1>2, <2>1, <2>3, <3>1, LineOfOthers DEF Opens
    <2> QED BY <2>2, <2>3
<1>3. ASSUME NEW q \in SessionId, NEW t \in Token, Rotates(q, t) PROVE Line(s)'
    <2>1. t \in 0..MaxTokens
        BY MaxTokensNat DEF Token
    <2>2. session[q] # Nothing /\ session[q] \in SessionRow /\ session[q].token = t
        BY <1>1, <1>3 DEF Rotates, Rotatable, Live
    <2>3. CASE q = s
        <3>1. session'[s].token = NextToken
            BY <1>1, <1>3, <2>2, <2>3 DEF Rotates, SessionRow
        <3> QED BY <1>3, <2>1, <2>2, <2>3, <3>1, LineGrows DEF Rotates
    <2>4. CASE q # s
        <3>1. session'[s] = session[s]
            BY <1>1, <1>3, <2>4 DEF Rotates
        <3> QED BY <1>3, <2>1, <2>4, <3>1, LineOfOthers DEF Rotates
    <2> QED BY <2>3, <2>4
<1>4. ASSUME NEW q \in SessionId, Closes(q) PROVE Line(s)'
    <2>1. session[q] \in SessionRow
        BY <1>1, <1>4 DEF Closes
    <2>2. /\ session'[s] = session[s] \/ session[s] # Nothing
          /\ session[s] # Nothing => session'[s].token = session[s].token
        BY <1>1, <1>4, <2>1 DEF Closes, SessionRow
    <2> QED BY <1>4, <2>2, LineStays DEF Closes
<1>5. ASSUME NEW u \in User, ResetsOf(u) PROVE Line(s)'
    <2>1. /\ session'[s] = session[s] \/ session[s] # Nothing
          /\ session[s] # Nothing => session'[s].token = session[s].token
        BY <1>1, <1>5 DEF ResetsOf, Revoke, SessionRow
    <2> QED BY <1>5, <2>1, LineStays DEF ResetsOf
<1>6. CASE UNCHANGED <<session, issued, resets>>
    BY <1>6, LineStays
<1> QED BY <1>2, <1>3, <1>4, <1>5, <1>6 DEF SessionStep

\* Two refreshes with one token never both succeed: what rotateSession replaces
\* is always the end of the session's line.
THEOREM RotationAlwaysALine == PasswordResetSpec => []RotationIsALine
<1> DEFINE LineInv == Linked /\ RotationIsALine
<1>1. PasswordResetInit => LineInv
    <2>1. ASSUME PasswordResetInit PROVE issued = <<>> /\ \A s \in SessionId : session[s] = Nothing
        BY <2>1 DEF PasswordResetInit, SessionInit
    <2>2. ASSUME PasswordResetInit PROVE DOMAIN issued = {}
        BY <2>1, <2>2
    <2> QED BY <2>1, <2>2, LineIsLine DEF Linked, Line, Own
<1>2. (Shaped /\ LineInv) /\ [PasswordResetNext]_resetVars => LineInv'
    <2> SUFFICES ASSUME Shaped, LineInv, [PasswordResetNext]_resetVars PROVE LineInv'
        OBVIOUS
    <2>1. SessionStep
        BY StepKinds
    <2>2. Linked'
        BY <2>1, LinkedStep
    <2>3. ASSUME NEW s \in SessionId PROVE Line(s)'
        BY <2>1, LineStep, LineIsLine
    <2> QED BY <2>2, <2>3 DEF RotationIsALine, Line, Own, Used
<1>3. LineInv => RotationIsALine
    OBVIOUS
<1> HIDE DEF LineInv
<1> QED
    BY <1>1, <1>2, <1>3, AlwaysShaped, PTL DEF PasswordResetSpec
=============================================================================
