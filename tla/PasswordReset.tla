--------------------------- MODULE PasswordReset ---------------------------
(***************************************************************************)
(* Password resets (PasswordResetService) among the logins, refreshes and  *)
(* account changes of Session; the requests in flight are of both kinds.   *)
(* start and confirm are cut at their awaits; the transaction of confirm   *)
(* is one step.                                                            *)
(***************************************************************************)
EXTENDS Session

CONSTANTS
    Code,           \* the codes that may be drawn
    MaxSends,       \* MAX_SENDS
    MaxAttempts,    \* MAX_ATTEMPTS
    MaxStores       \* bound: codes stored

INSTANCE Challenge

VARIABLES
    challenge,      \* challenge[e]: the password_reset_challenges row, or Nothing
    stored          \* history: how many codes have been stored

resetVars == <<user, session, request, editing, issued, resets,
               challenge, stored>>
challengeVars == <<challenge, stored>>

ChallengeRow == [user : User, code : Code, phase : Phase,
                 attempts : 0..MaxAttempts, sends : 1..MaxSends]

ASSUME ChallengeBounds == MaxSends \in Nat \ {0} /\ MaxAttempts \in Nat \ {0}
ASSUME MaxStoresNat == MaxStores \in Nat

\* What confirm still uses of the row it read.
Seen     == [user : User, code : Code]
Saw(row) == [user |-> row.user, code |-> row.code]

ResetRow ==
    [at : {"found"}, email : Email, user : User]
        \cup [at : {"storing"}, email : Email, user : User, code : Code,
              sends : 1..MaxSends]
        \cup [at : {"failing"}, email : Email, seen : Seen]
        \cup [at : {"claiming"}, email : Email, seen : Seen,
              password : Password]

PasswordResetTypeOK ==
    /\ SessionTypeOK
    /\ challenge \in [Email -> ChallengeRow \cup {Nothing}]
    /\ request \in [Request -> RequestRow \cup ResetRow \cup {Nothing}]
    /\ stored \in 0..MaxStores

PasswordResetInit ==
    /\ SessionInit
    /\ challenge = [e \in Email |-> Nothing]
    /\ stored = 0

accountVars == <<user, session, editing, issued, resets>>

-----------------------------------------------------------------------------
\* start: the cleanup, if an hour has passed, and the look at the users table.
StartFind(r, e) ==
    /\ request[r] = Nothing
    /\ \/ challenge' = challenge
       \/ challenge' = [a \in Email |->
              IF challenge[a] # Nothing /\ challenge[a].phase = "stale"
              THEN Nothing ELSE challenge[a]]
    /\ \/ \E u \in User : /\ Has(u, e) /\ IsActive(u)
                          /\ Goes(r, [at |-> "found", email |-> e, user |-> u])
       \/ /\ \A u \in User : Has(u, e) => ~IsActive(u)
          /\ request' = request
    /\ UNCHANGED <<accountVars, stored>>

\* start: the previous challenge is read, and the new code mailed.
StartRead(r, code) ==
    /\ At(r, "found")
    /\ LET row == challenge[request[r].email] IN
       IF Active(row) => MayResend(row)
       THEN Goes(r, [at |-> "storing", email |-> request[r].email,
                     user |-> request[r].user, code |-> code,
                     sends |-> SendCount(row)])
       ELSE Ends(r)
    /\ UNCHANGED <<accountVars, challengeVars>>

\* start: the upsert, whatever the table holds by now.
StartStore(r) ==
    /\ At(r, "storing")
    /\ stored < MaxStores
    /\ stored' = stored + 1
    /\ challenge' = [challenge EXCEPT ![request[r].email] =
          [user |-> request[r].user, code |-> request[r].code, phase |-> "resting",
           attempts |-> 0, sends |-> request[r].sends]]
    /\ Ends(r)
    /\ UNCHANGED accountVars

\* confirm: the challenge is read and the code compared with it.
ConfirmRead(r, e, code, p) ==
    /\ request[r] = Nothing
    /\ MayTry(challenge[e])
    /\ IF code = challenge[e].code
       THEN Goes(r, [at |-> "claiming", email |-> e, seen |-> Saw(challenge[e]),
                     password |-> p])
       ELSE Goes(r, [at |-> "failing", email |-> e, seen |-> Saw(challenge[e])])
    /\ UNCHANGED <<accountVars, challengeVars>>

\* confirm: the failed try is recorded.
ConfirmFails(r) ==
    /\ At(r, "failing")
    /\ challenge' = [challenge EXCEPT ![request[r].email] = Failed(@, request[r].seen)]
    /\ Ends(r)
    /\ UNCHANGED <<accountVars, stored>>

\* Mutant of Revoke: only sessions that are over are revoked.
RevokeExpired(u) ==
    session' = [s \in SessionId |->
        IF session[s] # Nothing /\ session[s].user = u /\ session[s].expired
        THEN [session[s] EXCEPT !.revoked = TRUE] ELSE session[s]]

Revoke(u) ==
    session' = [s \in SessionId |->
        IF session[s] # Nothing /\ session[s].user = u
        THEN [session[s] EXCEPT !.revoked = TRUE] ELSE session[s]]

\* Mutant of Resettable: whatever address the account has now.
ResettableAnywhere(u, e) == IsActive(u)

\* Is the account the challenge was made for still the one with the address?
Resettable(u, e) == Has(u, e) /\ IsActive(u)

\* confirm: claim, new password, sessions revoked, challenge deleted; or nothing.
ConfirmClaim(r) ==
    /\ At(r, "claiming")
    /\ LET e    == request[r].email
           u    == request[r].seen.user
           good == Claimable(challenge[e], request[r].seen) /\ Resettable(u, e)
       IN  \/ /\ good
              /\ user' = [user EXCEPT ![u].password = request[r].password]
              /\ Revoke(u)
              /\ challenge' = [challenge EXCEPT ![e] = Nothing]
              /\ resets' = [resets EXCEPT ![u] = @ + 1]
           \/ ~good /\ UNCHANGED <<user, session, challenge, resets>>
    /\ Ends(r)
    /\ UNCHANGED <<editing, issued, stored>>

\* Time passes for the code stored for e.
Age(e) ==
    /\ challenge[e] # Nothing
    /\ challenge[e].phase # "stale"
    /\ challenge' = [challenge EXCEPT ![e].phase = Later(@)]
    /\ UNCHANGED <<sessionVars, stored>>

ResetHandler(r) ==
    \/ \E e \in Email :
          \/ StartFind(r, e)
          \/ \E code \in Code, p \in Password : ConfirmRead(r, e, code, p)
    \/ \E code \in Code : StartRead(r, code)
    \/ StartStore(r) \/ ConfirmFails(r) \/ ConfirmClaim(r)

PasswordResetNext ==
    \/ SessionNext /\ UNCHANGED challengeVars
    \/ \E r \in Request : ResetHandler(r)
    \/ \E e \in Email : Age(e)

PasswordResetSpec == PasswordResetInit /\ [][PasswordResetNext]_resetVars

-----------------------------------------------------------------------------
\* No session opened before the last reset of its user's password is live, not
\* even one that a refresh was rotating at the time (confirm: "Set a new password
\* using the email code and revoke sessions").
ResetEndsSessions ==
    \A s \in SessionId : Live(s) => session[s].era = resets[session[s].user]

\* A reset changes one account: the active one that has the address now, with the
\* code that stands for the address now, before the limit of failed tries.  A
\* change of address, a newer code or a disabled account between the read and the
\* transaction leaves everything as it was.
ResetOnlyByStandingCode ==
    [][\A u \in User : resets'[u] # resets[u] =>
          /\ IsActive(u)
          /\ \A v \in User \ {u} : user'[v] = user[v]
          /\ LET e == user[u].email IN
             /\ challenge[e] # Nothing /\ challenge'[e] = Nothing
             /\ challenge[e].attempts < MaxAttempts
             /\ \E r \in Request :
                   /\ At(r, "claiming") /\ request[r].email = e
                   /\ request[r].seen.code = challenge[e].code
                   /\ user'[u].password = request[r].password
      ]_resetVars
=============================================================================
