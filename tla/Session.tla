------------------------------ MODULE Session ------------------------------
(***************************************************************************)
(* Accounts and their sessions: login, Google and Clerk login, refresh,    *)
(* access and logout (AuthService over PrismaAuthRepository), and what     *)
(* admins do to accounts (UsersService).  Requests run concurrently; a     *)
(* step of one ends at an await whose answer another may invalidate.  A    *)
(* request rejected at its first read changes nothing and is a disabled    *)
(* action.                                                                 *)
(*                                                                         *)
(* A refresh token is its number in the order of issue; a session stores   *)
(* the hash of one, which argon2 makes as good as the token itself.  An    *)
(* access token names its user and session for good, so whoever holds one  *)
(* may present that session at any time.                                   *)
(***************************************************************************)
EXTENDS Naturals, Sequences

CONSTANTS
    User,           \* ids of users
    Email,          \* addresses
    Password,       \* passwords people know
    SessionId,      \* ids of sessions
    Request,        \* requests in flight
    Unknown,        \* the random password of an account made by createOAuthUser
    Nothing,        \* no row, no request
    MaxTokens       \* bound: refresh tokens issued

VARIABLES
    user,           \* user[u]: the users row, status "none" before it exists
    session,        \* session[s]: the auth_sessions row, or Nothing
    request,        \* what each request in flight holds in its locals
    editing,        \* users found by an update or a delete in flight
    issued,         \* history: the refresh tokens, in order of issue
    resets          \* history: resets[u] password resets of u have committed

sessionVars == <<user, session, request, editing, issued, resets>>

UserStatus == {"ACTIVE", "DISABLED", "DELETED"}
UserRow    == [status : UserStatus \cup {"none"}, email : Email \cup {Nothing},
               password : Password \cup {Unknown, Nothing}]
Token      == 1..MaxTokens
IssuedRow  == [session : SessionId, from : 0..MaxTokens]

\* era: a history field, the resets of its user when the session was opened.
SessionRow == [user : User, token : Token, revoked : BOOLEAN, expired : BOOLEAN,
               era : Nat]

ASSUME NothingIsNoSession == Nothing \notin SessionRow
ASSUME MaxTokensNat == MaxTokens \in Nat

RequestRow ==
    [at : {"opening"}, user : User]
        \cup [at : {"creating"}, email : Email]
        \cup [at : {"refreshing", "rotating"}, token : Token]
        \cup [at : {"admitting"}, session : SessionId,
              seen : SUBSET {"user", "session"}]

SessionTypeOK ==
    /\ user \in [User -> UserRow]
    /\ session \in [SessionId -> SessionRow \cup {Nothing}]
    /\ editing \subseteq User
    /\ issued \in Seq(IssuedRow) /\ Len(issued) <= MaxTokens
    /\ resets \in [User -> Nat]

NoUser == [status |-> "none", email |-> Nothing, password |-> Nothing]

\* Some users exist already, by way of Registration or of an admin.
SessionInit ==
    /\ \E exist \in SUBSET User, address \in [User -> Email], p \in Password :
          /\ \A u, v \in exist : address[u] = address[v] => u = v
          /\ user = [u \in User |->
                        IF u \in exist
                        THEN [status |-> "ACTIVE", email |-> address[u], password |-> p]
                        ELSE NoUser]
    /\ session = [s \in SessionId |-> Nothing]
    /\ request = [r \in Request |-> Nothing]
    /\ editing = {}
    /\ issued = <<>>
    /\ resets = [u \in User |-> 0]

IsActive(u)  == user[u].status = "ACTIVE"
Has(u, e)    == user[u].status # "none" /\ user[u].email = e
Free(e)      == \A u \in User : ~Has(u, e)
Live(s)      == session[s] # Nothing /\ ~session[s].revoked /\ ~session[s].expired
At(r, place) == request[r] # Nothing /\ request[r].at = place

Goes(r, local) == request' = [request EXCEPT ![r] = local]
Ends(r)        == Goes(r, Nothing)

\* The refresh token issued next belongs to s and replaces the token `from'.
Issue(s, from) ==
    /\ Len(issued) < MaxTokens
    /\ issued' = Append(issued, [session |-> s, from |-> from])

NextToken == Len(issued) + 1

-----------------------------------------------------------------------------
\* login: the user is read, its status and password checked.
LoginRead(r, e, p) ==
    /\ request[r] = Nothing
    /\ \E u \in User : /\ Has(u, e) /\ IsActive(u) /\ user[u].password = p
                       /\ Goes(r, [at |-> "opening", user |-> u])
    /\ UNCHANGED <<user, session, editing, issued, resets>>

\* loginWithClerk, for an address that Google or Clerk vouches for.
FederatedRead(r, e) ==
    /\ request[r] = Nothing
    /\ \/ \E u \in User : /\ Has(u, e) /\ IsActive(u)
                          /\ Goes(r, [at |-> "opening", user |-> u])
       \/ /\ Free(e)
          /\ Goes(r, [at |-> "creating", email |-> e])
    /\ UNCHANGED <<user, session, editing, issued, resets>>

\* createOAuthUser, which fails if the address got an account meanwhile.
FederatedCreate(r) ==
    /\ At(r, "creating")
    /\ LET e == request[r].email IN
       \/ \E u \in User :
             /\ Free(e) /\ user[u].status = "none"
             /\ user' = [user EXCEPT ![u] = [status |-> "ACTIVE", email |-> e,
                                             password |-> Unknown]]
             /\ Goes(r, [at |-> "opening", user |-> u])
       \/ ~Free(e) /\ Ends(r) /\ user' = user
    /\ UNCHANGED <<session, editing, issued, resets>>

\* login and loginWithClerk: the tokens are made and the session stored.
OpenSession(r) ==
    /\ At(r, "opening")
    /\ \E s \in SessionId :
          /\ session[s] = Nothing
          /\ Issue(s, 0)
          /\ session' = [session EXCEPT ![s] =
                [user |-> request[r].user, token |-> NextToken, revoked |-> FALSE,
                 expired |-> FALSE, era |-> resets[request[r].user]]]
    /\ Ends(r)
    /\ UNCHANGED <<user, editing, resets>>

-----------------------------------------------------------------------------
\* refresh: the session is read and the token compared with its hash.
RefreshRead(r, t) ==
    /\ request[r] = Nothing
    /\ t \in DOMAIN issued
    /\ Live(issued[t].session) /\ session[issued[t].session].token = t
    /\ Goes(r, [at |-> "refreshing", token |-> t])
    /\ UNCHANGED <<user, session, editing, issued, resets>>

\* refresh: the user is read, and the new tokens made.
RefreshUser(r) ==
    /\ At(r, "refreshing")
    /\ IF IsActive(session[issued[request[r].token].session].user)
       THEN Goes(r, [at |-> "rotating", token |-> request[r].token])
       ELSE Ends(r)
    /\ UNCHANGED <<user, session, editing, issued, resets>>

\* Mutants of Rotatable: without the hash, and without revokedAt and expiresAt.
RotatableByAny(s, t) == Live(s)
RotatableEnded(s, t) == session[s] # Nothing /\ session[s].token = t

\* The condition of rotateSession.
Rotatable(s, t) == Live(s) /\ session[s].token = t

\* refresh: rotateSession, or `Refresh token has already been used'.
Rotate(r) ==
    /\ At(r, "rotating")
    /\ LET t == request[r].token
           s == issued[t].session
       IN  \/ /\ Rotatable(s, t)
              /\ Issue(s, t)
              /\ session' = [session EXCEPT ![s].token = NextToken]
           \/ /\ ~Rotatable(s, t)
              /\ UNCHANGED <<session, issued>>
    /\ Ends(r)
    /\ UNCHANGED <<user, editing, resets>>

-----------------------------------------------------------------------------
\* An access token is presented: validateAccessClaims starts both its reads.
Present(r, s) ==
    /\ request[r] = Nothing
    /\ session[s] # Nothing
    /\ Goes(r, [at |-> "admitting", session |-> s, seen |-> {}])
    /\ UNCHANGED <<user, session, editing, issued, resets>>

\* validateAccessClaims: one of the two reads, in either order.
Admit(r, what) ==
    /\ At(r, "admitting") /\ what \notin request[r].seen
    /\ IF CASE what = "user"    -> IsActive(session[request[r].session].user)
            [] what = "session" -> Live(request[r].session)
       THEN Goes(r, [request[r] EXCEPT !.seen = @ \cup {what}])
       ELSE Ends(r)
    /\ UNCHANGED <<user, session, editing, issued, resets>>

\* logout, of a request both reads have admitted.
Logout(r) ==
    /\ At(r, "admitting") /\ request[r].seen = {"user", "session"}
    /\ session' = [session EXCEPT ![request[r].session].revoked = TRUE]
    /\ Ends(r)
    /\ UNCHANGED <<user, editing, issued, resets>>

-----------------------------------------------------------------------------
\* UsersService.create: any status; an address taken since it was looked up fails.
CreateUser(u) ==
    /\ user[u].status = "none"
    /\ \E status \in UserStatus, e \in {a \in Email : Free(a)}, p \in Password :
          user' = [user EXCEPT ![u] = [status |-> status, email |-> e, password |-> p]]
    /\ UNCHANGED <<session, request, editing, issued, resets>>

\* UsersService.update and delete: getUser, which finds no deleted user.
FindUser(u) ==
    /\ user[u].status \notin {"none", "DELETED"}
    /\ editing' = editing \cup {u}
    /\ UNCHANGED <<user, session, request, issued, resets>>

\* UsersService.update: any of the fields; an address taken meanwhile fails.
UpdateUser(u) ==
    /\ u \in editing
    /\ \E status \in UserStatus, e \in Email, p \in Password \cup {user[u].password} :
          /\ e = user[u].email \/ Free(e)
          /\ user' = [user EXCEPT ![u] = [status |-> status, email |-> e, password |-> p]]
    /\ editing' \in {editing, editing \ {u}}
    /\ UNCHANGED <<session, request, issued, resets>>

\* UsersService.delete: the row stays, and keeps its address.
DeleteUser(u) ==
    /\ u \in editing
    /\ user' = [user EXCEPT ![u].status = "DELETED"]
    /\ editing' \in {editing, editing \ {u}}
    /\ UNCHANGED <<session, request, issued, resets>>

\* expiresAt passes.
SessionExpires(s) ==
    /\ Live(s)
    /\ session' = [session EXCEPT ![s].expired = TRUE]
    /\ UNCHANGED <<user, request, editing, issued, resets>>

\* The client goes away, mail or anything else fails, the instance stops,
\* or the request goes on to another handler.
RequestEnds(r) ==
    /\ request[r] # Nothing
    /\ Ends(r)
    /\ UNCHANGED <<user, session, editing, issued, resets>>

AuthHandler(r) ==
    \/ \E e \in Email : FederatedRead(r, e) \/ \E p \in Password : LoginRead(r, e, p)
    \/ FederatedCreate(r) \/ OpenSession(r)
    \/ \E t \in Token : RefreshRead(r, t)
    \/ RefreshUser(r) \/ Rotate(r)
    \/ \E s \in SessionId : Present(r, s)
    \/ \E what \in {"user", "session"} : Admit(r, what)
    \/ Logout(r) \/ RequestEnds(r)

UsersHandler(u) == CreateUser(u) \/ FindUser(u) \/ UpdateUser(u) \/ DeleteUser(u)

SessionNext ==
    \/ \E r \in Request : AuthHandler(r)
    \/ \E u \in User : UsersHandler(u)
    \/ \E s \in SessionId : SessionExpires(s)

-----------------------------------------------------------------------------
\* Refresh tokens of a session form one line that ends in the token its row
\* accepts: two refreshes with one token never both succeed (README: rotated on
\* every refresh; rotateSession compares the hash it read).
RotationIsALine ==
    \A s \in SessionId :
        LET own  == {t \in DOMAIN issued : issued[t].session = s}
            used == {issued[t].from : t \in own} \ {0}
        IN  /\ \A t, v \in own : issued[t].from = issued[v].from => t = v
            /\ session[s] # Nothing => own \ used = {session[s].token}

\* A session that was revoked or has expired stays so and accepts no other
\* token, whatever refreshes had read it before (the conditions of
\* rotateSession).
EndedForGood ==
    [][\A s \in SessionId :
          session[s] # Nothing /\ ~Live(s) =>
              /\ ~Live(s)'
              /\ session'[s].token = session[s].token
      ]_sessionVars
=============================================================================
