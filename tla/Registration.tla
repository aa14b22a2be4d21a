---------------------------- MODULE Registration ----------------------------
(***************************************************************************)
(* Registration by e-mail, for one address: start, resend and verify of    *)
(* RegistrationService, with the other ways an account comes to have the   *)
(* address.  Requests run concurrently; a step of a request ends at an     *)
(* await whose answer another request may invalidate.  The transaction of  *)
(* verify is one step.  A request that throws at its first read changes    *)
(* nothing and is a disabled action.                                       *)
(*                                                                         *)
(* A profile is what start is given: the name and the password.  That the  *)
(* mail is sent, or fails, changes no table: it only delays the store, or  *)
(* keeps it from happening.                                                *)
(***************************************************************************)
EXTENDS Challenge

CONSTANTS
    Request,        \* requests in flight
    Profile,        \* names and passwords people register with
    Elsewhere,      \* an account not made by verify
    MaxStores       \* bound: codes stored

ASSUME RegistrationConstants ==
    /\ Elsewhere \notin Profile
    /\ Nothing \notin Profile \cup {Elsewhere}
    /\ MaxStores \in Nat

VARIABLES
    challenge,      \* the challenge row of the address, or Nothing
    account,        \* the users row of the address, or Nothing
    request,        \* what each request in flight holds in its locals
    stored,         \* history: how many codes have been stored
    failures        \* history: failed tries answered, of the code now stored

registrationVars == <<challenge, account, request, stored, failures>>

Row == [profile : Profile, code : Code, phase : Phase,
        attempts : 0..MaxAttempts, sends : 1..MaxSends]

ASSUME NothingIsNoRow == Nothing \notin Row

\* Between which two awaits a request is.
Place == {"starting", "storing", "resending", "failing", "claiming"}

At(r, places) == request[r] # Nothing /\ request[r].at \in places

\* What a request holds there.  seen: the row it read; of: the number of the
\* code in that row.
RequestTypeOK(r) ==
    /\ request[r] # Nothing => request[r].at \in Place
    /\ At(r, {"starting", "storing"}) => request[r].profile \in Profile
    /\ At(r, {"storing", "resending"}) =>
           request[r].code \in Code /\ request[r].sends \in 1..MaxSends
    /\ At(r, {"resending", "failing", "claiming"}) =>
           request[r].seen \in Row /\ request[r].of \in 0..stored

RegistrationTypeOK ==
    /\ challenge \in Row \cup {Nothing}
    /\ account \in Profile \cup {Elsewhere, Nothing}
    /\ stored \in 0..MaxStores
    /\ failures \in Nat
    /\ DOMAIN request = Request
    /\ \A r \in Request : RequestTypeOK(r)

RegistrationInit ==
    /\ challenge = Nothing
    /\ account \in {Nothing, Elsewhere}
    /\ request = [r \in Request |-> Nothing]
    /\ stored = 0
    /\ failures = 0

Goes(r, local) == request' = [request EXCEPT ![r] = local]
Ends(r)        == Goes(r, Nothing)

-----------------------------------------------------------------------------
\* start: the cleanup, if an hour has passed, and the look at the users table.
StartCheck(r, p) ==
    /\ request[r] = Nothing
    /\ \/ challenge' = challenge
       \/ challenge # Nothing /\ challenge.phase = "stale" /\ challenge' = Nothing
    /\ \/ account = Nothing /\ Goes(r, [at |-> "starting", profile |-> p])
       \/ account # Nothing /\ request' = request
    /\ UNCHANGED <<account, stored, failures>>

\* start: the previous challenge is read, and the new code mailed.
StartRead(r, code) ==
    /\ At(r, {"starting"})
    /\ IF Active(challenge) => MayResend(challenge)
       THEN Goes(r, [at |-> "storing", profile |-> request[r].profile,
                     code |-> code, sends |-> SendCount(challenge)])
       ELSE Ends(r)
    /\ UNCHANGED <<challenge, account, stored, failures>>

\* start: the upsert, whatever the table holds by now.
StartStore(r) ==
    /\ At(r, {"storing"})
    /\ stored < MaxStores
    /\ challenge' = [profile |-> request[r].profile, code |-> request[r].code,
                     phase |-> "resting", attempts |-> 0, sends |-> request[r].sends]
    /\ stored' = stored + 1
    /\ failures' = 0
    /\ Ends(r)
    /\ UNCHANGED account

\* resend: the challenge is read, and a new code mailed.
ResendRead(r, code) ==
    /\ request[r] = Nothing
    /\ Active(challenge) /\ MayResend(challenge)
    /\ Goes(r, [at |-> "resending", code |-> code, sends |-> challenge.sends + 1,
                seen |-> challenge, of |-> stored])
    /\ UNCHANGED <<challenge, account, stored, failures>>

\* resend: the new code replaces the one read, or OTP_EXPIRED.
ResendStore(r) ==
    /\ At(r, {"resending"})
    /\ Ends(r)
    /\ \/ /\ Current(challenge, request[r].seen)
          /\ stored < MaxStores
          /\ challenge' = [challenge EXCEPT !.code = request[r].code,
                                            !.phase = "resting",
                                            !.attempts = 0,
                                            !.sends = request[r].sends]
          /\ stored' = stored + 1
          /\ failures' = 0
       \/ /\ ~Current(challenge, request[r].seen)
          /\ UNCHANGED <<challenge, stored, failures>>
    /\ UNCHANGED account

-----------------------------------------------------------------------------
\* verify: the challenge is read and the code compared with it.
VerifyRead(r, code) ==
    /\ request[r] = Nothing
    /\ MayTry(challenge)
    /\ Goes(r, [at |-> IF code = challenge.code THEN "claiming" ELSE "failing",
                seen |-> challenge, of |-> stored])
    /\ UNCHANGED <<challenge, account, stored, failures>>

\* verify: OTP_INVALID.
VerifyFails(r) ==
    /\ At(r, {"failing"})
    /\ challenge' = Failed(challenge, request[r].seen)
    /\ failures' = failures + IF request[r].of = stored THEN 1 ELSE 0
    /\ Ends(r)
    /\ UNCHANGED <<account, stored>>

\* Mutant of VerifyClaim: the claim outlives a create that violates the key.
VerifyClaimKept(r) ==
    /\ At(r, {"claiming"})
    /\ Claimable(challenge, request[r].seen)
    /\ account' = IF account = Nothing THEN request[r].seen.profile ELSE account
    /\ challenge' = Nothing
    /\ Ends(r)
    /\ UNCHANGED <<stored, failures>>

\* verify: claim, user.create and delete, or nothing: OTP_EXPIRED when the
\* claim matches no row, EMAIL_ALREADY_EXISTS when create violates the key.
VerifyClaim(r) ==
    /\ At(r, {"claiming"})
    /\ \/ /\ Claimable(challenge, request[r].seen)
          /\ account = Nothing
          /\ account' = request[r].seen.profile
          /\ challenge' = Nothing
       \/ /\ ~(Claimable(challenge, request[r].seen) /\ account = Nothing)
          /\ UNCHANGED <<account, challenge>>
    /\ Ends(r)
    /\ UNCHANGED <<stored, failures>>

-----------------------------------------------------------------------------
\* The mail provider refuses, or the instance stops: the request is gone.
RequestLost(r) ==
    /\ request[r] # Nothing
    /\ Ends(r)
    /\ UNCHANGED <<challenge, account, stored, failures>>

\* createOAuthUser or UsersService.create, given this address.
CreatedElsewhere ==
    /\ account = Nothing
    /\ account' = Elsewhere
    /\ UNCHANGED <<challenge, request, stored, failures>>

\* UsersService.update gives the account another address.
AddressFreed ==
    /\ account # Nothing
    /\ account' = Nothing
    /\ UNCHANGED <<challenge, request, stored, failures>>

\* Time passes for the stored code.
Age ==
    /\ challenge # Nothing
    /\ challenge.phase # "stale"
    /\ challenge' = [challenge EXCEPT !.phase = Later(@)]
    /\ UNCHANGED <<account, request, stored, failures>>

Handler(r) ==
    \/ \E p \in Profile : StartCheck(r, p)
    \/ \E code \in Code : StartRead(r, code) \/ ResendRead(r, code) \/ VerifyRead(r, code)
    \/ StartStore(r) \/ ResendStore(r)
    \/ VerifyFails(r) \/ VerifyClaim(r)
    \/ RequestLost(r)

RegistrationNext ==
    \/ \E r \in Request : Handler(r)
    \/ CreatedElsewhere \/ AddressFreed \/ Age

RegistrationSpec == RegistrationInit /\ [][RegistrationNext]_registrationVars

-----------------------------------------------------------------------------
\* No failed try is lost, however many run at once: as long as the code stands,
\* its counter shows every try answered OTP_INVALID, up to the limit
\* (updateMany of verify, which increments where it could not read and write).
FailuresCounted ==
    challenge # Nothing =>
        challenge.attempts >= failures \/ challenge.attempts = MaxAttempts

Creates == account = Nothing /\ account' \in Profile

\* verify creates the account only with the code that stands when it commits,
\* before the limit of failed tries, and with the profile stored beside that
\* code: a start or a resend that commits between the read of a verify and its
\* transaction makes the old code worthless.  (A code drawn twice in a row is
\* the same code; then `of' tells the two apart and the profile may be either.)
CreatedByStandingCode ==
    [][Creates =>
        /\ challenge # Nothing
        /\ failures < MaxAttempts
        /\ \E r \in Request :
              /\ At(r, {"claiming"})
              /\ request[r].seen.code = challenge.code
              /\ request[r].of = stored => account' = challenge.profile
      ]_registrationVars

\* verify commits as a whole or not at all: the challenge goes only into the
\* account it creates (or to the cleanup), and an address that got an account
\* while the code was on its way keeps that account as it is.
VerifyAllOrNothing ==
    [][/\ account # Nothing => account' \in {account, Nothing}
       /\ Creates => challenge' = Nothing
       /\ challenge # Nothing /\ challenge' = Nothing =>
             challenge.phase = "stale" \/ Creates
      ]_registrationVars
=============================================================================
