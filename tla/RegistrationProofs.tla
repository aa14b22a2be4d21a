------------------------ MODULE RegistrationProofs ------------------------
(***************************************************************************)
(* What Registration promises, for any number of requests, codes, profiles *)
(* and limits.                                                             *)
(***************************************************************************)
EXTENDS Registration, TLAPS

\* What a request that read the code now stored still knows about its row.
SeenStands ==
    \A r \in Request :
        At(r, {"failing", "claiming"}) /\ request[r].of = stored /\ challenge # Nothing =>
            /\ request[r].seen.code = challenge.code
            /\ request[r].seen.profile = challenge.profile

Inv == RegistrationTypeOK /\ SeenStands /\ FailuresCounted

\* Locals change only for the request that takes the step.
LEMMA Others ==
    ASSUME NEW r \in Request, NEW local, DOMAIN request = Request, Goes(r, local)
    PROVE  /\ DOMAIN request' = Request
           /\ request'[r] = local
           /\ \A s \in Request : s # r => request'[s] = request[s]
BY DEF Goes

\* What a resend writes is a row again.
LEMMA ResentRow ==
    ASSUME NEW r \in Request, RegistrationTypeOK, challenge # Nothing,
           At(r, {"resending"})
    PROVE  [challenge EXCEPT !.code = request[r].code, !.phase = "resting",
                             !.attempts = 0, !.sends = request[r].sends]
           \in Row \ {Nothing}
<1>1. challenge \in Row /\ request[r].code \in Code /\ request[r].sends \in 1..MaxSends
    BY DEF RegistrationTypeOK, RequestTypeOK, At
<1>2. 0 \in 0..MaxAttempts /\ "resting" \in Phase
    BY ChallengeConstants DEF Phase
<1> QED BY <1>1, <1>2, NothingIsNoRow DEF Row

\* In the initial state nothing is stored and no request is in flight.
LEMMA InitInv == RegistrationInit => Inv
BY ChallengeConstants, RegistrationConstants
DEF RegistrationInit, Inv, RegistrationTypeOK, RequestTypeOK, SeenStands,
    FailuresCounted, At

\* Every step leaves every request with the locals its place calls for.
LEMMA RegistrationTypeStep ==
    Inv /\ [RegistrationNext]_registrationVars => RegistrationTypeOK'
<1> SUFFICES ASSUME Inv, [RegistrationNext]_registrationVars
             PROVE  RegistrationTypeOK'
    OBVIOUS
<1> USE ChallengeConstants, RegistrationConstants, NothingIsNoRow
    DEF Inv, RegistrationTypeOK, RequestTypeOK, At
<1>1. CASE UNCHANGED registrationVars
    BY <1>1 DEF registrationVars
<1>2. ASSUME NEW r \in Request, NEW p \in Profile, StartCheck(r, p)
      PROVE  RegistrationTypeOK'
    BY <1>2, Others DEF StartCheck, Place
<1>3. ASSUME NEW r \in Request, NEW code \in Code, StartRead(r, code)
      PROVE  RegistrationTypeOK'
    <2>1. CASE Active(challenge) => MayResend(challenge)
        <3>1. SendCount(challenge) \in 1..MaxSends
            BY <2>1 DEF SendCount, Active, MayResend, Row
        <3> QED BY <1>3, <2>1, <3>1, Others DEF StartRead, Place
    <2>2. CASE ~(Active(challenge) => MayResend(challenge))
        BY <1>3, <2>2, Others DEF StartRead, Ends, Place
    <2> QED BY <2>1, <2>2
<1>4. ASSUME NEW r \in Request, StartStore(r)
      PROVE  RegistrationTypeOK'
    BY <1>4, Others DEF StartStore, Ends, Row, Phase
<1>5. ASSUME NEW r \in Request, NEW code \in Code, ResendRead(r, code)
      PROVE  RegistrationTypeOK'
    BY <1>5, Others DEF ResendRead, Place, Active, MayResend, Row
<1>6. ASSUME NEW r \in Request, ResendStore(r)
      PROVE  RegistrationTypeOK'
    <2>1. CASE Current(challenge, request[r].seen)
        <3>1. challenge' \in Row
            BY <1>6, <2>1, ResentRow DEF ResendStore, Current
        <3>2. stored' = stored + 1 /\ stored' \in 0..MaxStores /\ failures' = 0
              /\ account' = account
            BY <1>6, <2>1 DEF ResendStore
        <3>3. /\ DOMAIN request' = Request /\ request'[r] = Nothing
              /\ \A s \in Request : s # r => request'[s] = request[s]
            BY <1>6, Others DEF ResendStore, Ends
        <3> QED BY <3>1, <3>2, <3>3
    <2>2. CASE ~Current(challenge, request[r].seen)
        BY <1>6, <2>2, Others DEF ResendStore, Ends
    <2> QED BY <2>1, <2>2
<1>7. ASSUME NEW r \in Request, NEW code \in Code, VerifyRead(r, code)
      PROVE  RegistrationTypeOK'
    BY <1>7, Others DEF VerifyRead, Place, MayTry, Active
<1>8. ASSUME NEW r \in Request, VerifyFails(r)
      PROVE  RegistrationTypeOK'
    <2>1. Failed(challenge, request[r].seen) \in Row \cup {Nothing}
        BY DEF Failed, Claimable, Current, Row
    <2> QED BY <1>8, <2>1, Others DEF VerifyFails, Ends
<1>9. ASSUME NEW r \in Request, VerifyClaim(r)
      PROVE  RegistrationTypeOK'
    <2>1. request[r].seen.profile \in Profile
        BY <1>9 DEF VerifyClaim, Row
    <2> QED BY <1>9, <2>1, Others DEF VerifyClaim, Ends
<1>10. ASSUME NEW r \in Request, RequestLost(r)
       PROVE  RegistrationTypeOK'
    BY <1>10, Others DEF RequestLost, Ends
<1>11. CASE CreatedElsewhere \/ AddressFreed
    BY <1>11 DEF CreatedElsewhere, AddressFreed
<1>12. CASE Age
    BY <1>12 DEF Age, Later, Row, Phase
<1> QED
    BY <1>1, <1>2, <1>3, <1>4, <1>5, <1>6, <1>7, <1>8, <1>9, <1>10, <1>11, <1>12
    DEF RegistrationNext, Handler

\* A new code gets a new number; while the number stays, only the counter and
\* the clock of the row change.
LEMMA StoredStep ==
    Inv /\ [RegistrationNext]_registrationVars =>
        /\ stored' \in {stored, stored + 1}
        /\ stored' = stored /\ challenge' # Nothing =>
              /\ challenge # Nothing
              /\ challenge'.code = challenge.code
              /\ challenge'.profile = challenge.profile
<1> SUFFICES ASSUME Inv, [RegistrationNext]_registrationVars
             PROVE  /\ stored' \in {stored, stored + 1}
                    /\ stored' = stored /\ challenge' # Nothing =>
                          /\ challenge # Nothing
                          /\ challenge'.code = challenge.code
                          /\ challenge'.profile = challenge.profile
    OBVIOUS
<1> USE DEF Inv, RegistrationTypeOK, Row
<1>1. CASE UNCHANGED registrationVars
    BY <1>1 DEF registrationVars
<1>2. ASSUME NEW r \in Request, StartStore(r) \/ ResendStore(r)
      PROVE  /\ stored' \in {stored, stored + 1}
             /\ stored' = stored => challenge' = challenge
    BY <1>2, RegistrationConstants DEF StartStore, ResendStore
<1>3. ASSUME NEW r \in Request, VerifyFails(r)
      PROVE  /\ stored' = stored
             /\ challenge' # Nothing =>
                   /\ challenge # Nothing
                   /\ challenge'.code = challenge.code
                   /\ challenge'.profile = challenge.profile
    BY <1>3 DEF VerifyFails, Failed, Claimable, Current
<1>4. ASSUME NEW r \in Request,
             \/ \E p \in Profile : StartCheck(r, p)
             \/ \E code \in Code :
                   StartRead(r, code) \/ ResendRead(r, code) \/ VerifyRead(r, code)
             \/ VerifyClaim(r) \/ RequestLost(r)
      PROVE  stored' = stored /\ challenge' \in {challenge, Nothing}
    BY <1>4 DEF StartCheck, StartRead, ResendRead, VerifyRead, VerifyClaim, RequestLost
<1>5. CASE CreatedElsewhere \/ AddressFreed
    BY <1>5 DEF CreatedElsewhere, AddressFreed
<1>6. CASE Age
    BY <1>6 DEF Age
<1> QED
    BY <1>1, <1>2, <1>3, <1>4, <1>5, <1>6 DEF RegistrationNext, Handler

\* A request is where it was, or has just read the row now stored, or is
\* somewhere it compares no code.
LEMMA SeenStep ==
    Inv /\ [RegistrationNext]_registrationVars =>
        \A r \in Request : At(r, {"failing", "claiming"})' =>
            \/ request'[r] = request[r]
            \/ /\ request'[r].seen = challenge
               /\ challenge' = challenge /\ stored' = stored
<1> SUFFICES ASSUME Inv, [RegistrationNext]_registrationVars, NEW r \in Request,
                    At(r, {"failing", "claiming"})', request'[r] # request[r]
             PROVE  /\ request'[r].seen = challenge
                    /\ challenge' = challenge /\ stored' = stored
    OBVIOUS
<1> USE DEF Inv, RegistrationTypeOK, At
<1>1. ASSUME NEW s \in Request, NEW p \in Profile, StartCheck(s, p)
      PROVE  FALSE
    BY <1>1, Others DEF StartCheck
<1>2. ASSUME NEW s \in Request, NEW code \in Code,
             StartRead(s, code) \/ ResendRead(s, code)
      PROVE  FALSE
    BY <1>2, Others DEF StartRead, ResendRead, Ends
<1>3. ASSUME NEW s \in Request,
             StartStore(s) \/ ResendStore(s) \/ VerifyFails(s) \/ VerifyClaim(s)
                 \/ RequestLost(s)
      PROVE  FALSE
    BY <1>3, Others DEF StartStore, ResendStore, VerifyFails, VerifyClaim,
                        RequestLost, Ends
<1>4. ASSUME NEW s \in Request, NEW code \in Code, VerifyRead(s, code)
      PROVE  /\ request'[r].seen = challenge
             /\ challenge' = challenge /\ stored' = stored
    BY <1>4, Others DEF VerifyRead
<1>5. CASE CreatedElsewhere \/ AddressFreed \/ Age \/ UNCHANGED registrationVars
    BY <1>5 DEF CreatedElsewhere, AddressFreed, Age, registrationVars
<1> QED
    BY <1>1, <1>2, <1>3, <1>4, <1>5 DEF RegistrationNext, Handler

\* What a request saw stays true of the row as long as the number stays.
LEMMA SeenStandsStep ==
    Inv /\ [RegistrationNext]_registrationVars => SeenStands'
<1> SUFFICES ASSUME Inv, [RegistrationNext]_registrationVars, NEW r \in Request,
                    At(r, {"failing", "claiming"})', request'[r].of = stored',
                    challenge' # Nothing
             PROVE  /\ request'[r].seen.code = challenge'.code
                    /\ request'[r].seen.profile = challenge'.profile
    BY DEF SeenStands
<1>1. CASE request'[r] = request[r]
    <2>1. At(r, {"failing", "claiming"}) /\ request[r].of \in 0..stored /\ stored \in Nat
        BY <1>1, RegistrationConstants
        DEF Inv, RegistrationTypeOK, RequestTypeOK, At
    <2>2. stored' = stored
        BY <1>1, <2>1, StoredStep
    <2> QED
        BY <1>1, <2>1, <2>2, StoredStep DEF Inv, SeenStands
<1>2. CASE request'[r] # request[r]
    BY <1>2, SeenStep
<1> QED BY <1>1, <1>2

\* Every failed try of the stored code raises its counter below the limit.
LEMMA FailuresCountedStep ==
    Inv /\ [RegistrationNext]_registrationVars => FailuresCounted'
<1> SUFFICES ASSUME Inv, [RegistrationNext]_registrationVars
             PROVE  FailuresCounted'
    OBVIOUS
<1> USE ChallengeConstants DEF Inv, RegistrationTypeOK, Row, FailuresCounted
<1>1. CASE UNCHANGED registrationVars
    BY <1>1 DEF registrationVars
<1>2. ASSUME NEW r \in Request, StartStore(r) \/ ResendStore(r)
      PROVE  FailuresCounted'
    <2>1. CASE failures' = 0
        <3>1. challenge' # Nothing => challenge'.attempts \in Nat
            <4>1. RegistrationTypeOK'
                BY RegistrationTypeStep
            <4> QED BY <4>1
        <3> QED BY <2>1, <3>1
    <2>2. CASE UNCHANGED <<challenge, failures>>
        BY <2>2
    <2> QED BY <1>2, <2>1, <2>2 DEF StartStore, ResendStore
<1>3. ASSUME NEW r \in Request, VerifyFails(r)
      PROVE  FailuresCounted'
    <2>1. CASE request[r].of = stored /\ challenge # Nothing
        <3>1. Current(challenge, request[r].seen)
            BY <1>3, <2>1 DEF VerifyFails, SeenStands, At, Current
        <3> QED
            BY <1>3, <2>1, <3>1 DEF VerifyFails, Failed, Claimable
    <2>2. CASE request[r].of # stored \/ challenge = Nothing
        BY <1>3, <2>2 DEF VerifyFails, Failed, Claimable, Current
    <2> QED BY <2>1, <2>2
<1>4. ASSUME NEW r \in Request,
             \/ \E p \in Profile : StartCheck(r, p)
             \/ \E code \in Code :
                   StartRead(r, code) \/ ResendRead(r, code) \/ VerifyRead(r, code)
             \/ VerifyClaim(r) \/ RequestLost(r)
      PROVE  FailuresCounted'
    BY <1>4 DEF StartCheck, StartRead, ResendRead, VerifyRead, VerifyClaim, RequestLost
<1>5. CASE CreatedElsewhere \/ AddressFreed \/ Age
    BY <1>5 DEF CreatedElsewhere, AddressFreed, Age
<1> QED
    BY <1>1, <1>2, <1>3, <1>4, <1>5 DEF RegistrationNext, Handler

\* The inductive invariant, for every behaviour.
LEMMA AlwaysInv == RegistrationSpec => []Inv
<1>1. Inv /\ [RegistrationNext]_registrationVars => Inv'
    BY RegistrationTypeStep, SeenStandsStep, FailuresCountedStep DEF Inv
<1> QED BY <1>1, InitInv, PTL DEF RegistrationSpec

\* Type correctness of the challenge, the account and every request's locals:
\* the counters stay within MAX_SENDS and MAX_ATTEMPTS whatever runs at once.
THEOREM RegistrationTypes == RegistrationSpec => []RegistrationTypeOK
BY AlwaysInv, PTL DEF Inv

\* updateMany in verify loses no failed try.
THEOREM FailuresAlwaysCounted == RegistrationSpec => []FailuresCounted
BY AlwaysInv, PTL DEF Inv

\* An account comes only from the code that stands, in time and below the limit.
THEOREM AlwaysCreatedByStandingCode == RegistrationSpec => CreatedByStandingCode
<1> DEFINE Standing ==
        /\ challenge # Nothing
        /\ failures < MaxAttempts
        /\ \E r \in Request :
              /\ At(r, {"claiming"})
              /\ request[r].seen.code = challenge.code
              /\ request[r].of = stored => account' = challenge.profile
<1>1. ASSUME Inv, [RegistrationNext]_registrationVars, Creates
      PROVE  Standing
    <2>1. PICK r \in Request : VerifyClaim(r) /\ account' # account
        BY <1>1, RegistrationConstants
        DEF Creates, RegistrationNext, Handler, registrationVars, StartCheck, StartRead,
            StartStore, ResendRead, ResendStore, VerifyRead, VerifyFails, RequestLost,
            CreatedElsewhere, AddressFreed, Age
    <2>2. /\ At(r, {"claiming"}) /\ Claimable(challenge, request[r].seen)
          /\ account' = request[r].seen.profile
        BY <2>1 DEF VerifyClaim
    <2>3. failures < MaxAttempts
        BY <1>1, <2>2, ChallengeConstants
        DEF Inv, RegistrationTypeOK, FailuresCounted, Claimable, Current, Row
    <2>4. request[r].of = stored => account' = challenge.profile
        BY <1>1, <2>2 DEF Inv, SeenStands, At, Claimable, Current
    <2> QED
        BY <2>2, <2>3, <2>4 DEF Claimable, Current
<1>2. Inv /\ [RegistrationNext]_registrationVars =>
        [Creates =>
            /\ challenge # Nothing
            /\ failures < MaxAttempts
            /\ \E r \in Request :
                  /\ At(r, {"claiming"})
                  /\ request[r].seen.code = challenge.code
                  /\ request[r].of = stored => account' = challenge.profile
        ]_registrationVars
    BY <1>1
<1> HIDE DEF Standing
<1> QED
    BY <1>2, AlwaysInv, PTL DEF RegistrationSpec, CreatedByStandingCode

\* A verify commits as a whole or not at all.
THEOREM VerifyAlwaysAllOrNothing == RegistrationSpec => VerifyAllOrNothing
<1>1. ASSUME Inv, [RegistrationNext]_registrationVars
      PROVE  [/\ account # Nothing => account' \in {account, Nothing}
              /\ Creates => challenge' = Nothing
              /\ challenge # Nothing /\ challenge' = Nothing =>
                    challenge.phase = "stale" \/ Creates
             ]_registrationVars
    <2> USE <1>1, RegistrationConstants DEF Creates
    <2>1. ASSUME NEW r \in Request, VerifyClaim(r)
          PROVE  /\ account # Nothing => account' \in {account, Nothing}
                 /\ Creates => challenge' = Nothing
                 /\ challenge # Nothing /\ challenge' = Nothing => Creates
        <3>1. request[r].seen.profile \in Profile
            BY <2>1 DEF VerifyClaim, Inv, RegistrationTypeOK, RequestTypeOK, At, Row
        <3> QED BY <2>1, <3>1 DEF VerifyClaim
    <2>2. ASSUME NEW r \in Request, \E p \in Profile : StartCheck(r, p)
          PROVE  /\ account' = account
                 /\ challenge # Nothing /\ challenge' = Nothing => challenge.phase = "stale"
        BY <2>2 DEF StartCheck
    <2>3. ASSUME NEW r \in Request,
                 \/ \E code \in Code :
                       StartRead(r, code) \/ ResendRead(r, code) \/ VerifyRead(r, code)
                 \/ RequestLost(r)
          PROVE  account' = account /\ challenge' = challenge
        BY <2>3 DEF StartRead, ResendRead, VerifyRead, RequestLost
    <2>4. ASSUME NEW r \in Request, StartStore(r) \/ ResendStore(r) \/ VerifyFails(r)
          PROVE  /\ account' = account
                 /\ challenge # Nothing => challenge' # Nothing
        <3>1. account' = account
            BY <2>4 DEF StartStore, ResendStore, VerifyFails
        <3>2. ASSUME challenge # Nothing PROVE challenge' # Nothing
            <4>1. RegistrationTypeOK'
                BY RegistrationTypeStep
            <4>2. CASE StartStore(r)
                <5>1. [profile |-> request[r].profile, code |-> request[r].code,
                       phase |-> "resting", attempts |-> 0,
                       sends |-> request[r].sends] \in Row
                    BY <4>2, ChallengeConstants
                    DEF StartStore, Inv, RegistrationTypeOK, RequestTypeOK, At, Row, Phase
                <5> QED BY <4>2, <5>1, NothingIsNoRow DEF StartStore
            <4>3. CASE ResendStore(r) \/ VerifyFails(r)
                <5>1. challenge \in Row
                    BY <3>2 DEF Inv, RegistrationTypeOK
                <5>2. CASE VerifyFails(r)
                    <6>1. Failed(challenge, request[r].seen) \in Row
                        BY <5>1, ChallengeConstants DEF Failed, Claimable, Row
                    <6> QED BY <5>2, <6>1, NothingIsNoRow DEF VerifyFails
                <5>3. CASE ResendStore(r) /\ Current(challenge, request[r].seen)
                    BY <5>3, ResentRow DEF ResendStore, Inv, Current
                <5>4. CASE ResendStore(r) /\ ~Current(challenge, request[r].seen)
                    BY <3>2, <5>4 DEF ResendStore
                <5> QED BY <4>3, <5>2, <5>3, <5>4
            <4> QED BY <2>4, <4>2, <4>3
        <3> QED BY <3>1, <3>2
    <2>5. CASE CreatedElsewhere \/ AddressFreed
        BY <2>5 DEF CreatedElsewhere, AddressFreed
    <2>6. ASSUME Age
          PROVE  account' = account /\ challenge' # Nothing
        <3>1. [challenge EXCEPT !.phase = Later(@)] \in Row
            BY <2>6 DEF Age, Later, Inv, RegistrationTypeOK, Row, Phase
        <3> QED BY <2>6, <3>1, NothingIsNoRow DEF Age
    <2> QED
        BY <2>1, <2>2, <2>3, <2>4, <2>5, <2>6 DEF RegistrationNext, Handler
<1>2. Inv /\ [RegistrationNext]_registrationVars =>
        [/\ account # Nothing => account' \in {account, Nothing}
         /\ Creates => challenge' = Nothing
         /\ challenge # Nothing /\ challenge' = Nothing =>
               challenge.phase = "stale" \/ Creates
        ]_registrationVars
    BY <1>1
<1> QED
    BY <1>2, AlwaysInv, PTL DEF RegistrationSpec, VerifyAllOrNothing
=============================================================================
