----------------------------- MODULE Challenge -----------------------------
(***************************************************************************)
(* A row of registration_challenges or password_reset_challenges: the code *)
(* last stored for an address, with its clock and its two counters.        *)
(* RegistrationService and PasswordResetService treat their rows alike.    *)
(*                                                                         *)
(* An HMAC of (address, code) stands for the code.  consumedAt is set and  *)
(* the row deleted in one transaction, so no request ever reads it set.    *)
(* The times in a row are the phase they put it in:                        *)
(*   "resting" until resendAfter, "open" until expiresAt,                  *)
(*   "expired", and "stale" a day later, when cleanupExpired may delete it *)
(***************************************************************************)
EXTENDS Naturals

CONSTANTS
    Code,           \* the codes newCode may draw
    MaxSends,       \* MAX_SENDS
    MaxAttempts,    \* MAX_ATTEMPTS
    Nothing         \* no row

ASSUME ChallengeConstants ==
    /\ MaxSends \in Nat \ {0}
    /\ MaxAttempts \in Nat \ {0}

Phase == {"resting", "open", "expired", "stale"}

Later(phase) == CASE phase = "resting" -> "open"
                  [] phase = "open"    -> "expired"
                  [] OTHER             -> "stale"

\* expiresAt > now, of a row that exists.
Active(row) == row # Nothing /\ row.phase \in {"resting", "open"}

\* Mutant of MayResend: only the delay counts.
MayResendAlways(row) == row.phase = "open"

\* May another code be sent to the address of this active row?
MayResend(row) == row.phase = "open" /\ row.sends < MaxSends

\* sendCount of the row that a start writes, given the row it read.
SendCount(row) == IF Active(row) THEN row.sends + 1 ELSE 1

\* May a code be tried against the row?
MayTry(row) == Active(row) /\ row.attempts < MaxAttempts

\* The conditional updates of verify and confirm: `seen' is the row that the
\* request read, `row' what the table holds when the update runs.
Current(row, seen)   == row # Nothing /\ row.code = seen.code

\* Mutant of Claimable: any code that was ever right will do.
ClaimableByOldCode(row, seen) == row # Nothing /\ row.attempts < MaxAttempts

Claimable(row, seen) == Current(row, seen) /\ row.attempts < MaxAttempts

\* Mutants of Failed: the limit is only checked by the read; the counter is
\* written from the value read.
FailedUnchecked(row, seen) ==
    IF Current(row, seen) THEN [row EXCEPT !.attempts = @ + 1] ELSE row
FailedFromRead(row, seen) ==
    IF Claimable(row, seen) THEN [row EXCEPT !.attempts = seen.attempts + 1] ELSE row

Failed(row, seen)    == IF Claimable(row, seen)
                        THEN [row EXCEPT !.attempts = @ + 1]
                        ELSE row
=============================================================================
