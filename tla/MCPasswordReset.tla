-------------------------- MODULE MCPasswordReset --------------------------
(***************************************************************************)
(* Two instances.  Sessions: one account, whose sessions are opened,       *)
(* rotated, logged out and reset by concurrent requests.  PasswordReset:   *)
(* two accounts that may trade addresses while codes are on their way; no  *)
(* session is opened there, and passwords are all alike.                   *)
(***************************************************************************)
EXTENDS PasswordReset, TLC

CONSTANTS u1, u2, e1, e2, s1, s2, r1, r2, c1, c2, p1

MCSessionsSymmetry == Permutations({s1, s2}) \cup Permutations({r1, r2})
MCResetSymmetry    == Permutations({u1, u2}) \cup Permutations({e1, e2})
                          \cup Permutations({r1, r2}) \cup Permutations({c1, c2})
=============================================================================
