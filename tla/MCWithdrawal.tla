---------------------------- MODULE MCWithdrawal ----------------------------
(***************************************************************************)
(* Two users; the amounts and adjustments are chosen so that a balance can *)
(* cover one request and not two, and so that an adjustment can put a user *)
(* with an open withdrawal in debt.                                        *)
(***************************************************************************)
EXTENDS Withdrawal, TLC

CONSTANTS u1, u2, k1, k2, b1, b2, b3, a1, a2

MCUser             == {u1, u2}
MCAdjustmentAmount == {-2, 3}

\* b3 is the legacy row, so it is not interchangeable with the others.
MCSymmetry == Permutations({u1, u2}) \cup Permutations({k1, k2})
                  \cup Permutations({b1, b2}) \cup Permutations({a1, a2})
=============================================================================
