--------------------------- MODULE MCRegistration ---------------------------
(***************************************************************************)
(* Three requests for one address: two that invalidate what the third has  *)
(* read.  Two codes, so that a new code may be the old one again.          *)
(***************************************************************************)
EXTENDS Registration, TLC

CONSTANTS r1, r2, r3, c1, c2, p1, p2

MCSymmetry == Permutations({r1, r2, r3}) \cup Permutations({c1, c2})
                  \cup Permutations({p1, p2})
=============================================================================
