---------------------------- MODULE MCEligibility ----------------------------
(***************************************************************************)
(* The instance of one order that two provider accounts may report.        *)
(***************************************************************************)
EXTENDS MCSettlement, Eligibility
=============================================================================
