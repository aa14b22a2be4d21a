----------------------------- MODULE Allocation -----------------------------
(***************************************************************************)
(* The loop of allocateNet (finance/domain/money.ts): one step per weight, *)
(* with the running remainder that the last weight takes.  Money states    *)
(* its result in closed form; the two are compared here.                   *)
(***************************************************************************)
EXTENDS Money, SequencesExt

CONSTANTS Totals, Weights, MaxLength    \* the inputs that are tried

ASSUME AllocationConstants ==
    /\ Totals \subseteq Nat
    /\ Weights \subseteq Nat
    /\ MaxLength \in Nat \ {0}

VARIABLES
    total, weights,     \* the arguments
    amounts,            \* the results so far
    remaining           \* what they leave

allocationVars == <<total, weights, amounts, remaining>>

Sum(w) == Total(w, DOMAIN w)

\* Other arguments are INVALID_ALLOCATION.
AllocationInit ==
    /\ total \in Totals
    /\ weights \in UNION {[1..n -> Weights] : n \in 1..MaxLength}
    /\ Sum(weights) > 0
    /\ amounts = <<>>
    /\ remaining = total

Done == Len(amounts) = Len(weights)

\* Mutant of NextAmount: the last weight gets no more than its part.
TruncatedAmount(i) == (total * weights[i]) \div Sum(weights)

NextAmount(i) ==
    IF i = Len(weights) THEN remaining ELSE (total * weights[i]) \div Sum(weights)

Allocate ==
    /\ ~Done
    /\ LET amount == NextAmount(Len(amounts) + 1) IN
       /\ amounts' = Append(amounts, amount)
       /\ remaining' = remaining - amount
    /\ UNCHANGED <<total, weights>>

AllocationSpec == AllocationInit /\ [][Allocate]_allocationVars

-----------------------------------------------------------------------------
\* The parts add up to the amount that was divided, and at every moment what
\* is left is what the parts so far do not cover.
NothingLost == /\ Sum(amounts) + remaining = total
               /\ Done => remaining = 0

\* Nobody is charged, and truncation is fair to a dong: every part but the last
\* is at most one dong below its exact proportion and never above it; the last
\* is never below and above by less than one dong for every other part.
FairToADong ==
    \A i \in DOMAIN amounts :
        LET excess == amounts[i] * Sum(weights) - total * weights[i] IN
        /\ amounts[i] >= 0
        /\ IF i = Len(weights)
           THEN 0 <= excess /\ excess < Max({1, Len(weights) - 1}) * Sum(weights)
           ELSE -Sum(weights) < excess /\ excess <= 0

\* The loop of allocateNet divides the whole amount fairly, whatever the
\* weights, and computes what Settlement uses for it.
DividesFairly ==
    /\ NothingLost
    /\ FairToADong
    /\ Done => amounts = AllocateNet(total, weights, Len(weights))
=============================================================================
