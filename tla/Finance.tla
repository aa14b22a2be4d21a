------------------------------- MODULE Finance -------------------------------
(***************************************************************************)
(* The two halves of the money together: commissions are reported,         *)
(* settled, credited and reversed while users withdraw what was credited   *)
(* and admins adjust it.  Settlement and Withdrawal meet in the wallet and *)
(* its ledger only; every transaction of one leaves the tables of the      *)
(* other alone.                                                            *)
(***************************************************************************)
EXTENDS Settlement

CONSTANTS RequestKey, AdjustmentId, Bank, LegacyBank, Amount, AdjustmentAmount,
          Minimum, DefaultMinimum, WithdrawalsEnabled

VARIABLES withdrawal, bank, minWithdrawal

W == INSTANCE Withdrawal

ASSUME FinanceConstants ==
    /\ Amount \subseteq Nat
    /\ AdjustmentAmount \subseteq Int
    /\ Nobody \notin Bank

financeVars == <<wallet, ledger, checkout, commission, cashback, openIssues,
                 credential, userBps, deletedLink, batch,
                 withdrawal, bank, minWithdrawal>>

FinanceInit == SettlementInit /\ W!WithdrawalInit

FinanceNext ==
    \/ SettlementNext /\ UNCHANGED <<withdrawal, bank, minWithdrawal>>
    \/ W!WithdrawalNext
         /\ UNCHANGED <<checkout, commission, cashback, openIssues, credential,
                        userBps, deletedLink, batch>>

FinanceSpec == FinanceInit /\ [][FinanceNext]_financeVars

-----------------------------------------------------------------------------
WithdrawalsOf(u, statuses) ==
    {w \in W!Request : W!Owner(w) = u /\ withdrawal[w].status \in statuses}
Requested(u, statuses) ==
    MapThenSumSet(LAMBDA w : withdrawal[w].amount, WithdrawalsOf(u, statuses))

Open == {"PENDING", "PROCESSING"}

\* What u was credited for orders and never lost, read from the commissions.
EarnedCashback(u) ==
    LET paid == {c \in Checkout : commission[c].user = u /\ cashback[c].state = "AVAILABLE"}
    IN MapThenSumSet(LAMBDA c : cashback[c].user, paid)

Adjusted(u) ==
    MapThenSumSet(LAMBDA row : row.available,
                  {row \in ledger : row.user = u /\ row.key.kind = "adjustment"})

Earned(u) == EarnedCashback(u) + Adjusted(u)

\* The books agree: the cached balances are the sums of the ledger, the money
\* set aside is that of the open withdrawals, and what a user has, has set
\* aside and was paid is what the paid orders and the adjustments gave him --
\* four tables that different services write.
BooksAgree ==
    /\ LedgerBalanced
    /\ \A u \in User :
          /\ wallet[u].reserved = Requested(u, Open)
          /\ wallet[u].available + wallet[u].reserved + Requested(u, {"COMPLETED"})
                = Earned(u)

\* No transfer to a bank is started for money that is no longer there: when a
\* withdrawal starts to be processed, the orders still paid and the
\* adjustments cover it together with everything its owner withdrew or asked
\* for, although a reversal may have come after the request.
ProcessingIsEarned ==
    [][\A w \in W!Request :
          withdrawal[w].status = "PENDING" /\ withdrawal'[w].status = "PROCESSING" =>
             LET u == W!Owner(w) IN
             Earned(u) >= Requested(u, Open \cup {"COMPLETED"})]_financeVars

-----------------------------------------------------------------------------
\* The refinement: a withdrawal is a claim, every other movement an entry.
EntryKind == {"settlement", "reversal", "adjustment"}

ClaimStatus(status) ==
    CASE status \in Open                   -> "held"
      [] status = "COMPLETED"              -> "paid"
      [] status \in {"REJECTED", "FAILED"} -> "returned"
      [] OTHER                             -> "none"

A == INSTANCE Account WITH
        Claim    <- W!Request,
        Claimant <- [w \in W!Request |-> W!Owner(w)],
        free     <- [u \in User |-> wallet[u].available],
        claim    <- [w \in W!Request |-> [status |-> ClaimStatus(withdrawal[w].status),
                                          amount |-> withdrawal[w].amount]],
        entries  <- {row \in ledger : row.key.kind \in EntryKind}

\* Wallets, reserves, settlements and reversals implement the abstract account:
\* free money moves by entries and claims alone, a claim never takes more than
\* is free, and it is paid or returned once.
ImplementsAccount == A!AccountSpec
=============================================================================
