SPECIFICATION WithdrawalSpec
CONSTANTS
    u1 = u1
    u2 = u2
    k1 = k1
    k2 = k2
    b1 = b1
    b2 = b2
    b3 = b3
    a1 = a1
    a2 = a2
    Nobody = Nobody
    User <- MCUser
    RequestKey = {k1, k2}
    AdjustmentId = {a1, a2}
    Bank = {b1, b2, b3}
    LegacyBank = {b3}
    Amount = {1, 3}
    AdjustmentAmount <- MCAdjustmentAmount
    Minimum = {1, 2}
    DefaultMinimum = 2
    WithdrawalsEnabled = TRUE
INVARIANTS
    WithdrawalTypeOK
    ReservedBacked
    LedgerTellsWithdrawal
    PaidToApprovedBank
    BankEditsLinear
    HistoryIsPath
PROPERTIES
    DebtOnlyByAdjustment
SYMMETRY MCSymmetry
