----------------------------- MODULE Withdrawal -----------------------------
(***************************************************************************)
(* Withdrawals, the bank accounts they are paid to, manual adjustments and *)
(* the minimum set by the policy: WithdrawalService, BankService and the   *)
(* policy endpoint of FinanceAdminController.  Every action is one         *)
(* committed Serializable transaction; a request that throws changes       *)
(* nothing and is a disabled action.                                       *)
(*                                                                         *)
(* A withdrawal row is unique by 'withdrawal:' + userId + ':' + the        *)
(* client's idempotency key, so the pair <<user, key>> stands for its id.  *)
(* The payment details of a bank row are written once, by save, so the     *)
(* bank id in a withdrawal stands for its bankSnapshot too.                *)
(***************************************************************************)
EXTENDS Wallet, Sequences

CONSTANTS
    RequestKey,         \* idempotency keys clients send with a withdrawal
    AdjustmentId,       \* idempotency keys admins send with an adjustment
    Bank,               \* ids of bank rows
    LegacyBank,         \* rows older than encryption: no ciphertext
    Amount,             \* amounts clients ask for
    AdjustmentAmount,   \* amounts admins post
    Minimum,            \* values of policy.minWithdrawal admins choose
    DefaultMinimum,     \* its column default
    WithdrawalsEnabled, \* WITHDRAWALS_ENABLED of the deployment
    Nobody              \* "no user" / "no bank" in a row not yet written

ASSUME WithdrawalConstants ==
    /\ LegacyBank \subseteq Bank
    /\ Amount \subseteq Nat
    /\ AdjustmentAmount \subseteq Int \ {0}
    /\ Minimum \subseteq Nat
    /\ DefaultMinimum \in Nat
    /\ WithdrawalsEnabled \in BOOLEAN
    /\ Nobody \notin User \cup Bank

VARIABLES
    withdrawal,     \* withdrawal[w]: the row, status "none" before it exists
    bank,           \* bank[b]: the row, status "none" before it exists
    minWithdrawal   \* policy.minWithdrawal

withdrawalVars == <<wallet, ledger, withdrawal, bank, minWithdrawal>>

Request == User \X RequestKey
Owner(w) == w[1]

Status     == {"PENDING", "PROCESSING", "COMPLETED", "REJECTED", "FAILED"}
Final      == {"COMPLETED", "REJECTED", "FAILED"}
BankStatus == {"PENDING", "APPROVED", "REJECTED"}

MoneyKey ==
    [kind : {"reserve", "finalize"}, id : Request]
        \cup [kind : {"adjustment"}, id : AdjustmentId]

WithdrawalRow == [status : Status \cup {"none"}, amount : Nat,
                  bank : Bank \cup {Nobody}, history : Seq(Status)]

BankRow == [status : BankStatus \cup {"none"}, user : User \cup {Nobody},
            sealed : BOOLEAN, deleted : BOOLEAN,
            version : Nat, previous : Bank \cup {Nobody}]

WithdrawalTypeOK ==
    /\ wallet \in [User -> Balance]
    /\ ledger \subseteq RowOf(MoneyKey)
    /\ withdrawal \in [Request -> WithdrawalRow]
    /\ bank \in [Bank -> BankRow]
    /\ minWithdrawal \in Nat

NoWithdrawal ==
    [status |-> "none", amount |-> 0, bank |-> Nobody, history |-> <<>>]

NoBank == [status |-> "none", user |-> Nobody, sealed |-> FALSE,
           deleted |-> FALSE, version |-> 0, previous |-> Nobody]

\* The migration that added encryption left old rows PENDING, unsealed.
LegacyRow(u) == [status |-> "PENDING", user |-> u, sealed |-> FALSE,
                 deleted |-> FALSE, version |-> 1, previous |-> Nobody]

WithdrawalInit ==
    /\ WalletInit
    /\ withdrawal = [w \in Request |-> NoWithdrawal]
    /\ \E owner \in [LegacyBank -> User] :
          bank = [b \in Bank |-> IF b \in LegacyBank THEN LegacyRow(owner[b])
                                                     ELSE NoBank]
    /\ minWithdrawal = DefaultMinimum

-----------------------------------------------------------------------------
\* BankService
Live(b) == bank[b].status # "none" /\ ~bank[b].deleted

\* Mutant of SaveBank: the replaced row stays in use.
SaveBankKeepingOld(u, new, previous) ==
    /\ bank[new].status = "none"
    /\ previous # Nobody => Live(previous) /\ bank[previous].user = u
    /\ bank' = [bank EXCEPT ![new] =
          [status |-> "PENDING", user |-> u, sealed |-> TRUE,
           deleted |-> FALSE, previous |-> previous,
           version |-> IF previous = Nobody THEN 1 ELSE bank[previous].version + 1]]
    /\ UNCHANGED <<wallet, ledger, withdrawal, minWithdrawal>>

\* save: a new PENDING row; it replaces (soft-deletes) the user's previous one.
SaveBank(u, new, previous) ==
    /\ bank[new].status = "none"
    /\ previous # Nobody => Live(previous) /\ bank[previous].user = u
    /\ bank' = [b \in Bank |->
          CASE b = new ->
                 [status |-> "PENDING", user |-> u, sealed |-> TRUE,
                  deleted |-> FALSE, previous |-> previous,
                  version |-> IF previous = Nobody
                              THEN 1 ELSE bank[previous].version + 1]
            [] b = previous -> [bank[b] EXCEPT !.deleted = TRUE]
            [] OTHER -> bank[b]]
    /\ UNCHANGED <<wallet, ledger, withdrawal, minWithdrawal>>

RemoveBank(u, b) ==
    /\ Live(b) /\ bank[b].user = u
    /\ bank' = [bank EXCEPT ![b].deleted = TRUE]
    /\ UNCHANGED <<wallet, ledger, withdrawal, minWithdrawal>>

ReviewBank(b, verdict) ==
    /\ Live(b)
    /\ bank[b].status = "PENDING" /\ bank[b].sealed
    /\ bank' = [bank EXCEPT ![b].status = verdict]
    /\ UNCHANGED <<wallet, ledger, withdrawal, minWithdrawal>>

-----------------------------------------------------------------------------
\* WithdrawalService
\* Mutant of PayableTo: the account need not have been approved.
PayableToUnreviewed(u, b) ==
    Live(b) /\ bank[b].user = u /\ bank[b].status # "REJECTED" /\ bank[b].sealed

PayableTo(u, b) ==
    Live(b) /\ bank[b].user = u /\ bank[b].status = "APPROVED" /\ bank[b].sealed

\* create: a second request with the same key returns the old row (or throws
\* when it differs), so only an unused key changes anything.
CreateWithdrawal(w, amount, b) ==
    /\ WithdrawalsEnabled
    /\ withdrawal[w].status = "none"
    /\ amount >= minWithdrawal
    /\ PayableTo(Owner(w), b)
    /\ HasFunds(Owner(w), amount)
    /\ Post(Owner(w), ReserveKey(w), -amount, amount)
    /\ withdrawal' = [withdrawal EXCEPT ![w] =
          [status |-> "PENDING", amount |-> amount, bank |-> b,
           history |-> <<"PENDING">>]]
    /\ UNCHANGED <<bank, minWithdrawal>>

\* Mutant of Allowed: a failed transfer can still be rejected.
AllowedAfterFailure(status) ==
    CASE status = "PENDING"    -> {"PROCESSING", "REJECTED"}
      [] status = "PROCESSING" -> {"COMPLETED", "FAILED"}
      [] status = "FAILED"     -> {"REJECTED"}
      [] OTHER                 -> {}

Allowed(status) ==
    CASE status = "PENDING"    -> {"PROCESSING", "REJECTED"}
      [] status = "PROCESSING" -> {"COMPLETED", "FAILED"}
      [] OTHER                 -> {}

MoveTo(w, status) ==
    withdrawal' = [withdrawal EXCEPT ![w].status = status,
                                     ![w].history = Append(@, status)]

\* Mutant of StartProcessing: nobody looks at the balance again.
StartProcessingInDebt(w) ==
    /\ "PROCESSING" \in Allowed(withdrawal[w].status)
    /\ MoveTo(w, "PROCESSING")
    /\ UNCHANGED <<wallet, ledger, bank, minWithdrawal>>

StartProcessing(w) ==
    /\ "PROCESSING" \in Allowed(withdrawal[w].status)
    /\ wallet[Owner(w)].available >= 0
    /\ MoveTo(w, "PROCESSING")
    /\ UNCHANGED <<wallet, ledger, bank, minWithdrawal>>

\* Mutant of CompleteWithdrawal: the reserve is never paid out of the wallet.
CompleteWithoutPost(w) ==
    /\ "COMPLETED" \in Allowed(withdrawal[w].status)
    /\ MoveTo(w, "COMPLETED")
    /\ UNCHANGED <<wallet, ledger, bank, minWithdrawal>>

CompleteWithdrawal(w) ==
    /\ "COMPLETED" \in Allowed(withdrawal[w].status)
    /\ Post(Owner(w), FinalizeKey(w), 0, -withdrawal[w].amount)
    /\ MoveTo(w, "COMPLETED")
    /\ UNCHANGED <<bank, minWithdrawal>>

\* Mutant of ReleaseWithdrawal: the money returns and stays reserved too.
ReleaseKeepingReserve(w, status) ==
    /\ status \in Allowed(withdrawal[w].status)
    /\ Post(Owner(w), FinalizeKey(w), withdrawal[w].amount, 0)
    /\ MoveTo(w, status)
    /\ UNCHANGED <<bank, minWithdrawal>>

ReleaseWithdrawal(w, status) ==
    /\ status \in Allowed(withdrawal[w].status)
    /\ Post(Owner(w), FinalizeKey(w), withdrawal[w].amount, -withdrawal[w].amount)
    /\ MoveTo(w, status)
    /\ UNCHANGED <<bank, minWithdrawal>>

\* transition: a repeated call with the current status changes nothing.
Transition(w) ==
    \/ StartProcessing(w)
    \/ CompleteWithdrawal(w)
    \/ \E status \in {"REJECTED", "FAILED"} : ReleaseWithdrawal(w, status)

Adjust(u, a, amount) ==
    /\ Post(u, AdjustmentKey(a), amount, 0)
    /\ UNCHANGED <<withdrawal, bank, minWithdrawal>>

\* FinanceAdminController.updatePolicy
UpdateMinimum(minimum) ==
    /\ minWithdrawal' = minimum
    /\ UNCHANGED <<wallet, ledger, withdrawal, bank>>

-----------------------------------------------------------------------------
WithdrawalNext ==
    \/ \E u \in User, b \in Bank, previous \in Bank \cup {Nobody} :
          SaveBank(u, b, previous)
    \/ \E u \in User, b \in Bank : RemoveBank(u, b)
    \/ \E b \in Bank, verdict \in {"APPROVED", "REJECTED"} : ReviewBank(b, verdict)
    \/ \E w \in Request, amount \in Amount, b \in Bank :
          CreateWithdrawal(w, amount, b)
    \/ \E w \in Request : Transition(w)
    \/ \E u \in User, a \in AdjustmentId, amount \in AdjustmentAmount :
          Adjust(u, a, amount)
    \/ \E minimum \in Minimum : UpdateMinimum(minimum)

WithdrawalSpec == WithdrawalInit /\ [][WithdrawalNext]_withdrawalVars

-----------------------------------------------------------------------------
OpenWithdrawals(u) ==
    {w \in Request : Owner(w) = u /\ withdrawal[w].status \in {"PENDING", "PROCESSING"}}

\* Money set aside is exactly the money of the open withdrawals: a request
\* reserves its amount once and gives it up once, whatever transitions,
\* replays and adjustments happen in between.  It also shows that no open
\* withdrawal can be stopped by INVALID_RESERVED_BALANCE.
ReservedBacked ==
    \A u \in User :
        wallet[u].reserved =
            MapThenSumSet(LAMBDA w : withdrawal[w].amount, OpenWithdrawals(u))

RowsWith(key) == {row \in ledger : row.key = key}

ReserveRows(w) ==
    IF withdrawal[w].status = "none" THEN {}
    ELSE {Row(Owner(w), ReserveKey(w), -withdrawal[w].amount, withdrawal[w].amount)}

FinalizeRows(w) ==
    CASE withdrawal[w].status = "COMPLETED" ->
           {Row(Owner(w), FinalizeKey(w), 0, -withdrawal[w].amount)}
      [] withdrawal[w].status \in {"REJECTED", "FAILED"} ->
           {Row(Owner(w), FinalizeKey(w), withdrawal[w].amount, -withdrawal[w].amount)}
      [] OTHER -> {}

\* The ledger tells the fate of every withdrawal: one reserve row from its
\* creation on, one finalize row from its final status on, which pays out
\* exactly when the status is COMPLETED and gives the money back exactly when
\* it is REJECTED or FAILED; a withdrawal is never settled twice.
LedgerTellsWithdrawal ==
    \A w \in Request : /\ RowsWith(ReserveKey(w)) = ReserveRows(w)
                       /\ RowsWith(FinalizeKey(w)) = FinalizeRows(w)

\* Money is only sent to an account the owner submitted and an admin approved,
\* even if the account was removed or replaced after the request.
PaidToApprovedBank ==
    \A w \in Request : withdrawal[w].status # "none" =>
        LET b == withdrawal[w].bank IN
        /\ bank[b].user = Owner(w)
        /\ bank[b].status = "APPROVED" /\ bank[b].sealed

\* Editing an account is a chain, not a tree: a row is replaced at most once,
\* by a row of the same user, and is out of use from then on.
BankEditsLinear ==
    \A b \in Bank : bank[b].previous # Nobody =>
        LET old == bank[bank[b].previous] IN
        /\ old.deleted /\ old.user = bank[b].user
        /\ bank[b].version = old.version + 1
        /\ \A c \in Bank \ {b} : bank[c].previous # bank[b].previous

StatusStep == {<<"PENDING", "PROCESSING">>, <<"PENDING", "REJECTED">>,
               <<"PROCESSING", "COMPLETED">>, <<"PROCESSING", "FAILED">>}

IsPath(history, status) ==
    IF status = "none" THEN history = <<>>
    ELSE /\ history # <<>> /\ history[1] = "PENDING"
         /\ history[Len(history)] = status
         /\ \A i \in 1..(Len(history) - 1) :
                <<history[i], history[i + 1]>> \in StatusStep

\* The status history of a withdrawal is a path of the allowed transitions
\* that ends in its status: no status is skipped, repeated or left again once
\* it is final.
HistoryIsPath ==
    \A w \in Request : IsPath(withdrawal[w].history, withdrawal[w].status)

\* A user can never withdraw into debt: a step that leaves an available balance
\* negative and lower than it was posted an adjustment.
DebtOnlyByAdjustment ==
    [][\A u \in User :
          wallet'[u].available < 0 /\ wallet'[u].available < wallet[u].available =>
              \E row \in ledger' \ ledger :
                  row.user = u /\ row.key.kind = "adjustment"]_withdrawalVars
=============================================================================
