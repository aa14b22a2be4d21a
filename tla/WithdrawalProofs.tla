-------------------------- MODULE WithdrawalProofs --------------------------
(***************************************************************************)
(* Proofs about Withdrawal for every set of users, keys, banks and         *)
(* amounts.  Each invariant is shown to hold initially and to be preserved *)
(* by every operation.                                                     *)
(***************************************************************************)
EXTENDS Withdrawal, Sums, TLAPS

\* A posting keeps the wallets and the ledger well typed: balances stay
\* integers, no reserve becomes negative, rows carry known keys
\* (WalletService.post).
LEMMA PostTyped ==
    ASSUME NEW u \in User, NEW K, NEW key \in K,
           NEW available \in Int, NEW reserved \in Int,
           wallet \in [User -> Balance], ledger \subseteq RowOf(K),
           Post(u, key, available, reserved)
    PROVE  /\ wallet' \in [User -> Balance]
           /\ ledger' \subseteq RowOf(K)
<1>1. CASE UNCHANGED walletVars
  BY <1>1 DEF walletVars
<1>2. CASE PostNew(u, key, available, reserved)
  <2>1. Row(u, key, available, reserved) \in RowOf(K)
    BY DEF Row, RowOf
  <2>2. [available |-> wallet[u].available + available,
         reserved  |-> wallet[u].reserved + reserved] \in Balance
    BY <1>2 DEF PostNew, Balance
  <2>3. QED
    BY <1>2, <2>1, <2>2 DEF PostNew
<1>3. QED
  BY <1>1, <1>2 DEF Post

\* A request belongs to the user who makes it (its idempotency key names them).
LEMMA OwnerIsUser == \A w \in Request : Owner(w) \in User
BY DEF Request, Owner

\* The keys of the three movements a withdrawal service makes are money keys.
LEMMA KeysTyped ==
    /\ \A w \in Request : ReserveKey(w) \in MoneyKey /\ FinalizeKey(w) \in MoneyKey
    /\ \A a \in AdjustmentId : AdjustmentKey(a) \in MoneyKey
BY DEF ReserveKey, FinalizeKey, AdjustmentKey, MoneyKey

\* Moving a withdrawal to another status keeps the rows well typed
\* (the update and the history row of WithdrawalService.transition).
LEMMA MoveTyped ==
    ASSUME WithdrawalTypeOK, NEW w \in Request, NEW status \in Status,
           MoveTo(w, status)
    PROVE  withdrawal' \in [Request -> WithdrawalRow]
<1>1. withdrawal[w] \in WithdrawalRow
  BY DEF WithdrawalTypeOK
<1>2. Append(withdrawal[w].history, status) \in Seq(Status)
  BY <1>1 DEF WithdrawalRow
<1>3. [withdrawal[w] EXCEPT !.status = status,
                            !.history = Append(@, status)] \in WithdrawalRow
  BY <1>1, <1>2 DEF WithdrawalRow
<1>4. QED
  BY <1>3 DEF MoveTo, WithdrawalTypeOK

-----------------------------------------------------------------------------
\* The tables start well typed, legacy bank rows included.
LEMMA InitTyped == WithdrawalInit => WithdrawalTypeOK
<1> SUFFICES ASSUME WithdrawalInit PROVE WithdrawalTypeOK
  OBVIOUS
<1>1. wallet \in [User -> Balance] /\ ledger \subseteq RowOf(MoneyKey)
  BY DEF WithdrawalInit, WalletInit, Balance
<1>2. NoWithdrawal \in WithdrawalRow
  BY DEF NoWithdrawal, WithdrawalRow
<1>3. withdrawal \in [Request -> WithdrawalRow]
  BY <1>2 DEF WithdrawalInit
<1>4. NoBank \in BankRow /\ \A u \in User : LegacyRow(u) \in BankRow
  BY DEF NoBank, LegacyRow, BankRow, BankStatus
<1>5. bank \in [Bank -> BankRow]
  BY <1>4 DEF WithdrawalInit
<1>6. minWithdrawal \in Nat
  BY WithdrawalConstants DEF WithdrawalInit
<1>7. QED
  BY <1>1, <1>3, <1>5, <1>6 DEF WithdrawalTypeOK

\* A new bank row is well typed, and so is the one it replaces
\* (BankService.save).
LEMMA SaveBankTyped ==
    ASSUME WithdrawalTypeOK, NEW u \in User, NEW b \in Bank,
           NEW previous \in Bank \cup {Nobody}, SaveBank(u, b, previous)
    PROVE  bank' \in [Bank -> BankRow]
<1> DEFINE version == IF previous = Nobody THEN 1 ELSE bank[previous].version + 1
           fresh   == [status |-> "PENDING", user |-> u, sealed |-> TRUE,
                       deleted |-> FALSE, previous |-> previous,
                       version |-> version]
<1>1. version \in Nat
  BY DEF WithdrawalTypeOK, BankRow
<1>2. fresh \in BankRow
  BY <1>1 DEF BankRow, BankStatus
<1>3. \A c \in Bank : [bank[c] EXCEPT !.deleted = TRUE] \in BankRow
  BY DEF WithdrawalTypeOK, BankRow
<1>4. \A c \in Bank : bank[c] \in BankRow
  BY DEF WithdrawalTypeOK
<1> HIDE DEF version
<1>5. bank' = [c \in Bank |-> CASE c = b -> fresh
                                [] c = previous -> [bank[c] EXCEPT !.deleted = TRUE]
                                [] OTHER -> bank[c]]
  BY DEF SaveBank, version
<1> HIDE DEF fresh
<1>6. QED
  BY <1>2, <1>3, <1>4, <1>5

\* Every operation keeps the state well typed (WithdrawalNext).
LEMMA StepTyped == WithdrawalTypeOK /\ [WithdrawalNext]_withdrawalVars
                       => WithdrawalTypeOK'
<1> SUFFICES ASSUME WithdrawalTypeOK, [WithdrawalNext]_withdrawalVars
             PROVE  WithdrawalTypeOK'
  OBVIOUS
<1>1. CASE UNCHANGED withdrawalVars
  BY <1>1 DEF withdrawalVars, WithdrawalTypeOK
<1>2. ASSUME NEW u \in User, NEW b \in Bank, NEW previous \in Bank \cup {Nobody},
             SaveBank(u, b, previous)
      PROVE  WithdrawalTypeOK'
  BY <1>2, SaveBankTyped DEF WithdrawalTypeOK, SaveBank
<1>3. ASSUME NEW u \in User, NEW b \in Bank, RemoveBank(u, b)
      PROVE  WithdrawalTypeOK'
  BY <1>3 DEF WithdrawalTypeOK, RemoveBank, BankRow
<1>4. ASSUME NEW b \in Bank, NEW verdict \in {"APPROVED", "REJECTED"},
             ReviewBank(b, verdict)
      PROVE  WithdrawalTypeOK'
  BY <1>4 DEF WithdrawalTypeOK, ReviewBank, BankRow, BankStatus
<1>5. ASSUME NEW w \in Request, NEW amount \in Amount, NEW b \in Bank,
             CreateWithdrawal(w, amount, b)
      PROVE  WithdrawalTypeOK'
  <2>1. amount \in Nat /\ -amount \in Int
    BY WithdrawalConstants
  <2>2. wallet' \in [User -> Balance] /\ ledger' \subseteq RowOf(MoneyKey)
    BY <1>5, <2>1, PostTyped, OwnerIsUser, KeysTyped
       DEF CreateWithdrawal, WithdrawalTypeOK
  <2>3. [status |-> "PENDING", amount |-> amount, bank |-> b,
         history |-> <<"PENDING">>] \in WithdrawalRow
    BY <2>1 DEF WithdrawalRow, Status
  <2>4. withdrawal' \in [Request -> WithdrawalRow]
    BY <1>5, <2>3 DEF CreateWithdrawal, WithdrawalTypeOK
  <2>5. QED
    BY <1>5, <2>2, <2>4 DEF CreateWithdrawal, WithdrawalTypeOK
<1>6. ASSUME NEW w \in Request, StartProcessing(w)
      PROVE  WithdrawalTypeOK'
  <2>1. withdrawal' \in [Request -> WithdrawalRow]
    BY <1>6, MoveTyped DEF StartProcessing, Status
  <2>2. QED
    BY <1>6, <2>1 DEF StartProcessing, WithdrawalTypeOK
<1>7. ASSUME NEW w \in Request, CompleteWithdrawal(w)
      PROVE  WithdrawalTypeOK'
  <2>1. withdrawal[w].amount \in Nat /\ -withdrawal[w].amount \in Int
    BY DEF WithdrawalTypeOK, WithdrawalRow
  <2>2. wallet' \in [User -> Balance] /\ ledger' \subseteq RowOf(MoneyKey)
    BY <1>7, <2>1, PostTyped, OwnerIsUser, KeysTyped
       DEF CompleteWithdrawal, WithdrawalTypeOK
  <2>3. withdrawal' \in [Request -> WithdrawalRow]
    BY <1>7, MoveTyped DEF CompleteWithdrawal, Status
  <2>4. QED
    BY <1>7, <2>2, <2>3 DEF CompleteWithdrawal, WithdrawalTypeOK
<1>8. ASSUME NEW w \in Request, NEW status \in {"REJECTED", "FAILED"},
             ReleaseWithdrawal(w, status)
      PROVE  WithdrawalTypeOK'
  <2>1. withdrawal[w].amount \in Nat /\ -withdrawal[w].amount \in Int
    BY DEF WithdrawalTypeOK, WithdrawalRow
  <2>2. wallet' \in [User -> Balance] /\ ledger' \subseteq RowOf(MoneyKey)
    BY <1>8, <2>1, PostTyped, OwnerIsUser, KeysTyped
       DEF ReleaseWithdrawal, WithdrawalTypeOK
  <2>3. withdrawal' \in [Request -> WithdrawalRow]
    BY <1>8, MoveTyped DEF ReleaseWithdrawal, Status
  <2>4. QED
    BY <1>8, <2>2, <2>3 DEF ReleaseWithdrawal, WithdrawalTypeOK
<1>9. ASSUME NEW u \in User, NEW a \in AdjustmentId, NEW amount \in AdjustmentAmount,
             Adjust(u, a, amount)
      PROVE  WithdrawalTypeOK'
  <2>1. amount \in Int
    BY WithdrawalConstants
  <2>2. wallet' \in [User -> Balance] /\ ledger' \subseteq RowOf(MoneyKey)
    BY <1>9, <2>1, PostTyped, KeysTyped DEF Adjust, WithdrawalTypeOK
  <2>3. QED
    BY <1>9, <2>2 DEF Adjust, WithdrawalTypeOK
<1>10. ASSUME NEW minimum \in Minimum, UpdateMinimum(minimum)
       PROVE  WithdrawalTypeOK'
  BY <1>10, WithdrawalConstants DEF UpdateMinimum, WithdrawalTypeOK
<1>11. QED
  BY <1>1, <1>2, <1>3, <1>4, <1>5, <1>6, <1>7, <1>8, <1>9, <1>10
     DEF WithdrawalNext, Transition

\* Every reachable state is well typed; in particular no reserve is negative,
\* for any number of users, banks and requests.
THEOREM WithdrawalTypeCorrect == WithdrawalSpec => []WithdrawalTypeOK
<1>1. QED
  BY InitTyped, StepTyped, PTL DEF WithdrawalSpec

-----------------------------------------------------------------------------
\* A posting under one key leaves the rows of every other key alone, and under
\* an unused key writes exactly its own row.
LEMMA PostRows ==
    ASSUME NEW u, NEW key, NEW available, NEW reserved,
           Post(u, key, available, reserved)
    PROVE  /\ \A other : other # key => RowsWith(other)' = RowsWith(other)
           /\ RowsWith(key) = {} =>
                  RowsWith(key)' = {Row(u, key, available, reserved)}
<1>1. CASE Row(u, key, available, reserved) \in ledger /\ UNCHANGED walletVars
  BY <1>1 DEF walletVars, RowsWith, Row
<1>2. CASE PostNew(u, key, available, reserved)
  <2>1. Row(u, key, available, reserved).key = key
    BY DEF Row
  <2>2. QED
    BY <1>2, <2>1 DEF PostNew, RowsWith
<1>3. QED
  BY <1>1, <1>2 DEF Post

\* The keys of two withdrawals, and the two keys of one, are different.
LEMMA KeysDiffer ==
    /\ \A v, w : ReserveKey(v) # FinalizeKey(w)
    /\ \A v, w : v # w => /\ ReserveKey(v) # ReserveKey(w)
                          /\ FinalizeKey(v) # FinalizeKey(w)
    /\ \A a, w : /\ AdjustmentKey(a) # ReserveKey(w)
                 /\ AdjustmentKey(a) # FinalizeKey(w)
BY DEF ReserveKey, FinalizeKey, AdjustmentKey

\* A step that touches neither the withdrawals nor their rows keeps the story.
LEMMA LedgerStoryKept ==
    ASSUME LedgerTellsWithdrawal, UNCHANGED withdrawal,
           \A w \in Request : /\ RowsWith(ReserveKey(w))' = RowsWith(ReserveKey(w))
                              /\ RowsWith(FinalizeKey(w))' = RowsWith(FinalizeKey(w))
    PROVE  LedgerTellsWithdrawal'
BY DEF LedgerTellsWithdrawal, ReserveRows, FinalizeRows

\* Finalizing one open withdrawal with the row that its new status calls for.
LEMMA LedgerStoryFinalized ==
    ASSUME LedgerTellsWithdrawal, WithdrawalTypeOK, NEW w \in Request,
           NEW status \in Final, NEW available,
           withdrawal[w].status \in {"PENDING", "PROCESSING"},
           available = IF status = "COMPLETED" THEN 0 ELSE withdrawal[w].amount,
           Post(Owner(w), FinalizeKey(w), available, -withdrawal[w].amount),
           MoveTo(w, status)
    PROVE  LedgerTellsWithdrawal'
<1>1. /\ withdrawal'[w].status = status
      /\ withdrawal'[w].amount = withdrawal[w].amount
      /\ \A v \in Request \ {w} : withdrawal'[v] = withdrawal[v]
  BY DEF MoveTo, WithdrawalTypeOK, WithdrawalRow
<1>2. RowsWith(FinalizeKey(w)) = {}
  BY DEF LedgerTellsWithdrawal, FinalizeRows
<1>3. RowsWith(FinalizeKey(w))' =
          {Row(Owner(w), FinalizeKey(w), available, -withdrawal[w].amount)}
  BY <1>2, PostRows
<1>4. RowsWith(FinalizeKey(w))' = FinalizeRows(w)'
  BY <1>1, <1>3 DEF FinalizeRows, Final
<1>5. RowsWith(ReserveKey(w))' = ReserveRows(w)'
  BY <1>1, PostRows, KeysDiffer DEF LedgerTellsWithdrawal, ReserveRows, Final
<1>6. ASSUME NEW v \in Request \ {w}
      PROVE  /\ RowsWith(ReserveKey(v))' = ReserveRows(v)'
             /\ RowsWith(FinalizeKey(v))' = FinalizeRows(v)'
  BY <1>1, <1>6, PostRows, KeysDiffer
     DEF LedgerTellsWithdrawal, ReserveRows, FinalizeRows
<1>7. QED
  BY <1>4, <1>5, <1>6 DEF LedgerTellsWithdrawal

\* Every operation keeps the ledger telling the fate of every withdrawal: each
\* writes the row of the status it sets, in the same transaction.
LEMMA LedgerStoryStep ==
    LedgerTellsWithdrawal /\ WithdrawalTypeOK /\ [WithdrawalNext]_withdrawalVars
        => LedgerTellsWithdrawal'
<1> SUFFICES ASSUME LedgerTellsWithdrawal, WithdrawalTypeOK,
                    [WithdrawalNext]_withdrawalVars
             PROVE  LedgerTellsWithdrawal'
  OBVIOUS
<1>1. CASE UNCHANGED <<ledger, withdrawal>>
  BY <1>1, LedgerStoryKept DEF RowsWith
<1>2. ASSUME NEW w \in Request, NEW amount \in Amount, NEW b \in Bank,
             CreateWithdrawal(w, amount, b)
      PROVE  LedgerTellsWithdrawal'
  <2>1. /\ withdrawal[w].status = "none"
        /\ withdrawal'[w].status = "PENDING"
        /\ withdrawal'[w].amount = amount
        /\ \A v \in Request \ {w} : withdrawal'[v] = withdrawal[v]
    BY <1>2 DEF CreateWithdrawal, WithdrawalTypeOK
  <2>2. RowsWith(ReserveKey(w)) = {} /\ RowsWith(FinalizeKey(w)) = {}
    BY <2>1 DEF LedgerTellsWithdrawal, ReserveRows, FinalizeRows
  <2>3. Post(Owner(w), ReserveKey(w), -amount, amount)
    BY <1>2 DEF CreateWithdrawal
  <2>4. RowsWith(ReserveKey(w))' = ReserveRows(w)'
    BY <2>1, <2>2, <2>3, PostRows DEF ReserveRows
  <2>5. RowsWith(FinalizeKey(w))' = FinalizeRows(w)'
    BY <2>1, <2>2, <2>3, PostRows, KeysDiffer DEF FinalizeRows
  <2>6. ASSUME NEW v \in Request \ {w}
        PROVE  /\ RowsWith(ReserveKey(v))' = ReserveRows(v)'
               /\ RowsWith(FinalizeKey(v))' = FinalizeRows(v)'
    BY <2>1, <2>3, <2>6, PostRows, KeysDiffer
       DEF LedgerTellsWithdrawal, ReserveRows, FinalizeRows
  <2>7. QED
    BY <2>4, <2>5, <2>6 DEF LedgerTellsWithdrawal
<1>3. ASSUME NEW w \in Request, StartProcessing(w)
      PROVE  LedgerTellsWithdrawal'
  <2>1. /\ withdrawal[w].status = "PENDING"
        /\ withdrawal'[w].status = "PROCESSING"
        /\ withdrawal'[w].amount = withdrawal[w].amount
        /\ \A v \in Request \ {w} : withdrawal'[v] = withdrawal[v]
    BY <1>3 DEF StartProcessing, Allowed, MoveTo, WithdrawalTypeOK, WithdrawalRow
  <2>2. ledger' = ledger
    BY <1>3 DEF StartProcessing
  <2>3. QED
    BY <2>1, <2>2
       DEF LedgerTellsWithdrawal, RowsWith, ReserveRows, FinalizeRows
<1>4. ASSUME NEW w \in Request, CompleteWithdrawal(w)
      PROVE  LedgerTellsWithdrawal'
  <2>1. withdrawal[w].status \in {"PENDING", "PROCESSING"}
    BY <1>4 DEF CompleteWithdrawal, Allowed
  <2>2. QED
    BY <1>4, <2>1, LedgerStoryFinalized DEF CompleteWithdrawal, Final
<1>5. ASSUME NEW w \in Request, NEW status \in {"REJECTED", "FAILED"},
             ReleaseWithdrawal(w, status)
      PROVE  LedgerTellsWithdrawal'
  <2>1. withdrawal[w].status \in {"PENDING", "PROCESSING"}
    BY <1>5 DEF ReleaseWithdrawal, Allowed
  <2>2. QED
    BY <1>5, <2>1, LedgerStoryFinalized DEF ReleaseWithdrawal, Final
<1>6. ASSUME NEW u \in User, NEW a \in AdjustmentId, NEW amount \in AdjustmentAmount,
             Adjust(u, a, amount)
      PROVE  LedgerTellsWithdrawal'
  BY <1>6, PostRows, KeysDiffer, LedgerStoryKept DEF Adjust
<1>7. QED
  BY <1>1, <1>2, <1>3, <1>4, <1>5, <1>6
     DEF WithdrawalNext, Transition, withdrawalVars, SaveBank, RemoveBank,
         ReviewBank, UpdateMinimum

\* Exactly-once settlement of every withdrawal: whatever requests, retries,
\* transitions and adjustments are interleaved, the ledger holds one reserve
\* row per withdrawal and one finalize row per final one, with the movement
\* its status calls for (WithdrawalService.create and transition).
THEOREM LedgerAlwaysTellsWithdrawal == WithdrawalSpec => []LedgerTellsWithdrawal
<1>1. WithdrawalInit => LedgerTellsWithdrawal
  BY DEF WithdrawalInit, WalletInit, NoWithdrawal, LedgerTellsWithdrawal, RowsWith,
         ReserveRows, FinalizeRows
<1>2. QED
  BY <1>1, WithdrawalTypeCorrect, LedgerStoryStep, PTL DEF WithdrawalSpec

-----------------------------------------------------------------------------
\* Adding a status that may follow the last one to a path gives a path.
LEMMA PathExtended ==
    ASSUME NEW history \in Seq(Status), NEW old \in Status, NEW status \in Status,
           IsPath(history, old), status \in Allowed(old)
    PROVE  IsPath(Append(history, status), status)
<1>1. <<old, status>> \in StatusStep
  BY DEF Allowed, StatusStep
<1>2. /\ Len(history) \in Nat \ {0}
      /\ history[1] = "PENDING" /\ history[Len(history)] = old
      /\ \A i \in 1..(Len(history) - 1) : <<history[i], history[i + 1]>> \in StatusStep
  BY DEF IsPath, Status
<1> DEFINE new == Append(history, status)
<1>3. /\ Len(new) = Len(history) + 1 /\ new # <<>>
      /\ new[Len(new)] = status
      /\ \A i \in 1..Len(history) : new[i] = history[i]
  BY <1>2
<1>4. ASSUME NEW i \in 1..Len(history)
      PROVE  <<new[i], new[i + 1]>> \in StatusStep
  <2>1. CASE i = Len(history)
    BY <2>1, <1>1, <1>2, <1>3
  <2>2. CASE i < Len(history)
    BY <2>2, <1>2, <1>3
  <2>3. QED
    BY <2>1, <2>2, <1>2
<1>5. status # "none"
  BY DEF Status
<1> HIDE DEF new
<1>6. new[1] = "PENDING"
  BY <1>2, <1>3
<1>7. IsPath(new, status)
  <2>1. Len(new) - 1 = Len(history)
    BY <1>2, <1>3
  <2>2. QED
    BY <2>1, <1>3, <1>4, <1>5, <1>6 DEF IsPath
<1>8. QED
  BY <1>7 DEF new

\* Moving a withdrawal along Allowed extends its path (WithdrawalService.transition).
LEMMA HistoryMoved ==
    ASSUME HistoryIsPath, WithdrawalTypeOK, NEW w \in Request, NEW status \in Status,
           status \in Allowed(withdrawal[w].status), MoveTo(w, status)
    PROVE  HistoryIsPath'
<1>1. /\ withdrawal'[w].status = status
      /\ withdrawal'[w].history = Append(withdrawal[w].history, status)
      /\ \A v \in Request \ {w} : withdrawal'[v] = withdrawal[v]
  BY DEF MoveTo, WithdrawalTypeOK, WithdrawalRow
<1>2. withdrawal[w].status \in Status /\ withdrawal[w].history \in Seq(Status)
  BY DEF Allowed, WithdrawalTypeOK, WithdrawalRow, Status
<1>3. IsPath(Append(withdrawal[w].history, status), status)
  BY <1>2, PathExtended DEF HistoryIsPath
<1>4. QED
  BY <1>1, <1>3 DEF HistoryIsPath

\* Every operation keeps every history a path.
LEMMA HistoryStep ==
    HistoryIsPath /\ WithdrawalTypeOK /\ [WithdrawalNext]_withdrawalVars
        => HistoryIsPath'
<1> SUFFICES ASSUME HistoryIsPath, WithdrawalTypeOK,
                    [WithdrawalNext]_withdrawalVars
             PROVE  HistoryIsPath'
  OBVIOUS
<1>1. CASE UNCHANGED withdrawal
  BY <1>1 DEF HistoryIsPath
<1>2. ASSUME NEW w \in Request, NEW amount \in Amount, NEW b \in Bank,
             CreateWithdrawal(w, amount, b)
      PROVE  HistoryIsPath'
  <2>1. /\ withdrawal'[w].status = "PENDING"
        /\ withdrawal'[w].history = <<"PENDING">>
        /\ \A v \in Request \ {w} : withdrawal'[v] = withdrawal[v]
    BY <1>2 DEF CreateWithdrawal, WithdrawalTypeOK
  <2>2. IsPath(<<"PENDING">>, "PENDING")
    BY DEF IsPath
  <2>3. QED
    BY <2>1, <2>2 DEF HistoryIsPath
<1>3. ASSUME NEW w \in Request, Transition(w)
      PROVE  HistoryIsPath'
  BY <1>3, HistoryMoved
     DEF Transition, StartProcessing, CompleteWithdrawal, ReleaseWithdrawal, Status
<1>4. QED
  BY <1>1, <1>2, <1>3
     DEF WithdrawalNext, withdrawalVars, SaveBank, RemoveBank, ReviewBank, Adjust,
         UpdateMinimum

\* Every status history is a path of the allowed transitions, however many
\* admins act on the same withdrawal (WithdrawalService.transition).
THEOREM HistoryAlwaysPath == WithdrawalSpec => []HistoryIsPath
<1>1. WithdrawalInit => HistoryIsPath
  BY DEF WithdrawalInit, NoWithdrawal, HistoryIsPath, IsPath
<1>2. QED
  BY <1>1, WithdrawalTypeCorrect, HistoryStep, PTL DEF WithdrawalSpec

-----------------------------------------------------------------------------
(***************************************************************************)
(* Bank rows.  BankEditsLinear is not inductive alone: a row that was      *)
(* never written must not be linked from or to.                            *)
(***************************************************************************)
BankLinks ==
    /\ \A b \in Bank :
        /\ bank[b].status = "none" => bank[b].previous = Nobody /\ ~bank[b].deleted
        /\ bank[b].previous # Nobody => bank[bank[b].previous].status # "none"
    /\ \A w \in Request : withdrawal[w].status # "none" => withdrawal[w].bank \in Bank

BankInv == BankEditsLinear /\ BankLinks /\ PaidToApprovedBank

\* A step that keeps the bank rows, and gives only live approved accounts to
\* new withdrawals.
LEMMA PayeeKept ==
    ASSUME BankInv, WithdrawalTypeOK, UNCHANGED bank,
           \A w \in Request :
               withdrawal'[w].status # "none" =>
                   \/ /\ withdrawal[w].status # "none"
                      /\ withdrawal'[w].bank = withdrawal[w].bank
                   \/ withdrawal'[w].bank \in Bank /\ PayableTo(Owner(w), withdrawal'[w].bank)
    PROVE  BankInv'
<1>1. BankEditsLinear' /\ BankLinks'
  BY DEF BankInv, BankEditsLinear, BankLinks
<1>2. PaidToApprovedBank'
  BY DEF BankInv, PaidToApprovedBank, PayableTo, BankLinks
<1>3. QED
  BY <1>1, <1>2 DEF BankInv

\* Replacing a bank row makes its chain longer and leaves the withdrawals their
\* approved accounts (BankService.save).
LEMMA SaveKeepsBankInv ==
    ASSUME BankInv, WithdrawalTypeOK, NEW u \in User, NEW new \in Bank,
           NEW previous \in Bank \cup {Nobody}, SaveBank(u, new, previous)
    PROVE  BankInv'
<1>1. /\ bank[new].status = "none" /\ bank[new].previous = Nobody
      /\ previous # new
      /\ \A b \in Bank : bank[b].previous # new
  BY WithdrawalConstants DEF SaveBank, Live, BankInv, BankLinks
<1>2. /\ bank'[new].status = "PENDING" /\ bank'[new].user = u /\ ~bank'[new].deleted
      /\ bank'[new].previous = previous
      /\ previous # Nobody => bank'[new].version = bank[previous].version + 1
  <2> DEFINE fresh == [status |-> "PENDING", user |-> u, sealed |-> TRUE,
                       deleted |-> FALSE, previous |-> previous,
                       version |-> IF previous = Nobody
                                   THEN 1 ELSE bank[previous].version + 1]
  <2>1. bank'[new] = fresh
    BY <1>1 DEF SaveBank
  <2>2. QED
    BY <2>1
<1>3. previous # Nobody =>
          /\ bank'[previous].deleted
          /\ bank'[previous].user = u
          /\ bank[previous].status # "none" /\ ~bank[previous].deleted
          /\ \A b \in Bank : bank[b].previous # previous
  BY <1>1 DEF SaveBank, Live, BankInv, BankEditsLinear, WithdrawalTypeOK, BankRow
<1>4. \A b \in Bank \ {new} :
          /\ bank'[b].status = bank[b].status /\ bank'[b].user = bank[b].user
          /\ bank'[b].sealed = bank[b].sealed /\ bank'[b].version = bank[b].version
          /\ bank'[b].previous = bank[b].previous
          /\ bank[b].deleted => bank'[b].deleted
          /\ b # previous => bank'[b] = bank[b]
  BY DEF SaveBank, WithdrawalTypeOK, BankRow
<1>5. withdrawal' = withdrawal
  BY DEF SaveBank
<1>6. \A b \in Bank : bank[b].previous \in Bank \cup {Nobody}
  BY DEF WithdrawalTypeOK, BankRow
<1>7. PaidToApprovedBank'
  BY <1>1, <1>4, <1>5 DEF BankInv, PaidToApprovedBank, BankLinks
<1>8. BankLinks'
  <2>1. ASSUME NEW b \in Bank
        PROVE  /\ bank'[b].status = "none" =>
                      bank'[b].previous = Nobody /\ ~bank'[b].deleted
               /\ bank'[b].previous # Nobody =>
                      bank'[bank'[b].previous].status # "none"
    <3>1. CASE b = new
      BY <3>1, <1>1, <1>2, <1>3, <1>4
    <3>2. CASE b # new
      <4>1. bank'[b].previous = bank[b].previous /\ bank[b].previous \in Bank \cup {Nobody}
        BY <3>2, <1>4, <1>6
      <4>2. bank[b].previous # Nobody => bank'[bank[b].previous].status # "none"
        BY <4>1, <1>1, <1>4 DEF BankInv, BankLinks
      <4>3. bank'[b].status = "none" => b # previous
        BY <3>2, <1>3, <1>4, WithdrawalConstants
      <4>4. QED
        BY <3>2, <4>1, <4>2, <4>3, <1>4 DEF BankInv, BankLinks
    <3>3. QED
      BY <3>1, <3>2
  <2>2. QED
    BY <2>1, <1>5 DEF BankInv, BankLinks
<1>9. BankEditsLinear'
  <2> SUFFICES ASSUME NEW b \in Bank, bank'[b].previous # Nobody
               PROVE  LET old == bank'[bank'[b].previous] IN
                      /\ old.deleted /\ old.user = bank'[b].user
                      /\ bank'[b].version = old.version + 1
                      /\ \A c \in Bank \ {b} : bank'[c].previous # bank'[b].previous
    BY DEF BankEditsLinear
  <2>1. CASE b = new
    BY <2>1, <1>1, <1>2, <1>3, <1>4
  <2>2. CASE b # new
    <3>1. /\ bank'[b].previous = bank[b].previous
          /\ bank[b].previous \in Bank \ {new}
      BY <2>2, <1>1, <1>4, <1>6
    <3>2. bank[b].previous # previous
      BY <3>1, <1>3
    <3>3. bank'[bank[b].previous] = bank[bank[b].previous]
      BY <3>1, <3>2, <1>4
    <3>4. \A c \in Bank \ {b} : bank'[c].previous # bank[b].previous
      BY <2>2, <3>1, <3>2, <1>2, <1>4 DEF BankInv, BankEditsLinear
    <3>5. QED
      BY <2>2, <3>1, <3>3, <3>4, <1>4 DEF BankInv, BankEditsLinear
  <2>3. QED
    BY <2>1, <2>2
<1>10. QED
  BY <1>7, <1>8, <1>9 DEF BankInv

\* Every operation keeps the bank chains and the payees (WithdrawalNext).
LEMMA BankInvStep ==
    BankInv /\ WithdrawalTypeOK /\ [WithdrawalNext]_withdrawalVars => BankInv'
<1> SUFFICES ASSUME BankInv, WithdrawalTypeOK, [WithdrawalNext]_withdrawalVars
             PROVE  BankInv'
  OBVIOUS
<1>1. CASE UNCHANGED <<bank, withdrawal>>
  BY <1>1, PayeeKept
<1>2. ASSUME NEW u \in User, NEW b \in Bank, NEW previous \in Bank \cup {Nobody},
             SaveBank(u, b, previous)
      PROVE  BankInv'
  BY <1>2, SaveKeepsBankInv
<1>3. ASSUME NEW b \in Bank,
             \/ \E u \in User : RemoveBank(u, b)
             \/ \E verdict \in {"APPROVED", "REJECTED"} : ReviewBank(b, verdict)
      PROVE  BankInv'
  <2>1. /\ bank[b].status # "none"
        /\ bank'[b].status # "none"
        /\ bank[b].status = "APPROVED" => bank'[b].status = "APPROVED"
        /\ bank'[b].user = bank[b].user /\ bank'[b].sealed = bank[b].sealed
        /\ bank'[b].version = bank[b].version
        /\ bank'[b].previous = bank[b].previous
        /\ bank[b].deleted => bank'[b].deleted
        /\ \A c \in Bank \ {b} : bank'[c] = bank[c]
        /\ withdrawal' = withdrawal
    BY <1>3 DEF RemoveBank, ReviewBank, Live, WithdrawalTypeOK, BankRow
  <2>2. \A c \in Bank : bank[c].previous \in Bank \cup {Nobody}
    BY DEF WithdrawalTypeOK, BankRow
  <2>3. PaidToApprovedBank' /\ BankLinks'
    BY <2>1, <2>2 DEF BankInv, PaidToApprovedBank, BankLinks
  <2>4. BankEditsLinear'
    BY <2>1, <2>2 DEF BankInv, BankEditsLinear
  <2>5. QED
    BY <2>3, <2>4 DEF BankInv
<1>4. ASSUME NEW w \in Request, NEW amount \in Amount, NEW b \in Bank,
             CreateWithdrawal(w, amount, b)
      PROVE  BankInv'
  <2>1. /\ withdrawal'[w].bank = b
        /\ \A v \in Request \ {w} : withdrawal'[v] = withdrawal[v]
    BY <1>4 DEF CreateWithdrawal, WithdrawalTypeOK
  <2>2. PayableTo(Owner(w), b) /\ UNCHANGED bank
    BY <1>4 DEF CreateWithdrawal
  <2>3. QED
    BY <2>1, <2>2, PayeeKept
<1>5. ASSUME NEW w \in Request, NEW status \in Status, MoveTo(w, status), UNCHANGED bank,
             withdrawal[w].status # "none"
      PROVE  BankInv'
  <2>1. /\ withdrawal'[w].bank = withdrawal[w].bank
        /\ \A v \in Request \ {w} : withdrawal'[v] = withdrawal[v]
    BY <1>5 DEF MoveTo, WithdrawalTypeOK, WithdrawalRow
  <2>2. QED
    BY <1>5, <2>1, PayeeKept
<1>6. ASSUME NEW w \in Request, Transition(w)
      PROVE  BankInv'
  BY <1>5, <1>6 DEF Transition, StartProcessing, CompleteWithdrawal,
                    ReleaseWithdrawal, Allowed, Status
<1>7. QED
  BY <1>1, <1>2, <1>3, <1>4, <1>6
     DEF WithdrawalNext, withdrawalVars, Adjust, UpdateMinimum

\* The bank chains and the payees hold in every reachable state.
LEMMA BankInvAlways == WithdrawalSpec => []BankInv
<1>1. WithdrawalInit => BankInv
  BY WithdrawalConstants
     DEF WithdrawalInit, NoWithdrawal, NoBank, LegacyRow, BankInv, BankEditsLinear,
         BankLinks, PaidToApprovedBank
<1>2. QED
  BY <1>1, WithdrawalTypeCorrect, BankInvStep, PTL DEF WithdrawalSpec

\* Money only ever goes to an account its owner submitted and an admin approved
\* (the bank check of WithdrawalService.create, BankService.save and review).
THEOREM AlwaysPaidToApprovedBank == WithdrawalSpec => []PaidToApprovedBank
<1>1. BankInv => PaidToApprovedBank
  BY DEF BankInv
<1>2. QED
  BY <1>1, BankInvAlways, PTL

\* Edits of bank accounts form chains (BankService.save).
THEOREM BankEditsAlwaysLinear == WithdrawalSpec => []BankEditsLinear
<1>1. BankInv => BankEditsLinear
  BY DEF BankInv
<1>2. QED
  BY <1>1, BankInvAlways, PTL

-----------------------------------------------------------------------------
\* No withdrawal, transition or bank operation can take a user into debt: only
\* an adjustment can (the requireFunds check of WithdrawalService.create, and
\* the absence of one in adjust).
THEOREM DebtAlwaysByAdjustment == WithdrawalSpec => DebtOnlyByAdjustment
<1> DEFINE Excused == \A u \in User :
              wallet'[u].available < 0 /\ wallet'[u].available < wallet[u].available =>
                  \E row \in ledger' \ ledger :
                      row.user = u /\ row.key.kind = "adjustment"
<1>1. WithdrawalTypeOK /\ [WithdrawalNext]_withdrawalVars => [Excused]_withdrawalVars
  <2> SUFFICES ASSUME WithdrawalTypeOK, WithdrawalNext
               PROVE  Excused
    OBVIOUS
  <2>1. CASE UNCHANGED wallet
    BY <2>1 DEF WithdrawalTypeOK, Balance
  <2>2. ASSUME NEW v, NEW key, NEW available \in Int, NEW reserved,
               Post(v, key, available, reserved),
               \/ available >= 0
               \/ wallet[v].available + available >= 0
        PROVE  Excused
    <3>1. CASE UNCHANGED wallet
      BY <3>1, <2>1
    <3>2. CASE PostNew(v, key, available, reserved)
      <4>1. \A u \in User : wallet[u].available \in Int
        BY DEF WithdrawalTypeOK, Balance
      <4>2. \A u \in User : wallet'[u].available =
                IF u = v THEN wallet[u].available + available ELSE wallet[u].available
        BY <3>2 DEF PostNew, WithdrawalTypeOK, Balance
      <4>3. QED
        BY <2>2, <4>1, <4>2
    <3>3. QED
      BY <2>2, <3>1, <3>2 DEF Post, walletVars
  <2>3. ASSUME NEW w \in Request, NEW amount \in Amount, NEW b \in Bank,
               CreateWithdrawal(w, amount, b)
        PROVE  Excused
    <3>1. /\ -amount \in Int
          /\ wallet[Owner(w)].available + -amount >= 0
          /\ Post(Owner(w), ReserveKey(w), -amount, amount)
      BY <2>3, OwnerIsUser, WithdrawalConstants
         DEF CreateWithdrawal, HasFunds, WithdrawalTypeOK, Balance
    <3>2. QED
      BY <3>1, <2>2
  <2>4. ASSUME NEW w \in Request, Transition(w)
        PROVE  Excused
    <3>1. withdrawal[w].amount \in Nat
      BY DEF WithdrawalTypeOK, WithdrawalRow
    <3>2. QED
      BY <2>1, <2>2, <2>4, <3>1
         DEF Transition, StartProcessing, CompleteWithdrawal, ReleaseWithdrawal
  <2>5. ASSUME NEW v \in User, NEW a \in AdjustmentId, NEW amount \in AdjustmentAmount,
               Adjust(v, a, amount)
        PROVE  Excused
    <3>1. CASE UNCHANGED wallet
      BY <3>1, <2>1
    <3>2. CASE PostNew(v, AdjustmentKey(a), amount, 0)
      <4>1. Row(v, AdjustmentKey(a), amount, 0) \in ledger' \ ledger
        BY <3>2 DEF PostNew, Posted, Row
      <4>2. /\ Row(v, AdjustmentKey(a), amount, 0).user = v
            /\ Row(v, AdjustmentKey(a), amount, 0).key.kind = "adjustment"
        BY DEF Row, AdjustmentKey
      <4>3. \A u \in User : u # v => wallet'[u] = wallet[u]
        BY <3>2 DEF PostNew, WithdrawalTypeOK
      <4>4. QED
        BY <4>1, <4>2, <4>3 DEF WithdrawalTypeOK, Balance
    <3>3. QED
      BY <2>5, <3>1, <3>2 DEF Adjust, Post, walletVars
  <2>6. QED
    BY <2>1, <2>3, <2>4, <2>5
       DEF WithdrawalNext, SaveBank, RemoveBank, ReviewBank, UpdateMinimum
<1>2. QED
  BY <1>1, WithdrawalTypeCorrect, PTL DEF WithdrawalSpec, DebtOnlyByAdjustment

-----------------------------------------------------------------------------
\* What the withdrawals in a table hold of u's money, and what one row holds.
Holding == {"PENDING", "PROCESSING"}
HeldOf(table, u) == {w \in Request : Owner(w) = u /\ table[w].status \in Holding}
Held(table, u) == SumOf([w \in Request |-> table[w].amount], HeldOf(table, u))
HeldBy(row) == IF row.status \in Holding THEN row.amount ELSE 0

\* ReservedBacked as a sum over the table, of which only finitely many rows
\* exist.
Backed ==
    /\ WithdrawalTypeOK /\ LedgerTellsWithdrawal
    /\ IsFiniteSet({w \in Request : withdrawal[w].status # "none"})
    /\ \A u \in User : wallet[u].reserved = Held(withdrawal, u)

\* The step in which the withdrawal w becomes row and its owner's reserve
\* changes by what the row holds more, or less.
Rereserves(w, row) ==
    /\ withdrawal' = [withdrawal EXCEPT ![w] = row]
    /\ row.status # "none" /\ row.amount \in Nat
    /\ \A u \in User : wallet'[u].reserved =
          wallet[u].reserved + IF u = Owner(w) THEN HeldBy(row) - HeldBy(withdrawal[w]) ELSE 0

\* It keeps every reserve backed.
LEMMA BackedMoved ==
    ASSUME Backed, NEW w \in Request, NEW row, Rereserves(w, row)
    PROVE  /\ IsFiniteSet({v \in Request : withdrawal[v].status # "none"})'
           /\ \A u \in User : wallet'[u].reserved = Held(withdrawal', u)
<1>1. /\ \A v \in Request : withdrawal'[v] = IF v = w THEN row ELSE withdrawal[v]
      /\ \A v \in Request : withdrawal[v].amount \in Nat
      /\ row.amount \in Nat
  BY DEF Backed, Rereserves, WithdrawalTypeOK, WithdrawalRow
<1>2. IsFiniteSet({v \in Request : withdrawal'[v].status # "none"})
  <2> DEFINE S == {v \in Request : withdrawal[v].status # "none"}
             T == {v \in Request : withdrawal'[v].status # "none"}
  <2>1. IsFiniteSet(S) /\ T \subseteq S \cup {w}
    BY <1>1 DEF Backed
  <2>2. QED
    <3> HIDE DEF S, T
    <3>1. IsFiniteSet(T)
      BY <2>1, FS_AddElement, FS_Subset
    <3>2. QED
      BY <3>1 DEF T
<1>3. ASSUME NEW u \in User PROVE wallet'[u].reserved = Held(withdrawal', u)
  <2> DEFINE f == [v \in Request |-> withdrawal[v].amount]
             g == [v \in Request |-> withdrawal'[v].amount]
             S == HeldOf(withdrawal, u)
             T == HeldOf(withdrawal', u)
  <2>1. IsFiniteSet(S)
    <3>1. S \subseteq {v \in Request : withdrawal[v].status # "none"}
      BY DEF HeldOf, Holding
    <3>2. QED
      BY <3>1, FS_Subset DEF Backed
  <2>2. /\ S \ {w} = T \ {w}
        /\ \A v \in S : f[v] \in Int
        /\ \A v \in T : g[v] \in Int
        /\ \A v \in S \ {w} : f[v] = g[v]
    BY <1>1 DEF HeldOf
  <2>3. /\ (IF w \in S THEN f[w] ELSE 0) = (IF u = Owner(w) THEN HeldBy(withdrawal[w]) ELSE 0)
        /\ (IF w \in T THEN g[w] ELSE 0) = (IF u = Owner(w) THEN HeldBy(row) ELSE 0)
    BY <1>1 DEF HeldOf, HeldBy
  <2>4. /\ wallet[u].reserved = SumOf(f, S) /\ Held(withdrawal', u) = SumOf(g, T)
        /\ HeldBy(withdrawal[w]) \in Int /\ HeldBy(row) \in Int
    BY <1>1 DEF Backed, Held, HeldBy
  <2>5. SumOf(f, S) \in Int
        /\ SumOf(g, T) = SumOf(f, S) - (IF w \in S THEN f[w] ELSE 0)
                                     + (IF w \in T THEN g[w] ELSE 0)
    <3> HIDE DEF f, g, S, T
    <3>1. /\ IsFiniteSet(T) /\ SumOf(f, S) \in Int
          /\ SumOf(g, T) = SumOf(f, S) - (IF w \in S THEN f[w] ELSE 0)
                                       + (IF w \in T THEN g[w] ELSE 0)
      BY <2>1, <2>2, SumMoved
    <3>2. QED
      BY <3>1
  <2>6. wallet'[u].reserved =
          wallet[u].reserved + IF u = Owner(w) THEN HeldBy(row) - HeldBy(withdrawal[w]) ELSE 0
    BY DEF Rereserves
  <2> HIDE DEF f, g, S, T
  <2>7. QED
    BY <2>3, <2>4, <2>5, <2>6
<1>4. QED
  BY <1>2, <1>3 DEF Request

\* A posting with an unused key that reserves what the new row calls for.
LEMMA PostReserves ==
    ASSUME WithdrawalTypeOK, NEW w \in Request, NEW row, NEW key, NEW available \in Int,
           NEW reserved \in Int,
           Post(Owner(w), key, available, reserved), RowsWith(key) = {},
           reserved = HeldBy(row) - HeldBy(withdrawal[w])
    PROVE  \A u \in User : wallet'[u].reserved =
             wallet[u].reserved + IF u = Owner(w) THEN HeldBy(row) - HeldBy(withdrawal[w]) ELSE 0
<1>1. PostNew(Owner(w), key, available, reserved)
  BY DEF Post, RowsWith, Row
<1>2. \A u \in User : wallet'[u].reserved =
          IF u = Owner(w) THEN wallet[u].reserved + reserved ELSE wallet[u].reserved
  BY <1>1 DEF PostNew, WithdrawalTypeOK, Balance
<1>3. \A u \in User : wallet[u].reserved \in Int
  BY DEF WithdrawalTypeOK, Balance
<1>4. QED
  BY <1>2, <1>3

\* Every operation reserves what it opens and gives up what it closes.
LEMMA BackedStep == Backed /\ [WithdrawalNext]_withdrawalVars => Backed'
<1> SUFFICES ASSUME Backed, [WithdrawalNext]_withdrawalVars PROVE Backed'
  OBVIOUS
<1>1. WithdrawalTypeOK' /\ LedgerTellsWithdrawal'
  BY StepTyped, LedgerStoryStep DEF Backed
<1>2. SUFFICES /\ IsFiniteSet({v \in Request : withdrawal[v].status # "none"})'
               /\ \A u \in User : wallet'[u].reserved = Held(withdrawal', u)
  BY <1>1 DEF Backed, Held, HeldOf, Holding, Request, Owner
<1>3. CASE UNCHANGED withdrawal /\ \A u \in User : wallet'[u].reserved = wallet[u].reserved
  BY <1>3 DEF Backed, Request
<1>4. ASSUME NEW w \in Request, NEW row, Rereserves(w, row)
      PROVE  /\ IsFiniteSet({v \in Request : withdrawal[v].status # "none"})'
             /\ \A u \in User : wallet'[u].reserved = Held(withdrawal', u)
  BY <1>4, BackedMoved
<1>5. ASSUME NEW w \in Request, NEW amount \in Amount, NEW b \in Bank,
             CreateWithdrawal(w, amount, b)
      PROVE  \E row : Rereserves(w, row)
  <2>1. PICK row : row = [status |-> "PENDING", amount |-> amount, bank |-> b,
                          history |-> <<"PENDING">>]
    OBVIOUS
  <2>2. /\ withdrawal' = [withdrawal EXCEPT ![w] = row] /\ withdrawal[w].status = "none"
        /\ Post(Owner(w), ReserveKey(w), -amount, amount)
        /\ amount \in Nat /\ -amount \in Int
    BY <1>5, <2>1, WithdrawalConstants DEF CreateWithdrawal
  <2>3. RowsWith(ReserveKey(w)) = {}
    BY <2>2 DEF Backed, LedgerTellsWithdrawal, ReserveRows
  <2>4. amount = HeldBy(row) - HeldBy(withdrawal[w])
    BY <2>1, <2>2 DEF HeldBy, Holding
  <2>5. \A u \in User : wallet'[u].reserved =
          wallet[u].reserved + IF u = Owner(w) THEN HeldBy(row) - HeldBy(withdrawal[w]) ELSE 0
    BY <2>2, <2>3, <2>4, PostReserves DEF Backed
  <2>6. QED
    BY <2>1, <2>2, <2>5 DEF Rereserves
<1>6. ASSUME NEW w \in Request, NEW status \in Status, MoveTo(w, status)
      PROVE  \E row : /\ withdrawal' = [withdrawal EXCEPT ![w] = row]
                      /\ row.status = status /\ row.amount = withdrawal[w].amount
  <2>1. PICK row : row = [withdrawal[w] EXCEPT !.status = status, !.history = Append(@, status)]
    OBVIOUS
  <2>2. withdrawal' = [withdrawal EXCEPT ![w] = row]
    BY <1>6, <2>1 DEF MoveTo, Backed, WithdrawalTypeOK
  <2>3. row.status = status /\ row.amount = withdrawal[w].amount
    BY <2>1 DEF Backed, WithdrawalTypeOK, WithdrawalRow
  <2>4. QED
    BY <2>2, <2>3
<1>7. ASSUME NEW w \in Request, StartProcessing(w)
      PROVE  \E row : Rereserves(w, row)
  <2>1. MoveTo(w, "PROCESSING") /\ withdrawal[w].status = "PENDING" /\ UNCHANGED wallet
    BY <1>7 DEF StartProcessing, Allowed
  <2>2. PICK row : /\ withdrawal' = [withdrawal EXCEPT ![w] = row]
                   /\ row.status = "PROCESSING" /\ row.amount = withdrawal[w].amount
    BY <1>6, <2>1 DEF Status
  <2>3. withdrawal[w].amount \in Nat /\ \A u \in User : wallet[u].reserved \in Int
    BY DEF Backed, WithdrawalTypeOK, WithdrawalRow, Balance
  <2>4. HeldBy(row) - HeldBy(withdrawal[w]) = 0
    BY <2>1, <2>2, <2>3 DEF HeldBy, Holding
  <2>5. \A u \in User : wallet'[u].reserved =
          wallet[u].reserved + IF u = Owner(w) THEN HeldBy(row) - HeldBy(withdrawal[w]) ELSE 0
    BY <2>1, <2>3, <2>4
  <2>6. row.status # "none" /\ row.amount \in Nat
    BY <2>2, <2>3
  <2>7. QED
    BY <2>2, <2>5, <2>6 DEF Rereserves
<1>8. ASSUME NEW w \in Request, NEW status \in Final, NEW available \in Int,
             withdrawal[w].status \in Holding, MoveTo(w, status),
             Post(Owner(w), FinalizeKey(w), available, -withdrawal[w].amount)
      PROVE  \E row : Rereserves(w, row)
  <2>1. PICK row : /\ withdrawal' = [withdrawal EXCEPT ![w] = row]
                   /\ row.status = status /\ row.amount = withdrawal[w].amount
    BY <1>6, <1>8 DEF Status, Final
  <2>2. withdrawal[w].amount \in Nat /\ -withdrawal[w].amount \in Int
    BY DEF Backed, WithdrawalTypeOK, WithdrawalRow
  <2>3. RowsWith(FinalizeKey(w)) = {}
    BY <1>8 DEF Backed, LedgerTellsWithdrawal, FinalizeRows, Holding
  <2>4. -withdrawal[w].amount = HeldBy(row) - HeldBy(withdrawal[w])
    BY <1>8, <2>1, <2>2 DEF HeldBy, Holding, Final
  <2>5. \A u \in User : wallet'[u].reserved =
          wallet[u].reserved + IF u = Owner(w) THEN HeldBy(row) - HeldBy(withdrawal[w]) ELSE 0
    BY <1>8, <2>2, <2>3, <2>4, PostReserves DEF Backed
  <2>6. QED
    BY <2>1, <2>2, <2>5 DEF Rereserves, Final
<1>9. ASSUME NEW w \in Request, Transition(w)
      PROVE  \E row : Rereserves(w, row)
  <2>1. withdrawal[w].amount \in Int
    BY DEF Backed, WithdrawalTypeOK, WithdrawalRow
  <2>2. CASE CompleteWithdrawal(w)
    <3>1. /\ MoveTo(w, "COMPLETED") /\ withdrawal[w].status \in Holding
          /\ Post(Owner(w), FinalizeKey(w), 0, -withdrawal[w].amount)
      BY <2>2 DEF CompleteWithdrawal, Allowed, Holding
    <3>2. QED
      BY <1>8, <3>1 DEF Final
  <2>3. ASSUME NEW status \in {"REJECTED", "FAILED"}, ReleaseWithdrawal(w, status)
        PROVE  \E row : Rereserves(w, row)
    <3>1. /\ MoveTo(w, status) /\ withdrawal[w].status \in Holding
          /\ Post(Owner(w), FinalizeKey(w), withdrawal[w].amount, -withdrawal[w].amount)
      BY <2>3 DEF ReleaseWithdrawal, Allowed, Holding
    <3>2. status \in Final
      BY DEF Final
    <3>3. QED
      BY <1>8, <2>1, <3>1, <3>2
  <2>4. QED
    BY <1>7, <1>9, <2>2, <2>3 DEF Transition
<1>10. ASSUME NEW u \in User, NEW a \in AdjustmentId, NEW amount \in AdjustmentAmount,
              Adjust(u, a, amount)
       PROVE  UNCHANGED withdrawal /\ \A v \in User : wallet'[v].reserved = wallet[v].reserved
  BY <1>10 DEF Adjust, Post, PostNew, walletVars, Backed, WithdrawalTypeOK, Balance
<1>11. QED
  BY <1>3, <1>4, <1>5, <1>9, <1>10
     DEF WithdrawalNext, SaveBank, RemoveBank, ReviewBank, UpdateMinimum, withdrawalVars

\* Money set aside is the money of the open withdrawals at every moment, for
\* every interleaving of requests, replays, transitions and adjustments
\* (WithdrawalService.create and transition, WalletService.post).
THEOREM AlwaysReservedBacked == WithdrawalSpec => []ReservedBacked
<1>1. WithdrawalInit => Backed
  <2> SUFFICES ASSUME WithdrawalInit PROVE Backed
    OBVIOUS
  <2>1. /\ withdrawal = [w \in Request |-> NoWithdrawal] /\ ledger = {}
        /\ wallet = [u \in User |-> [available |-> 0, reserved |-> 0]]
    BY DEF WithdrawalInit, WalletInit
  <2>2. \A u \in User : HeldOf(withdrawal, u) = {}
    BY <2>1 DEF HeldOf, Holding, NoWithdrawal
  <2>3. \A u \in User : Held(withdrawal, u) = 0
    BY <2>2, FS_EmptySet, SumRec DEF Held
  <2>4. {w \in Request : withdrawal[w].status # "none"} = {}
    BY <2>1 DEF NoWithdrawal
  <2>5. LedgerTellsWithdrawal
    BY <2>1 DEF LedgerTellsWithdrawal, RowsWith, ReserveRows, FinalizeRows, NoWithdrawal
  <2>6. QED
    BY <2>1, <2>3, <2>4, <2>5, InitTyped, FS_EmptySet DEF Backed
<1>2. Backed => ReservedBacked
  <2> SUFFICES ASSUME Backed, NEW u \in User
               PROVE  wallet[u].reserved =
                        MapThenSumSet(LAMBDA w : withdrawal[w].amount, OpenWithdrawals(u))
    BY DEF ReservedBacked
  <2> DEFINE f == [w \in Request |-> withdrawal[w].amount]
             S == HeldOf(withdrawal, u)
  <2>1. OpenWithdrawals(u) = S /\ \A w \in S : f[w] = withdrawal[w].amount
    BY DEF OpenWithdrawals, HeldOf, Holding
  <2>2. MapThenSumSet(LAMBDA w : withdrawal[w].amount, S) = SumOf(f, S)
    <3> HIDE DEF f, S
    <3>1. QED
      BY <2>1, AmountSum
  <2>3. wallet[u].reserved = SumOf(f, S)
    BY DEF Backed, Held
  <2>4. QED
    BY <2>1, <2>2, <2>3
<1>3. QED
  BY <1>1, <1>2, BackedStep, PTL DEF WithdrawalSpec
=============================================================================
