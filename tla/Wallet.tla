------------------------------- MODULE Wallet -------------------------------
(***************************************************************************)
(* The wallet of every user and the append-only ledger behind it: the      *)
(* state of WalletService (finance/wallet.service.ts) and its single       *)
(* operation, post, which every money movement of the backend goes         *)
(* through.  post runs inside a caller's Serializable transaction, so here *)
(* it is an action that the callers conjoin with their own updates; a      *)
(* thrown conflict aborts the whole transaction and is a disabled action.  *)
(*                                                                         *)
(* The id inside an idempotency key ("reserve:" + withdrawal.id, ...) is   *)
(* also the row's reference, so rows carry the key alone.  A wallet that   *)
(* was never upserted is a wallet with two zeros.                          *)
(***************************************************************************)
EXTENDS Integers, FiniteSetsExt

CONSTANT User

VARIABLES
    wallet,     \* wallet[u]: the cached balances of u
    ledger      \* the wallet transactions, a set of rows unique by key

walletVars == <<wallet, ledger>>

Balance == [available : Int, reserved : Nat]

\* The ledger rows whose idempotency keys are in K.
RowOf(K) == [key : K, user : User, available : Int, reserved : Int]

WalletInit ==
    /\ wallet = [u \in User |-> [available |-> 0, reserved |-> 0]]
    /\ ledger = {}

-----------------------------------------------------------------------------
\* The idempotency keys of the five kinds of movement.
ReserveKey(w)    == [kind |-> "reserve",    id |-> w]
FinalizeKey(w)   == [kind |-> "finalize",   id |-> w]
AdjustmentKey(a) == [kind |-> "adjustment", id |-> a]
SettlementKey(c) == [kind |-> "settlement", id |-> c]
ReversalKey(c)   == [kind |-> "reversal",   id |-> c]

Row(u, key, available, reserved) ==
    [key |-> key, user |-> u, available |-> available, reserved |-> reserved]

Posted(key) == \E row \in ledger : row.key = key

\* Mutant of PostNew: the reserve moves the wrong way.
PostNewFlipped(u, key, available, reserved) ==
    /\ ~Posted(key)
    /\ wallet[u].reserved + reserved >= 0
    /\ wallet' = [wallet EXCEPT ![u] =
                     [available |-> @.available + available,
                      reserved  |-> @.reserved - reserved]]
    /\ ledger' = ledger \cup {Row(u, key, available, reserved)}

(***************************************************************************)
(* A known key with the same movement is a replay and changes nothing; a   *)
(* known key with another movement is IDEMPOTENCY_KEY_REUSED; a movement   *)
(* that would leave a negative reserve is INVALID_RESERVED_BALANCE.  The   *)
(* available balance may become negative: only callers that pass           *)
(* requireFunds refuse that.                                               *)
(***************************************************************************)
PostNew(u, key, available, reserved) ==
    /\ ~Posted(key)
    /\ wallet[u].reserved + reserved >= 0
    /\ wallet' = [wallet EXCEPT ![u] =
                     [available |-> @.available + available,
                      reserved  |-> @.reserved + reserved]]
    /\ ledger' = ledger \cup {Row(u, key, available, reserved)}

Post(u, key, available, reserved) ==
    \/ /\ Row(u, key, available, reserved) \in ledger
       /\ UNCHANGED walletVars
    \/ PostNew(u, key, available, reserved)

(***************************************************************************)
(* The posts of one transaction that makes several.  They leave every      *)
(* reserve alone, so the order in which they are made does not matter.     *)
(***************************************************************************)
PostAll(rows) ==
    /\ \A row \in rows : Posted(row.key) => row \in ledger
    /\ wallet' = [u \in User |->
          [wallet[u] EXCEPT !.available = @ +
              MapThenSumSet(LAMBDA row : row.available,
                            {row \in rows \ ledger : row.user = u})]]
    /\ ledger' = ledger \cup rows

\* Mutant of HasFunds: money already set aside counts as spendable.
HasFundsWithReserve(u, amount) ==
    wallet[u].available + wallet[u].reserved >= amount

HasFunds(u, amount) == wallet[u].available >= amount

-----------------------------------------------------------------------------
\* What the rows of one user add up to.
SumAvailable(u) ==
    MapThenSumSet(LAMBDA row : row.available, {row \in ledger : row.user = u})
SumReserved(u) ==
    MapThenSumSet(LAMBDA row : row.reserved, {row \in ledger : row.user = u})

\* The ledger explains every balance: the sums of the rows are the cached
\* balances (the ledgerBalanced check of GET health, finance-query.service.ts).
LedgerBalanced ==
    \A u \in User : wallet[u] = [available |-> SumAvailable(u),
                                 reserved  |-> SumReserved(u)]
=============================================================================
