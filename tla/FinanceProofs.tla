---------------------------- MODULE FinanceProofs ----------------------------
(***************************************************************************)
(* What the two halves of the money promise together, for any users,       *)
(* checkouts, withdrawals, adjustments and amounts: the books agree, no    *)
(* transfer starts for money that was lost, and everything together        *)
(* implements the account a user sees.  The argument is one invariant,     *)
(* FinanceInv, over sums of rows (Sums).  The pages shown of it agree by a *)
(* second one, PagesInv, which adds the rows that each order and each      *)
(* withdrawal has.                                                         *)
(***************************************************************************)
EXTENDS Pages, SettlementProofs

\* The keys of all movements.
AnyKey == CreditKey \cup W!MoneyKey

\* All rows there may be, and the ones of one user.
Rows == RowOf(AnyKey)

RowsOf(S, u) == {row \in S : row.user = u}

\* The reserved amounts of some rows, added up.
Reserves(S) == SumOf([row \in S |-> row.reserved], S)

\* Reserved amounts add up as available ones do (AmountsInt).
LEMMA ReservesInt ==
    ASSUME NEW S, IsFiniteSet(S), S \subseteq Rows
    PROVE  /\ Reserves(S) \in Int
           /\ MapThenSumSet(LAMBDA row : row.reserved, S) = Reserves(S)
<1> DEFINE f == [row \in S |-> row.reserved]
<1>1. \A row \in S : f[row] = row.reserved /\ f[row] \in Int
    BY DEF Rows, RowOf
<1>2. MapThenSumSet(LAMBDA x : x.reserved, S) = SumOf(f, S)
    <2> HIDE DEF f
    <2> QED  BY <1>1, ReservedSum
<1>3. SumOf(f, S) \in Int
    <2> HIDE DEF f
    <2> QED  BY <1>1, SumInt
<1> QED  BY <1>2, <1>3 DEF Reserves

\* Two parts of the ledger add up.
LEMMA AmountsAdd ==
    ASSUME NEW S, IsFiniteSet(S), S \subseteq Rows,
           NEW T, IsFiniteSet(T), T \subseteq Rows, S \cap T = {}
    PROVE  /\ Amounts(S \cup T) = Amounts(S) + Amounts(T)
           /\ Reserves(S \cup T) = Reserves(S) + Reserves(T)
<1> DEFINE f == [row \in S \cup T |-> row.available]
           g == [row \in S \cup T |-> row.reserved]
<1>1. \A row \in S \cup T : f[row] \in Int /\ g[row] \in Int
    BY DEF Rows, RowOf
<1>2. /\ SumOf(f, S \cup T) = SumOf(f, S) + SumOf(f, T)
      /\ SumOf(g, S \cup T) = SumOf(g, S) + SumOf(g, T)
    <2> HIDE DEF f, g
    <2> QED  BY <1>1, SumUnion
<1>3. /\ SumOf(f, S) = Amounts(S) /\ SumOf(f, T) = Amounts(T)
      /\ SumOf(g, S) = Reserves(S) /\ SumOf(g, T) = Reserves(T)
    <2> DEFINE fs == [row \in S |-> row.available]
               ft == [row \in T |-> row.available]
               gs == [row \in S |-> row.reserved]
               gt == [row \in T |-> row.reserved]
    <2>1. /\ \A row \in S : f[row] = fs[row] /\ g[row] = gs[row]
          /\ \A row \in T : f[row] = ft[row] /\ g[row] = gt[row]
        OBVIOUS
    <2>2. /\ SumOf(f, S) = SumOf(fs, S) /\ SumOf(f, T) = SumOf(ft, T)
          /\ SumOf(g, S) = SumOf(gs, S) /\ SumOf(g, T) = SumOf(gt, T)
        <3> HIDE DEF f, g, fs, ft, gs, gt
        <3> QED  BY <2>1, SumSame
    <2> QED  BY <2>2 DEF Amounts, Reserves
<1> QED  BY <1>2, <1>3 DEF Amounts, Reserves

\* One row moves what it says, ...
LEMMA AmountsOne ==
    ASSUME NEW row \in Rows
    PROVE  Amounts({row}) = row.available /\ Reserves({row}) = row.reserved
<1> DEFINE f == [r \in {row} |-> r.available]
           g == [r \in {row} |-> r.reserved]
<1>1. f[row] = row.available /\ g[row] = row.reserved /\ f[row] \in Int /\ g[row] \in Int
    BY DEF Rows, RowOf
<1>2. IsFiniteSet({row}) /\ IsFiniteSet({})
    BY FS_EmptySet, FS_Singleton
<1>3. {row} \ {row} = {}
    OBVIOUS
<1>4. SumOf(f, {row}) = f[row] + SumOf(f, {}) /\ SumOf(g, {row}) = g[row] + SumOf(g, {})
    <2> HIDE DEF f, g
    <2> QED  BY <1>1, <1>2, <1>3, SumTake
<1>5. SumOf(f, {}) = 0 /\ SumOf(g, {}) = 0
    <2> HIDE DEF f, g
    <2> QED  BY <1>2, SumRec
<1> QED  BY <1>1, <1>4, <1>5 DEF Amounts, Reserves

\* ... and none moves nothing.
LEMMA AmountsNone == Amounts({}) = 0 /\ Reserves({}) = 0
<1>1. \A f : SumOf(f, {}) = 0
    BY FS_EmptySet, SumRec
<1> QED  BY <1>1 DEF Amounts, Reserves

-----------------------------------------------------------------------------
\* The ledger and the wallets by themselves.
Accounts ==
    /\ IsFiniteSet(ledger) /\ ledger \subseteq Rows
    /\ wallet \in [User -> [available : Int, reserved : Int]]
    /\ \A u \in User : /\ wallet[u].available = Amounts(RowsOf(ledger, u))
                       /\ wallet[u].reserved = Reserves(RowsOf(ledger, u))

\* New rows arrive in the ledger and move the wallets.
Moves(rows) ==
    /\ IsFiniteSet(rows) /\ rows \subseteq Rows /\ rows \cap ledger = {}
    /\ ledger' = ledger \cup rows
    /\ wallet' = [u \in User |->
          [available |-> wallet[u].available + Amounts(RowsOf(rows, u)),
           reserved  |-> wallet[u].reserved + Reserves(RowsOf(rows, u))]]

\* The rows of one user are some of the rows.
LEMMA PartFinite ==
    ASSUME NEW S, IsFiniteSet(S), S \subseteq Rows, NEW u
    PROVE  IsFiniteSet(RowsOf(S, u)) /\ RowsOf(S, u) \subseteq Rows
BY FS_Subset DEF RowsOf

\* Movements keep every balance the sum of its rows.
LEMMA AccountsMoved ==
    ASSUME Accounts, NEW rows, Moves(rows)
    PROVE  Accounts'
<1>1. IsFiniteSet(ledger') /\ ledger' \subseteq Rows
    BY FS_Union DEF Accounts, Moves
<1>2. ASSUME NEW u \in User
      PROVE  /\ wallet'[u].available = Amounts(RowsOf(ledger', u))
             /\ wallet'[u].reserved = Reserves(RowsOf(ledger', u))
             /\ wallet'[u] \in [available : Int, reserved : Int]
    <2> DEFINE old == RowsOf(ledger, u)
               new == RowsOf(rows, u)
    <2>1. IsFiniteSet(old) /\ old \subseteq Rows /\ IsFiniteSet(new) /\ new \subseteq Rows
        BY PartFinite DEF Accounts, Moves
    <2>2. old \cap new = {} /\ RowsOf(ledger', u) = old \cup new
        BY DEF Moves, RowsOf
    <2>3. /\ Amounts(old \cup new) = Amounts(old) + Amounts(new)
          /\ Reserves(old \cup new) = Reserves(old) + Reserves(new)
          /\ Amounts(new) \in Int /\ Reserves(new) \in Int
        <3> HIDE DEF old, new
        <3> QED  BY <2>1, <2>2, AmountsAdd, AmountsInt, ReservesInt DEF Rows
    <2>4. wallet'[u].available = wallet[u].available + Amounts(new)
          /\ wallet'[u].reserved = wallet[u].reserved + Reserves(new)
          /\ wallet'[u] = [available |-> wallet'[u].available, reserved |-> wallet'[u].reserved]
        BY DEF Moves
    <2>5. wallet[u].available = Amounts(old) /\ wallet[u].reserved = Reserves(old)
          /\ wallet[u] \in [available : Int, reserved : Int]
        BY DEF Accounts
    <2> HIDE DEF old, new
    <2> QED  BY <2>2, <2>3, <2>4, <2>5
<1>3. wallet' \in [User -> [available : Int, reserved : Int]]
    BY <1>2 DEF Moves
<1> QED  BY <1>1, <1>2, <1>3 DEF Accounts, Rows, RowsOf, Amounts, Reserves

\* The balances are the sums of the ledger.
LEMMA AccountsBalanced == Accounts => LedgerBalanced
<1> SUFFICES ASSUME Accounts, NEW u \in User
             PROVE  wallet[u] = [available |-> SumAvailable(u), reserved |-> SumReserved(u)]
    BY DEF LedgerBalanced
<1> DEFINE S == RowsOf(ledger, u)
<1>1. IsFiniteSet(S) /\ S \subseteq Rows
    BY PartFinite DEF Accounts
<1>2. /\ MapThenSumSet(LAMBDA row : row.available, S) = Amounts(S)
      /\ MapThenSumSet(LAMBDA row : row.reserved, S) = Reserves(S)
    <2> HIDE DEF S
    <2> QED  BY <1>1, AmountsInt, ReservesInt DEF Rows
<1>3. SumAvailable(u) = Amounts(S) /\ SumReserved(u) = Reserves(S)
    BY <1>2 DEF SumAvailable, SumReserved, RowsOf
<1>4. wallet[u] \in [available : Int, reserved : Int]
      /\ wallet[u].available = Amounts(S) /\ wallet[u].reserved = Reserves(S)
    BY DEF Accounts
<1> HIDE DEF S
<1> QED  BY <1>3, <1>4

\* One new row (WalletService.post).
LEMMA PostNewMoves ==
    ASSUME Accounts, NEW u \in User, NEW key \in AnyKey, NEW available \in Int,
           NEW reserved \in Int, W!PostNew(u, key, available, reserved)
    PROVE  Moves({Row(u, key, available, reserved)})
<1> DEFINE row == Row(u, key, available, reserved)
<1>1. row \in Rows /\ row.user = u /\ row.available = available /\ row.reserved = reserved
    BY DEF Row, Rows, RowOf
<1>2. ledger' = ledger \cup {row} /\ row \notin ledger
    BY DEF W!PostNew, W!Row, W!Posted, Row
<1>3. ASSUME NEW v \in User
      PROVE  wallet'[v] = [available |-> wallet[v].available + Amounts(RowsOf({row}, v)),
                           reserved  |-> wallet[v].reserved + Reserves(RowsOf({row}, v))]
    <2>0. /\ wallet[v] \in [available : Int, reserved : Int]
          /\ wallet \in [User -> [available : Int, reserved : Int]]
        BY DEF Accounts
    <2>1. CASE v = u
        <3>1. RowsOf({row}, v) = {row}
            BY <1>1, <2>1 DEF RowsOf
        <3>2. Amounts({row}) = available /\ Reserves({row}) = reserved
            <4> HIDE DEF row
            <4> QED  BY <1>1, AmountsOne
        <3>3. wallet'[u] = [available |-> wallet[u].available + available,
                            reserved |-> wallet[u].reserved + reserved]
            BY <2>0 DEF W!PostNew
        <3> HIDE DEF row
        <3> QED  BY <2>1, <3>1, <3>2, <3>3
    <2>2. CASE v # u
        <3>1. RowsOf({row}, v) = {}
            BY <1>1, <2>2 DEF RowsOf
        <3>2. wallet'[v] = wallet[v]
            BY <2>0, <2>2 DEF W!PostNew
        <3> HIDE DEF row
        <3> QED  BY <2>0, <3>1, <3>2, AmountsNone
    <2> QED  BY <2>1, <2>2
<1>4. wallet' = [v \in User |-> wallet'[v]]
    BY DEF Accounts, W!PostNew
<1>5. IsFiniteSet({row})
    BY FS_Singleton
<1> HIDE DEF row
<1>6. Moves({row})
    BY <1>1, <1>2, <1>3, <1>4, <1>5 DEF Moves
<1> QED  BY <1>6 DEF row

\* A step that leaves wallets and ledger alone moves no rows.
LEMMA NothingMoves ==
    ASSUME Accounts, UNCHANGED <<wallet, ledger>>
    PROVE  Moves({})
<1>1. RowsOf({}, 0) = {} /\ \A u : RowsOf({}, u) = {}
    BY DEF RowsOf
<1>2. \A u \in User : wallet[u] = [available |-> wallet[u].available + 0,
                                  reserved |-> wallet[u].reserved + 0]
    BY DEF Accounts
<1> QED  BY <1>1, <1>2, AmountsNone, FS_EmptySet DEF Moves, Accounts

\* The rows of one transaction (PostAll), which leave the reserves alone.
LEMMA PostAllMoves ==
    ASSUME Accounts, NEW rows, Movements(rows), PostAll(rows)
    PROVE  Moves(rows \ ledger)
<1> DEFINE new == rows \ ledger
<1>1. IsFiniteSet(new) /\ new \subseteq Rows /\ new \cap ledger = {} /\ \A row \in new : row.reserved = 0
    BY FS_Subset DEF Movements, Rows, RowOf, AnyKey
<1>2. ledger' = ledger \cup new
    BY DEF PostAll
<1>3. ASSUME NEW u \in User
      PROVE  wallet'[u] = [available |-> wallet[u].available + Amounts(RowsOf(new, u)),
                           reserved  |-> wallet[u].reserved + Reserves(RowsOf(new, u))]
    <2> DEFINE part == RowsOf(new, u)
    <2>1. IsFiniteSet(part) /\ part \subseteq Rows
        <3> HIDE DEF new
        <3> QED  BY <1>1, PartFinite
    <2>2. wallet'[u] = [wallet[u] EXCEPT !.available =
                           @ + MapThenSumSet(LAMBDA row : row.available, part)]
        BY DEF PostAll, RowsOf
    <2>3. MapThenSumSet(LAMBDA row : row.available, part) = Amounts(part)
        <3> HIDE DEF part
        <3> QED  BY <2>1, AmountsInt DEF Rows
    <2>4. Reserves(part) = 0
        <3> DEFINE f == [row \in part |-> row.reserved]
        <3>1. \A row \in part : f[row] = 0
            BY <1>1 DEF RowsOf
        <3> HIDE DEF f, part
        <3>2. SumOf(f, part) = 0
            BY <2>1, <3>1, SumZero
        <3> QED  BY <3>2 DEF f, Reserves
    <2>5. wallet[u] \in [available : Int, reserved : Int]
        BY DEF Accounts
    <2>6. wallet'[u] = [wallet[u] EXCEPT !.available = wallet[u].available + Amounts(part)]
        <3> HIDE DEF part
        <3> QED  BY <2>2, <2>3
    <2> HIDE DEF part
    <2> QED  BY <2>4, <2>5, <2>6 DEF part
<1>4. wallet' = [u \in User |-> wallet'[u]]
    BY DEF PostAll
<1> HIDE DEF new
<1>5. Moves(new)
    BY <1>1, <1>2, <1>3, <1>4 DEF Moves
<1> QED  BY <1>5 DEF new

-----------------------------------------------------------------------------
\* The withdrawals: their statuses and amounts, and that only finitely many
\* exist.
WithdrawalShape(row) ==
    row \in [status : W!Status \cup {"none"}, amount : Nat, bank : {row.bank},
             history : {row.history}]

Requests ==
    /\ withdrawal = [w \in W!Request |-> withdrawal[w]]
    /\ \A w \in W!Request : WithdrawalShape(withdrawal[w])
    /\ IsFiniteSet({w \in W!Request : withdrawal[w].status # "none"})

\* Requested as a function of the table.
Chosen(table, u, statuses) ==
    {w \in W!Request : W!Owner(w) = u /\ table[w].status \in statuses}
Asked(table, u, statuses) ==
    SumOf([w \in W!Request |-> table[w].amount], Chosen(table, u, statuses))

\* It is Requested, before a step and after it.
LEMMA RequestedAsked ==
    \A u, statuses : /\ Requested(u, statuses) = Asked(withdrawal, u, statuses)
                     /\ Requested(u, statuses)' = Asked(withdrawal', u, statuses)
<1>1. ASSUME NEW table, NEW u, NEW statuses
      PROVE  MapThenSumSet(LAMBDA w : table[w].amount, Chosen(table, u, statuses))
                = Asked(table, u, statuses)
    <2> DEFINE f == [w \in W!Request |-> table[w].amount]
               S == Chosen(table, u, statuses)
    <2>1. \A w \in S : f[w] = table[w].amount
        BY DEF Chosen
    <2>2. MapThenSumSet(LAMBDA w : table[w].amount, S) = SumOf(f, S)
        <3> HIDE DEF f, S
        <3> QED  BY <2>1, AmountSum
    <2> QED  BY <2>2 DEF Asked
<1> SUFFICES ASSUME NEW u, NEW statuses
             PROVE  /\ Requested(u, statuses) = Asked(withdrawal, u, statuses)
                    /\ Requested(u, statuses)' = Asked(withdrawal', u, statuses)
    OBVIOUS
<1>2. /\ WithdrawalsOf(u, statuses) = Chosen(withdrawal, u, statuses)
      /\ WithdrawalsOf(u, statuses)' = Chosen(withdrawal', u, statuses)
    BY DEF WithdrawalsOf, Chosen, W!Request, W!Owner
<1>3. Requested(u, statuses) =
        MapThenSumSet(LAMBDA w : withdrawal[w].amount, Chosen(withdrawal, u, statuses))
    BY <1>2 DEF Requested
<1>4. Requested(u, statuses)' =
        MapThenSumSet(LAMBDA w : withdrawal'[w].amount, Chosen(withdrawal', u, statuses))
    BY <1>2 DEF Requested, MapThenSumSet, MapThenFoldSet
<1> QED  BY <1>1, <1>3, <1>4

\* What a withdrawal w with this row adds to Asked.
Portion(row, w, u, statuses) ==
    IF W!Owner(w) = u /\ row.status \in statuses THEN row.amount ELSE 0

\* The table new is the table with another row w.
Rewritten(table, new, w, row) ==
    /\ \A v \in W!Request : table[v].amount \in Nat
    /\ IsFiniteSet({v \in W!Request : table[v].status # "none"})
    /\ w \in W!Request /\ row.amount \in Nat
    /\ \A v \in W!Request : new[v] = IF v = w THEN row ELSE table[v]

\* Writing one withdrawal changes the sums by its amount.
LEMMA AskedChanged ==
    ASSUME NEW table, NEW new, NEW w, NEW row, Rewritten(table, new, w, row),
           NEW u, NEW statuses, "none" \notin statuses
    PROVE  /\ Asked(table, u, statuses) \in Nat
           /\ Asked(new, u, statuses) = Asked(table, u, statuses)
                 - Portion(table[w], w, u, statuses) + Portion(row, w, u, statuses)
<1> DEFINE f == [v \in W!Request |-> table[v].amount]
           g == [v \in W!Request |-> new[v].amount]
           S == Chosen(table, u, statuses)
           T == Chosen(new, u, statuses)
<1>0. /\ \A v \in W!Request : table[v].amount \in Nat
      /\ IsFiniteSet({v \in W!Request : table[v].status # "none"})
      /\ w \in W!Request /\ row.amount \in Nat
      /\ \A v \in W!Request : new[v] = IF v = w THEN row ELSE table[v]
    BY DEF Rewritten
<1>1. /\ \A v \in W!Request : f[v] \in Nat /\ g[v] \in Nat /\ (v # w => f[v] = g[v])
      /\ f[w] = table[w].amount /\ g[w] = row.amount
    BY <1>0
<1>2. S \subseteq W!Request /\ T \subseteq W!Request /\ S \ {w} = T \ {w}
    BY <1>0 DEF Chosen
<1>3. IsFiniteSet(S)
    <2>1. S \subseteq {v \in W!Request : table[v].status # "none"}
        BY DEF Chosen
    <2> QED  BY <1>0, <2>1, FS_Subset
<1>4. /\ Portion(table[w], w, u, statuses) = (IF w \in S THEN f[w] ELSE 0)
      /\ Portion(row, w, u, statuses) = (IF w \in T THEN g[w] ELSE 0)
    BY <1>0, <1>1 DEF Chosen, Portion
<1>5. /\ \A v \in S : f[v] \in Int /\ f[v] >= 0
      /\ \A v \in T : g[v] \in Int
      /\ \A v \in S \ {w} : f[v] = g[v]
    BY <1>1, <1>2
<1>6. Asked(table, u, statuses) = SumOf(f, S) /\ Asked(new, u, statuses) = SumOf(g, T)
    BY DEF Asked
<1> HIDE DEF f, g, S, T
<1>7. SumOf(f, S) \in Int /\ SumOf(f, S) >= 0
    BY <1>3, <1>5, SumInt
<1>8. SumOf(g, T) = SumOf(f, S) - (IF w \in S THEN f[w] ELSE 0) + (IF w \in T THEN g[w] ELSE 0)
    BY <1>2, <1>3, <1>5, SumMoved
<1> QED  BY <1>4, <1>6, <1>7, <1>8

-----------------------------------------------------------------------------
\* What u was credited for the commissions in the tables com and cb.
PaidTo(com, cb, u) == {c \in Checkout : com[c].user = u /\ cb[c].state = "AVAILABLE"}
Credited(com, cb, u) == SumOf([c \in Checkout |-> cb[c].user], PaidTo(com, cb, u))

\* It is EarnedCashback, before a step and after it.
LEMMA EarnedCredited ==
    \A u : /\ EarnedCashback(u) = Credited(commission, cashback, u)
           /\ EarnedCashback(u)' = Credited(commission', cashback', u)
<1>1. ASSUME NEW com, NEW cb, NEW u
      PROVE  MapThenSumSet(LAMBDA c : cb[c].user, PaidTo(com, cb, u)) = Credited(com, cb, u)
    <2> DEFINE f == [c \in Checkout |-> cb[c].user]
               S == PaidTo(com, cb, u)
    <2>1. \A c \in S : f[c] = cb[c].user
        BY DEF PaidTo
    <2>2. MapThenSumSet(LAMBDA c : cb[c].user, S) = SumOf(f, S)
        <3> HIDE DEF f, S
        <3> QED  BY <2>1, UserSum
    <2> QED  BY <2>2 DEF Credited
<1> SUFFICES ASSUME NEW u
             PROVE  /\ EarnedCashback(u) = Credited(commission, cashback, u)
                    /\ EarnedCashback(u)' = Credited(commission', cashback', u)
    OBVIOUS
<1>2. EarnedCashback(u) = MapThenSumSet(LAMBDA c : cashback[c].user, PaidTo(commission, cashback, u))
    BY DEF EarnedCashback, PaidTo
<1>3. EarnedCashback(u)' = MapThenSumSet(LAMBDA c : cashback'[c].user, PaidTo(commission', cashback', u))
    BY DEF EarnedCashback, PaidTo, MapThenSumSet, MapThenFoldSet
<1> QED  BY <1>1, <1>2, <1>3

\* The commissions in moved are paid to u in the second pair of tables, and not
\* in the first; the others paid to u are the same.
Gained(com, cb, com2, cb2, u, moved) ==
    /\ moved \subseteq Checkout
    /\ \A c \in Checkout : cb[c].user \in Int /\ cb2[c].user \in Int
    /\ PaidTo(com, cb, u) \cap moved = {}
    /\ PaidTo(com2, cb2, u) = PaidTo(com, cb, u) \cup moved
    /\ \A c \in PaidTo(com, cb, u) : cb2[c].user = cb[c].user

\* Commissions that become paid change the sum by their parts.
LEMMA CreditedMore ==
    ASSUME NEW com, NEW cb, NEW com2, NEW cb2, NEW u, NEW moved,
           Gained(com, cb, com2, cb2, u, moved)
    PROVE  /\ Credited(com, cb, u) \in Int
           /\ SumOf([c \in Checkout |-> cb2[c].user], moved) \in Int
           /\ Credited(com2, cb2, u) = Credited(com, cb, u)
                 + SumOf([c \in Checkout |-> cb2[c].user], moved)
<1> DEFINE f == [c \in Checkout |-> cb[c].user]
           g == [c \in Checkout |-> cb2[c].user]
           S == PaidTo(com, cb, u)
<1>1. S \subseteq Checkout /\ IsFiniteSet(S) /\ IsFiniteSet(moved)
    BY CommissionConstants, FS_Subset DEF PaidTo, Gained
<1>2. \A c \in Checkout : f[c] \in Int /\ g[c] \in Int
    BY DEF Gained
<1>3. \A c \in S : f[c] = g[c]
    BY <1>1 DEF Gained
<1>4. Credited(com, cb, u) = SumOf(f, S) /\ Credited(com2, cb2, u) = SumOf(g, S \cup moved)
    BY DEF Credited, Gained
<1> HIDE DEF f, g, S
<1>5. SumOf(g, S \cup moved) = SumOf(g, S) + SumOf(g, moved)
    <2>1. S \cap moved = {} /\ \A x \in S \cup moved : g[x] \in Int
        BY <1>1, <1>2 DEF S, Gained
    <2> QED  BY <1>1, <2>1, SumUnion
<1>6. SumOf(f, S) = SumOf(g, S)
    BY <1>1, <1>3, SumSame
<1>7. SumOf(f, S) \in Int /\ SumOf(g, moved) \in Int
    BY <1>1, <1>2, SumInt DEF Gained
<1> QED  BY <1>4, <1>5, <1>6, <1>7 DEF g

\* The adjustments of u among some rows.
Adjustments(S, u) == {row \in S : row.user = u /\ row.key.kind = "adjustment"}

\* The two equations of BooksAgree for one user, as sums over tables.
Agreed ==
    \A u \in User :
        /\ wallet[u].reserved = Asked(withdrawal, u, Open)
        /\ wallet[u].available + wallet[u].reserved + Asked(withdrawal, u, {"COMPLETED"})
              = Credited(commission, cashback, u) + Amounts(Adjustments(ledger, u))

\* What is paid is available, and conversely.
PaidAvailable ==
    \A c \in Checkout : commission[c].state = "PAID" <=> cashback[c].state = "AVAILABLE"

\* No row of a withdrawal is there before its time.
Unposted ==
    \A w \in W!Request :
        /\ withdrawal[w].status = "none" => ~Posted(ReserveKey(w))
        /\ withdrawal[w].status \notin W!Final => ~Posted(FinalizeKey(w))

\* The invariant all the results below follow from.
FinanceInv ==
    /\ Tables /\ Accounts /\ Requests /\ Agreed /\ PaidAvailable /\ Unposted
    /\ \A c \in Checkout : Told(c)

\* The sums of both equations are numbers.
LEMMA SumsTyped ==
    ASSUME Tables, Accounts, Requests, NEW u
    PROVE  /\ \A statuses : "none" \notin statuses => Asked(withdrawal, u, statuses) \in Int
           /\ Credited(commission, cashback, u) \in Int
           /\ Amounts(Adjustments(ledger, u)) \in Int
<1>1. ASSUME NEW statuses, "none" \notin statuses PROVE Asked(withdrawal, u, statuses) \in Int
    <2> DEFINE f == [w \in W!Request |-> withdrawal[w].amount]
               S == Chosen(withdrawal, u, statuses)
    <2>1. S \subseteq {w \in W!Request : withdrawal[w].status # "none"}
        BY <1>1 DEF Chosen
    <2>2. IsFiniteSet(S)
        BY <2>1, FS_Subset DEF Requests
    <2>3. \A w \in S : f[w] \in Int
        BY DEF Requests, WithdrawalShape, Chosen
    <2> HIDE DEF f, S
    <2>4. SumOf(f, S) \in Int
        BY <2>2, <2>3, SumInt
    <2> QED  BY <2>4 DEF Asked, f, S
<1>2. Credited(commission, cashback, u) \in Int
    <2> DEFINE f == [c \in Checkout |-> cashback[c].user]
               S == PaidTo(commission, cashback, u)
    <2>1. IsFiniteSet(S) /\ \A c \in S : f[c] \in Int
        BY CommissionConstants, FS_Subset DEF PaidTo, Tables, CashbackRow
    <2> HIDE DEF f, S
    <2>2. SumOf(f, S) \in Int
        BY <2>1, SumInt
    <2> QED  BY <2>2 DEF Credited, f, S
<1>3. Amounts(Adjustments(ledger, u)) \in Int
    <2> DEFINE S == Adjustments(ledger, u)
    <2>1. IsFiniteSet(S) /\ S \subseteq Rows
        BY FS_Subset DEF Adjustments, Accounts
    <2> HIDE DEF S
    <2>2. Amounts(S) \in Int
        BY <2>1, AmountsInt DEF Rows
    <2> QED  BY <2>2 DEF S
<1> QED  BY <1>1, <1>2, <1>3

\* The books still agree when both sides of each equation change alike.
LEMMA AgreedStep ==
    ASSUME Tables, Accounts, Requests, Agreed, NEW rows, Moves(rows),
           \A u \in User :
               /\ Asked(withdrawal', u, Open) =
                     Asked(withdrawal, u, Open) + Reserves(RowsOf(rows, u))
               /\ Asked(withdrawal', u, {"COMPLETED"}) \in Int
               /\ Credited(commission', cashback', u) \in Int
               /\ Amounts(RowsOf(rows, u)) + Reserves(RowsOf(rows, u))
                     + Asked(withdrawal', u, {"COMPLETED"}) + Credited(commission, cashback, u)
                  = Asked(withdrawal, u, {"COMPLETED"}) + Credited(commission', cashback', u)
                     + Amounts(Adjustments(rows, u))
    PROVE  Agreed'
<1>1. ASSUME NEW u \in User
      PROVE  /\ wallet'[u].reserved = Asked(withdrawal', u, Open)
             /\ wallet'[u].available + wallet'[u].reserved + Asked(withdrawal', u, {"COMPLETED"})
                  = Credited(commission', cashback', u) + Amounts(Adjustments(ledger', u))
    <2> DEFINE old == Adjustments(ledger, u)
               new == Adjustments(rows, u)
               part == RowsOf(rows, u)
    <2>1. /\ IsFiniteSet(old) /\ old \subseteq Rows /\ IsFiniteSet(new) /\ new \subseteq Rows
          /\ old \cap new = {} /\ Adjustments(ledger', u) = old \cup new
          /\ IsFiniteSet(part) /\ part \subseteq Rows
        BY FS_Subset DEF Adjustments, Accounts, Moves, RowsOf
    <2> HIDE DEF old, new, part
    <2>2. /\ Amounts(old \cup new) = Amounts(old) + Amounts(new)
          /\ Amounts(old) \in Int /\ Amounts(new) \in Int
          /\ Amounts(part) \in Int /\ Reserves(part) \in Int
        BY <2>1, AmountsAdd, AmountsInt, ReservesInt DEF Rows
    <2>3. /\ wallet'[u].available = wallet[u].available + Amounts(part)
          /\ wallet'[u].reserved = wallet[u].reserved + Reserves(part)
          /\ wallet[u].available \in Int /\ wallet[u].reserved \in Int
        BY DEF Moves, part, Accounts
    <2>4. "none" \notin Open /\ "none" \notin {"COMPLETED"}
        BY DEF Open
    <2>5. /\ Asked(withdrawal, u, Open) \in Int /\ Asked(withdrawal, u, {"COMPLETED"}) \in Int
          /\ Credited(commission, cashback, u) \in Int
        BY <2>4, SumsTyped
    <2>6. /\ wallet[u].reserved = Asked(withdrawal, u, Open)
          /\ wallet[u].available + wallet[u].reserved + Asked(withdrawal, u, {"COMPLETED"})
              = Credited(commission, cashback, u) + Amounts(old)
        BY DEF Agreed, old
    <2>7. /\ Asked(withdrawal', u, Open) = Asked(withdrawal, u, Open) + Reserves(part)
          /\ Asked(withdrawal', u, {"COMPLETED"}) \in Int
          /\ Credited(commission', cashback', u) \in Int
          /\ Amounts(part) + Reserves(part)
                     + Asked(withdrawal', u, {"COMPLETED"}) + Credited(commission, cashback, u)
                  = Asked(withdrawal, u, {"COMPLETED"}) + Credited(commission', cashback', u)
                     + Amounts(new)
        BY DEF part, new
    <2> QED  BY <2>1, <2>2, <2>3, <2>5, <2>6, <2>7
<1> QED  BY <1>1 DEF Agreed, Asked, Chosen, Credited, PaidTo, Amounts, Adjustments, Open, W!Request, W!Owner

-----------------------------------------------------------------------------
\* Rows of their types have the fields of their tables.
LEMMA TablesShaped == Tables => Shaped
BY DEF Tables, Shaped, CommissionShape, CashbackShape, BatchShape, CommissionRow,
       CashbackRow, BatchRow, Issue

\* The rows in part are those that h gives the commissions in moved, one each,
\* and move what k says.
RowsGiven(h, k, moved, part) ==
    /\ IsFiniteSet(moved)
    /\ \A c \in moved : h[c] \in Rows /\ k[c] = h[c].available
    /\ \A c, d \in moved : h[c] = h[d] => c = d
    /\ part = {h[c] : c \in moved}

\* Such rows add up to what the commissions are given.
LEMMA CreditsAmount ==
    ASSUME NEW h, NEW k, NEW moved, NEW part, RowsGiven(h, k, moved, part)
    PROVE  Amounts(part) = SumOf(k, moved)
<1> DEFINE f == [row \in part |-> row.available]
<1>1. \A c \in moved : h[c] \in part /\ k[c] = f[h[c]] /\ k[c] \in Int
    BY DEF Rows, RowOf, RowsGiven
<1>2. SumOf(f, {h[c] : c \in moved}) = SumOf(k, moved)
    <2> HIDE DEF f
    <2> QED  BY <1>1, SumImage DEF RowsGiven
<1> QED  BY <1>2 DEF Amounts, RowsGiven

\* A settlement step touches no withdrawal.
LEMMA SettlementAgreed ==
    ASSUME Tables, Accounts, Requests, Agreed, NEW rows, Moves(rows), UNCHANGED withdrawal,
           \A row \in rows : row.reserved = 0 /\ row.key.kind # "adjustment",
           \A u \in User : /\ Credited(commission', cashback', u) \in Int
                           /\ Credited(commission', cashback', u) =
                                 Credited(commission, cashback, u) + Amounts(RowsOf(rows, u))
    PROVE  Agreed'
<1>1. ASSUME NEW u \in User
      PROVE  /\ Reserves(RowsOf(rows, u)) = 0
             /\ Amounts(Adjustments(rows, u)) = 0
             /\ Amounts(RowsOf(rows, u)) \in Int
    <2> DEFINE part == RowsOf(rows, u)
    <2>1. IsFiniteSet(part) /\ part \subseteq Rows
        BY PartFinite DEF Moves
    <2>2. Reserves(part) = 0
        <3> DEFINE f == [row \in part |-> row.reserved]
        <3>1. \A row \in part : f[row] = 0
            BY DEF RowsOf
        <3> HIDE DEF f, part
        <3>2. SumOf(f, part) = 0
            BY <2>1, <3>1, SumZero
        <3> QED  BY <3>2 DEF f, Reserves
    <2>3. Adjustments(rows, u) = {}
        BY DEF Adjustments
    <2>4. Amounts(part) \in Int
        <3> HIDE DEF part
        <3> QED  BY <2>1, AmountsInt DEF Rows
    <2> QED  BY <2>2, <2>3, <2>4, AmountsNone
<1>2. ASSUME NEW u \in User
      PROVE  /\ Asked(withdrawal', u, Open) =
                   Asked(withdrawal, u, Open) + Reserves(RowsOf(rows, u))
             /\ Asked(withdrawal', u, {"COMPLETED"}) \in Int
             /\ Credited(commission', cashback', u) \in Int
             /\ Amounts(RowsOf(rows, u)) + Reserves(RowsOf(rows, u))
                   + Asked(withdrawal', u, {"COMPLETED"}) + Credited(commission, cashback, u)
                = Asked(withdrawal, u, {"COMPLETED"}) + Credited(commission', cashback', u)
                   + Amounts(Adjustments(rows, u))
    <2>1. "none" \notin Open /\ "none" \notin {"COMPLETED"}
        BY DEF Open
    <2>2. /\ Asked(withdrawal, u, Open) \in Int /\ Asked(withdrawal, u, {"COMPLETED"}) \in Int
          /\ Credited(commission, cashback, u) \in Int
        BY <2>1, SumsTyped
    <2> QED  BY <1>1, <2>2
<1> QED  BY <1>2, AgreedStep

\* A confirmation credits what becomes available (SettlementService.confirm).
LEMMA ConfirmAgreed ==
    ASSUME FinanceInv, NEW b \in Batch, ConfirmSettlement(b), UNCHANGED withdrawal
    PROVE  Accounts' /\ Agreed' /\ PaidAvailable'
<1> DEFINE cs == batch[b].members
           items == batch[b].items
           credit == [c \in cs |-> CreditRow(c, items[c])]
           rows == {credit[c] : c \in cs}
<1>0. Tables /\ Accounts /\ Requests /\ Agreed /\ Shaped
    BY TablesShaped DEF FinanceInv
<1>1. cs \in SUBSET Checkout /\ IsFiniteSet(cs)
    BY <1>0, CommissionConstants, FS_Subset DEF Tables, BatchRow
<1>2. \A c \in cs : commission[c].state = "VALIDATED" /\ commission[c].user # Nobody
    BY DEF ConfirmSettlement, Unchanged
<1>3. /\ \A c \in cs : /\ commission'[c].state = "PAID" /\ cashback'[c].state = "AVAILABLE"
                       /\ commission'[c].user = commission[c].user
                       /\ cashback'[c].user = ItemSplit(c, items[c]).user
      /\ \A c \in Checkout \ cs : commission'[c] = commission[c] /\ cashback'[c] = cashback[c]
    <2>1. commission' = [c \in Checkout |->
             IF c \in cs THEN [commission[c] EXCEPT !.state = "PAID",
                                                    !.settled = items[c].net]
             ELSE commission[c]]
          /\ cashback' = [c \in Checkout |->
             IF c \in cs
             THEN [state |-> "AVAILABLE", bps |-> cashback[c].bps,
                   user |-> ItemSplit(c, items[c]).user,
                   platform |-> ItemSplit(c, items[c]).platform]
             ELSE cashback[c]]
        BY DEF ConfirmSettlement
    <2>2. \A c \in cs : commission[c] \in CommissionRow
        BY <1>0, <1>1 DEF Tables
    <2> HIDE DEF cs, items
    <2> QED  BY <1>1, <2>1, <2>2 DEF CommissionRow
<1>4. \A c \in cs : /\ credit[c].user = commission[c].user
                    /\ credit[c].key = SettlementKey(c)
                    /\ credit[c].available = ItemSplit(c, items[c]).user
                    /\ credit[c].reserved = 0
                    /\ credit[c].key.kind = "settlement"
    BY DEF CreditRow, Row, SettlementKey
<1>5. PaidAvailable'
    BY <1>3 DEF PaidAvailable, FinanceInv
<1>6. Tables'
    BY <1>0, ConfirmTables
<1>7. PostAll(rows) /\ rows \cap ledger = {}
    <2>1. rows = {CreditRow(c, items[c]) : c \in cs}
        OBVIOUS
    <2>2. ASSUME NEW c \in cs PROVE credit[c] \notin ledger
        <3>1. RowsWith(SettlementKey(c)) = {}
            BY <1>1, <1>2 DEF FinanceInv, Told, Credits, Settled
        <3> QED  BY <1>4, <3>1 DEF RowsWith
    <2> QED  BY <2>1, <2>2 DEF ConfirmSettlement
<1>8. Movements(rows)
    <2>1. IsFiniteSet(rows)
        <3> HIDE DEF cs, credit
        <3> QED  BY <1>1, ImageFinite
    <2>2. ASSUME NEW c \in cs PROVE credit[c] \in RowOf(CreditKey)
        <3>1. /\ commission[c] \in CommissionRow /\ cashback[c] \in CashbackRow
              /\ items[c].net \in Int /\ commission[c].user # Nobody
            BY <1>0, <1>1, <1>2 DEF Tables, BatchRow, SettlementItem
        <3>2. commission[c].user \in User /\ ItemSplit(c, items[c]).user \in Int
            BY <3>1, SplitParts DEF ItemSplit, CommissionRow, CashbackRow
        <3>3. credit[c] = [key |-> SettlementKey(c), user |-> commission[c].user,
                           available |-> ItemSplit(c, items[c]).user, reserved |-> 0]
            BY DEF CreditRow, Row
        <3>4. SettlementKey(c) \in CreditKey
            BY <1>1 DEF SettlementKey, CreditKey
        <3> HIDE DEF credit
        <3> QED  BY <3>2, <3>3, <3>4 DEF RowOf
    <2> QED  BY <1>4, <2>1, <2>2 DEF Movements
<1>9. Moves(rows)
    <2>1. rows \ ledger = rows
        BY <1>7
    <2> HIDE DEF rows
    <2> QED  BY <1>0, <1>7, <1>8, <2>1, PostAllMoves
<1>10. ASSUME NEW u \in User
       PROVE  /\ Credited(commission', cashback', u) \in Int
              /\ Credited(commission', cashback', u) =
                    Credited(commission, cashback, u) + Amounts(RowsOf(rows, u))
    <2> DEFINE moved == {c \in cs : commission[c].user = u}
               k == [c \in Checkout |-> cashback'[c].user]
    <2>1. moved \in SUBSET Checkout /\ IsFiniteSet(moved)
        BY <1>1, FS_Subset
    <2>2. RowsOf(rows, u) = {credit[c] : c \in moved}
        <3>1. \A c \in cs : credit[c].user = commission[c].user
            BY <1>4
        <3> HIDE DEF credit, cs
        <3> QED  BY <3>1 DEF RowsOf
    <2>3. \A c, d \in moved : credit[c] = credit[d] => c = d
        BY <1>4, CreditKeysDiffer
    <2>4. \A c \in moved : credit[c] \in Rows /\ k[c] = credit[c].available
        <3>1. \A c \in moved : credit[c] \in Rows
            BY <1>8 DEF Movements, Rows, RowOf, AnyKey
        <3> QED  BY <1>1, <1>3, <1>4, <3>1
    <2>5. Amounts(RowsOf(rows, u)) = SumOf(k, moved)
        <3> HIDE DEF rows, credit, moved, k
        <3>1. RowsGiven(credit, k, moved, RowsOf(rows, u))
            BY <2>1, <2>2, <2>3, <2>4 DEF RowsGiven
        <3> QED  BY <3>1, CreditsAmount
    <2>6. \A c \in Checkout : cashback[c].user \in Int /\ cashback'[c].user \in Int
        BY <1>0, <1>6 DEF Tables, CashbackRow
    <2>7. \A c \in cs : cashback[c].state # "AVAILABLE"
        BY <1>1, <1>2 DEF FinanceInv, PaidAvailable
    <2>8. /\ PaidTo(commission, cashback, u) \cap moved = {}
          /\ PaidTo(commission', cashback', u) = PaidTo(commission, cashback, u) \cup moved
        <3> HIDE DEF cs
        <3> QED  BY <1>1, <1>3, <2>7 DEF PaidTo
    <2>9. \A c \in PaidTo(commission, cashback, u) : cashback'[c].user = cashback[c].user
        <3> HIDE DEF cs
        <3> QED  BY <1>3, <2>7 DEF PaidTo
    <2> HIDE DEF moved
    <2>10. /\ Credited(commission, cashback, u) \in Int
           /\ SumOf(k, moved) \in Int
           /\ Credited(commission', cashback', u) = Credited(commission, cashback, u) + SumOf(k, moved)
        <3>1. Gained(commission, cashback, commission', cashback', u, moved)
            BY <2>1, <2>6, <2>8, <2>9 DEF Gained
        <3> QED  BY <3>1, CreditedMore
    <2> HIDE DEF k, rows
    <2> QED  BY <2>5, <2>10
<1>11. \A row \in rows : row.reserved = 0 /\ row.key.kind # "adjustment"
    BY <1>4
<1> HIDE DEF rows
<1>12. Agreed'
    BY <1>0, <1>9, <1>10, <1>11, SettlementAgreed
<1> QED  BY <1>0, <1>5, <1>9, <1>12, AccountsMoved

\* Taking back is giving the negated amounts.
LEMMA SumNegated ==
    ASSUME NEW f, NEW k, NEW S, IsFiniteSet(S), \A x \in S : f[x] \in Int /\ k[x] = -f[x]
    PROVE  SumOf(f, S) \in Int /\ SumOf(k, S) = -SumOf(f, S)
<1> DEFINE z == [x \in S |-> 0]
<1>1. \A x \in S : f[x] \in Int /\ k[x] \in Int /\ z[x] = f[x] + k[x]
    OBVIOUS
<1>2. \A x \in S : z[x] = 0
    OBVIOUS
<1> HIDE DEF z
<1>3. SumOf(z, S) = 0
    BY <1>2, SumZero
<1>4. SumOf(z, S) = SumOf(f, S) + SumOf(k, S)
    BY <1>1, SumPlus
<1>5. SumOf(f, S) \in Int /\ SumOf(k, S) \in Int
    BY <1>1, SumInt
<1> QED  BY <1>3, <1>4, <1>5

\* A publication takes back what was available (AddLiveTagEngine.publish).
LEMMA PublishAgreed ==
    ASSUME FinanceInv, NEW report \in Report, Publish(report), UNCHANGED <<batch, withdrawal>>
    PROVE  Accounts' /\ Agreed' /\ PaidAvailable'
<1> DEFINE new == {c \in DOMAIN report : report[c] # checkout[c].snapshot}
           unpaid == {c \in new : ~Settled(c)}
           reversed == {c \in new : Reverses(c, report[c])}
           reversal == [c \in reversed |-> ReversalRow(c)]
           rows == {reversal[c] : c \in reversed}
<1>0. Tables /\ Accounts /\ Requests /\ Agreed /\ Shaped
    BY TablesShaped DEF FinanceInv
<1>1. reversed \in SUBSET Checkout /\ IsFiniteSet(reversed)
      /\ \A c \in DOMAIN report : report[c] \in Snapshot
    BY CommissionConstants, FS_Subset DEF Report
<1>2. \A c \in reversed : commission[c].state = "PAID" /\ Settled(c)
    BY DEF Reverses, Settled
<1>3. commission' = [c \in Checkout |->
             IF c \in unpaid THEN PublishedCommission(c, report[c])
             ELSE IF c \in reversed THEN [commission[c] EXCEPT !.state = "REVERSED"]
             ELSE commission[c]]
      /\ cashback' = [c \in Checkout |->
             IF c \in unpaid THEN PublishedCashback(c, report[c])
             ELSE IF c \in reversed THEN [cashback[c] EXCEPT !.state = "REVERSED"]
             ELSE cashback[c]]
    BY DEF Publish
<1>4. \A c \in reversed : /\ commission'[c].state = "REVERSED" /\ cashback'[c].state = "REVERSED"
                          /\ commission'[c].user = commission[c].user
                          /\ cashback'[c].user = cashback[c].user
    <2>1. ASSUME NEW c \in reversed
          PROVE  /\ commission'[c] = [commission[c] EXCEPT !.state = "REVERSED"]
                 /\ cashback'[c] = [cashback[c] EXCEPT !.state = "REVERSED"]
                 /\ commission[c] \in CommissionRow /\ cashback[c] \in CashbackRow
        <3>1. c \in Checkout /\ c \notin unpaid
            BY <1>1, <1>2
        <3> HIDE DEF unpaid, reversed
        <3> QED  BY <1>0, <1>3, <2>1, <3>1 DEF Tables
    <2> HIDE DEF reversed
    <2> QED  BY <2>1 DEF CommissionRow, CashbackRow
<1>5. ASSUME NEW c \in Checkout \ reversed
      PROVE  /\ cashback[c].state = "AVAILABLE" =>
                    commission'[c] = commission[c] /\ cashback'[c] = cashback[c]
             /\ cashback[c].state # "AVAILABLE" =>
                    commission'[c].state # "PAID" /\ cashback'[c].state # "AVAILABLE"
    <2>1. commission[c].state = "PAID" <=> cashback[c].state = "AVAILABLE"
        BY DEF FinanceInv, PaidAvailable
    <2>2. CASE c \in unpaid
        <3>1. report[c] \in Snapshot /\ ~Settled(c)
            BY <1>1, <2>2
        <3>2. commission'[c] = PublishedCommission(c, report[c])
              /\ cashback'[c] = PublishedCashback(c, report[c])
            BY <1>3, <2>2
        <3>3. commission'[c].state # "PAID"
            BY <3>1, <3>2, PublishedNotPaid
        <3>4. cashback[c].state # "AVAILABLE"
            BY <2>1, <3>1 DEF Settled
        <3>5. cashback'[c].state # "AVAILABLE"
            BY <3>2, <3>4 DEF PublishedCashback, CashbackFor
        <3> QED  BY <3>3, <3>4, <3>5
    <2>3. CASE c \notin unpaid
        <3>1. commission'[c] = commission[c] /\ cashback'[c] = cashback[c]
            <4> HIDE DEF unpaid, reversed
            <4> QED  BY <1>3, <2>3
        <3> QED  BY <2>1, <3>1
    <2> QED  BY <2>2, <2>3
<1>6. PaidAvailable'
    <2>1. ASSUME NEW c \in Checkout
          PROVE  commission'[c].state = "PAID" <=> cashback'[c].state = "AVAILABLE"
        <3>1. CASE c \in reversed
            BY <1>4, <3>1
        <3>2. CASE c \notin reversed
            BY <1>5, <3>2 DEF FinanceInv, PaidAvailable
        <3> QED  BY <3>1, <3>2
    <2> QED  BY <2>1 DEF PaidAvailable
<1>7. Tables'
    BY <1>0, PublishTables
<1>8. \A c \in reversed : /\ reversal[c].user = commission[c].user
                          /\ reversal[c].key = ReversalKey(c)
                          /\ reversal[c].available = -cashback[c].user
                          /\ reversal[c].reserved = 0
                          /\ reversal[c].key.kind = "reversal"
    BY DEF ReversalRow, Row, ReversalKey
<1>9. PostAll(rows) /\ rows \cap ledger = {}
    <2>1. rows = {ReversalRow(c) : c \in reversed}
        OBVIOUS
    <2>2. ASSUME NEW c \in reversed PROVE reversal[c] \notin ledger
        <3>1. RowsWith(ReversalKey(c)) = {}
            BY <1>1, <1>2 DEF FinanceInv, Told, Reversals
        <3> QED  BY <1>8, <3>1 DEF RowsWith
    <2> QED  BY <2>1, <2>2 DEF Publish
<1>10. Movements(rows)
    <2>1. IsFiniteSet(rows)
        <3> HIDE DEF reversed, reversal
        <3> QED  BY <1>1, ImageFinite
    <2>2. ASSUME NEW c \in reversed PROVE reversal[c] \in RowOf(CreditKey)
        <3>1. commission[c] \in CommissionRow /\ cashback[c] \in CashbackRow /\ Settled(c)
            BY <1>0, <1>1, <1>2 DEF Tables
        <3>2. commission[c].user \in User /\ -cashback[c].user \in Int
            BY <1>0, <1>1, <3>1 DEF Tables, CommissionRow, CashbackRow
        <3>3. reversal[c] = [key |-> ReversalKey(c), user |-> commission[c].user,
                             available |-> -cashback[c].user, reserved |-> 0]
            BY DEF ReversalRow, Row
        <3>4. ReversalKey(c) \in CreditKey
            BY <1>1 DEF ReversalKey, CreditKey
        <3> HIDE DEF reversal
        <3> QED  BY <3>2, <3>3, <3>4 DEF RowOf
    <2> QED  BY <1>8, <2>1, <2>2 DEF Movements
<1>11. Moves(rows)
    <2>1. rows \ ledger = rows
        BY <1>9
    <2> HIDE DEF rows
    <2> QED  BY <1>0, <1>9, <1>10, <2>1, PostAllMoves
<1>12. ASSUME NEW u \in User
       PROVE  /\ Credited(commission', cashback', u) \in Int
              /\ Credited(commission', cashback', u) =
                    Credited(commission, cashback, u) + Amounts(RowsOf(rows, u))
    <2> DEFINE moved == {c \in reversed : commission[c].user = u}
               f == [c \in Checkout |-> cashback[c].user]
               k == [c \in moved |-> -cashback[c].user]
    <2>1. moved \in SUBSET Checkout /\ IsFiniteSet(moved)
        BY <1>1, FS_Subset
    <2>2. RowsOf(rows, u) = {reversal[c] : c \in moved}
        <3>1. \A c \in reversed : reversal[c].user = commission[c].user
            BY <1>8
        <3> HIDE DEF reversal, reversed
        <3> QED  BY <3>1 DEF RowsOf
    <2>3. \A c, d \in moved : reversal[c] = reversal[d] => c = d
        <3>1. \A c \in reversed : reversal[c].key = ReversalKey(c)
            BY <1>8
        <3> HIDE DEF reversal, reversed
        <3> QED  BY <3>1, CreditKeysDiffer
    <2>4. \A c \in moved : reversal[c] \in Rows /\ k[c] = reversal[c].available
        <3>1. \A c \in moved : reversal[c] \in Rows
            BY <1>10 DEF Movements, Rows, RowOf, AnyKey
        <3> QED  BY <1>8, <3>1
    <2>5. Amounts(RowsOf(rows, u)) = SumOf(k, moved)
        <3> HIDE DEF rows, reversal, moved, k
        <3>1. RowsGiven(reversal, k, moved, RowsOf(rows, u))
            BY <2>1, <2>2, <2>3, <2>4 DEF RowsGiven
        <3> QED  BY <3>1, CreditsAmount
    <2>6. \A c \in Checkout : cashback[c].user \in Int /\ cashback'[c].user \in Int
        BY <1>0, <1>7 DEF Tables, CashbackRow
    <2>7. SumOf(f, moved) \in Int /\ SumOf(k, moved) = -SumOf(f, moved)
        <3>1. \A c \in moved : f[c] \in Int /\ k[c] = -f[c]
            BY <2>1, <2>6
        <3> HIDE DEF f, k, moved
        <3> QED  BY <2>1, <3>1, SumNegated
    <2>8. \A c \in reversed : cashback[c].state = "AVAILABLE"
        BY <1>1, <1>2 DEF FinanceInv, PaidAvailable
    <2>9. /\ PaidTo(commission', cashback', u) \cap moved = {}
          /\ PaidTo(commission, cashback, u) = PaidTo(commission', cashback', u) \cup moved
          /\ \A c \in PaidTo(commission', cashback', u) : cashback[c].user = cashback'[c].user
        <3> HIDE DEF reversed
        <3> QED  BY <1>1, <1>4, <1>5, <2>8 DEF PaidTo
    <2> HIDE DEF moved
    <2>10. /\ Credited(commission', cashback', u) \in Int
           /\ Credited(commission, cashback, u) = Credited(commission', cashback', u) + SumOf(f, moved)
        <3>1. Gained(commission', cashback', commission, cashback, u, moved)
            BY <2>1, <2>6, <2>9 DEF Gained
        <3> QED  BY <3>1, CreditedMore
    <2> HIDE DEF f, k, rows
    <2> QED  BY <2>5, <2>7, <2>10
<1>13. \A row \in rows : row.reserved = 0 /\ row.key.kind # "adjustment"
    BY <1>8
<1> HIDE DEF rows
<1>14. Agreed'
    BY <1>0, <1>11, <1>12, <1>13, SettlementAgreed
<1> QED  BY <1>0, <1>6, <1>11, <1>14, AccountsMoved

-----------------------------------------------------------------------------
\* Reviews and the rest of SettlementNext move no money and make nothing
\* available.
LEMMA StillAgreed ==
    ASSUME FinanceInv, UNCHANGED <<wallet, ledger, withdrawal>>,
           \A c \in Checkout :
               /\ cashback[c].state = "AVAILABLE" =>
                      /\ commission'[c].state = commission[c].state
                      /\ commission'[c].user = commission[c].user
                      /\ cashback'[c] = cashback[c]
               /\ cashback[c].state # "AVAILABLE" =>
                      commission'[c].state # "PAID" /\ cashback'[c].state # "AVAILABLE",
           Tables'
    PROVE  Accounts' /\ Agreed' /\ PaidAvailable'
<1>0. Tables /\ Accounts /\ Requests /\ Agreed
    BY DEF FinanceInv
<1>1. PaidAvailable'
    BY DEF FinanceInv, PaidAvailable
<1>2. Moves({})
    BY <1>0, NothingMoves
<1>3. ASSUME NEW u \in User
      PROVE  /\ Credited(commission', cashback', u) \in Int
             /\ Credited(commission', cashback', u) =
                   Credited(commission, cashback, u) + Amounts(RowsOf({}, u))
    <2>1. /\ PaidTo(commission, cashback, u) \cap {} = {}
          /\ PaidTo(commission', cashback', u) = PaidTo(commission, cashback, u) \cup {}
          /\ \A c \in PaidTo(commission, cashback, u) : cashback'[c].user = cashback[c].user
        BY DEF PaidTo
    <2>2. \A c \in Checkout : cashback[c].user \in Int /\ cashback'[c].user \in Int
        BY <1>0 DEF Tables, CashbackRow
    <2>3. Gained(commission, cashback, commission', cashback', u, {})
        BY <2>1, <2>2 DEF Gained
    <2>4. SumOf([c \in Checkout |-> cashback'[c].user], {}) = 0
        BY FS_EmptySet, SumRec
    <2>5. RowsOf({}, u) = {}
        BY DEF RowsOf
    <2> QED  BY <2>3, <2>4, <2>5, CreditedMore, AmountsNone
<1>4. Agreed'
    BY <1>0, <1>2, <1>3, SettlementAgreed
<1> QED  BY <1>0, <1>1, <1>2, <1>4, AccountsMoved

\* No step of the settlement side breaks an equation (SettlementNext).
LEMMA SettlementStepAgreed ==
    ASSUME FinanceInv, [SettlementNext]_settlementVars, UNCHANGED withdrawal
    PROVE  Accounts' /\ Agreed' /\ PaidAvailable'
<1>0. Tables /\ Tables' /\ PaidAvailable
    BY TablesStep DEF FinanceInv
<1>1. CASE UNCHANGED <<wallet, ledger, commission, cashback>>
    BY <1>0, <1>1, StillAgreed DEF PaidAvailable
<1>2. ASSUME NEW c \in Checkout, Exclude(c), UNCHANGED batch
      PROVE  Accounts' /\ Agreed' /\ PaidAvailable'
    <2>1. ~Settled(c) /\ UNCHANGED <<wallet, ledger>>
        BY <1>2 DEF Exclude, Reviewable, CloseReview
    <2>2. cashback[c].state # "AVAILABLE"
        BY <1>0, <2>1 DEF PaidAvailable, Settled
    <2>3. /\ commission'[c].state # "PAID" /\ cashback'[c].state # "AVAILABLE"
          /\ \A d \in Checkout \ {c} : commission'[d] = commission[d] /\ cashback'[d] = cashback[d]
        BY <1>0, <1>2, <2>2 DEF Exclude, Tables, CommissionRow, CashbackRow
    <2> QED  BY <1>0, <2>1, <2>2, <2>3, StillAgreed DEF PaidAvailable
<1>3. ASSUME NEW c \in Checkout, NEW link \in Link, NEW amount \in Accepted,
             Approve(c, link, amount), UNCHANGED batch
      PROVE  Accounts' /\ Agreed' /\ PaidAvailable'
    <2>1. ~Settled(c) /\ UNCHANGED <<wallet, ledger>>
        BY <1>3 DEF Approve, Reviewable, CloseReview
    <2>2. cashback[c].state # "AVAILABLE"
        BY <1>0, <2>1 DEF PaidAvailable, Settled
    <2>3. /\ commission'[c].state # "PAID" /\ cashback'[c].state # "AVAILABLE"
          /\ \A d \in Checkout \ {c} : commission'[d] = commission[d] /\ cashback'[d] = cashback[d]
        <3>1. commission'[c].state = ApprovedState(checkout[c].snapshot)
            BY <1>0, <1>3 DEF Approve, Tables, CommissionRow
        <3>2. cashback'[c].state \in {"VALIDATED", "PENDING"}
            BY <1>0, <1>3 DEF Approve, Tables, CashbackFor
        <3>3. \A d \in Checkout \ {c} : commission'[d] = commission[d] /\ cashback'[d] = cashback[d]
            BY <1>0, <1>3 DEF Approve, Tables
        <3> QED  BY <3>1, <3>2, <3>3 DEF ApprovedState
    <2> QED  BY <1>0, <2>1, <2>2, <2>3, StillAgreed DEF PaidAvailable
<1>4. CASE Quiet
    <2>1. CASE UNCHANGED wallet
        BY <1>1, <1>4, <2>1 DEF Quiet
    <2>2. CASE ~UNCHANGED wallet
        <3>1. (\E report \in Report : Publish(report)) \/ (\E b \in Batch : ConfirmSettlement(b))
            BY <2>2 DEF SettlementNext, CommissionNext, settlementVars, Exclude, Approve,
               CloseReview, Rotate, Verify, MarkActive, MarkExpired, SetCredential, UpdateRate,
               DeleteLink, CreateSettlement, CancelSettlement, commissionVars
        <3> QED  BY <1>4, <3>1, PublishAgreed, ConfirmAgreed DEF Quiet
    <2> QED  BY <2>1, <2>2
<1> QED  BY <1>1, <1>2, <1>3, <1>4, StepKinds, PublishAgreed, ConfirmAgreed
            DEF CreateSettlement, CancelSettlement, commissionVars

\* A withdrawal w changes to row, and its owner's money with it.
LEMMA WithdrawalAgreed ==
    ASSUME FinanceInv, NEW w \in W!Request, NEW row, WithdrawalShape(row), row.status # "none",
           withdrawal' = [withdrawal EXCEPT ![w] = row],
           UNCHANGED <<commission, cashback>>, NEW rows, Moves(rows),
           \A x \in rows : x.user = W!Owner(w) /\ x.key.kind # "adjustment",
           NEW old, old = withdrawal[w], NEW u0, u0 = W!Owner(w),
           Reserves(rows) = Portion(row, w, u0, Open) - Portion(old, w, u0, Open),
           Amounts(rows) + Reserves(rows) + Portion(row, w, u0, {"COMPLETED"})
               = Portion(old, w, u0, {"COMPLETED"})
    PROVE  Accounts' /\ Agreed' /\ Requests'
<1>0. Tables /\ Accounts /\ Requests /\ Agreed
    BY DEF FinanceInv
<1>1. PICK new : new = withdrawal'
    OBVIOUS
<1>2. /\ \A v \in W!Request : new[v] = IF v = w THEN row ELSE withdrawal[v]
      /\ new = [v \in W!Request |-> new[v]]
    <2>1. withdrawal = [v \in W!Request |-> withdrawal[v]]
        BY <1>0 DEF Requests
    <2>2. new = [withdrawal EXCEPT ![w] = row]
        BY <1>1
    <2> QED  BY <2>1, <2>2
<1>3. row.amount \in Nat /\ \A v \in W!Request : withdrawal[v].amount \in Nat
    BY <1>0 DEF WithdrawalShape, Requests
<1>4. "none" \notin Open /\ "none" \notin {"COMPLETED"}
    BY DEF Open
<1>5. IsFiniteSet({v \in W!Request : withdrawal[v].status # "none"})
    BY <1>0 DEF Requests
<1>6. ASSUME NEW u \in User, NEW statuses, "none" \notin statuses
      PROVE  /\ Asked(withdrawal, u, statuses) \in Nat
             /\ Asked(new, u, statuses) = Asked(withdrawal, u, statuses)
                   - Portion(old, w, u, statuses) + Portion(row, w, u, statuses)
    <2>1. Rewritten(withdrawal, new, w, row)
        BY <1>2, <1>3, <1>5 DEF Rewritten
    <2> QED  BY <1>6, <2>1, AskedChanged
<1>7. ASSUME NEW u \in User
      PROVE  /\ Asked(new, u, Open) = Asked(withdrawal, u, Open) + Reserves(RowsOf(rows, u))
             /\ Asked(new, u, {"COMPLETED"}) \in Int
             /\ Amounts(RowsOf(rows, u)) + Reserves(RowsOf(rows, u)) + Asked(new, u, {"COMPLETED"})
                   = Asked(withdrawal, u, {"COMPLETED"})
    <2>1. old.amount \in Nat
        BY <1>3
    <2>2. \A statuses : Portion(old, w, u, statuses) \in Nat /\ Portion(row, w, u, statuses) \in Nat
        BY <1>3, <2>1 DEF Portion
    <2>3. IsFiniteSet(rows) /\ rows \subseteq Rows
        BY DEF Moves
    <2>4. Amounts(rows) \in Int /\ Reserves(rows) \in Int
        BY <2>3, AmountsInt, ReservesInt DEF Rows
    <2>5. CASE u = u0
        <3>1. RowsOf(rows, u) = rows
            BY <2>5 DEF RowsOf
        <3> QED  BY <1>4, <1>6, <2>2, <2>4, <2>5, <3>1
    <2>6. CASE u # u0
        <3>1. RowsOf(rows, u) = {}
            BY <2>6 DEF RowsOf
        <3>2. \A statuses : Portion(old, w, u, statuses) = 0 /\ Portion(row, w, u, statuses) = 0
            BY <2>6 DEF Portion
        <3> QED  BY <1>4, <1>6, <3>1, <3>2, AmountsNone
    <2> QED  BY <2>5, <2>6
<1>8. \A u \in User : Adjustments(rows, u) = {}
    BY DEF Adjustments
<1>9. ASSUME NEW u \in User
      PROVE  /\ Asked(new, u, Open) =
                   Asked(withdrawal, u, Open) + Reserves(RowsOf(rows, u))
             /\ Asked(new, u, {"COMPLETED"}) \in Int
             /\ Credited(commission', cashback', u) \in Int
             /\ Amounts(RowsOf(rows, u)) + Reserves(RowsOf(rows, u))
                   + Asked(new, u, {"COMPLETED"}) + Credited(commission, cashback, u)
                = Asked(withdrawal, u, {"COMPLETED"}) + Credited(commission', cashback', u)
                   + Amounts(Adjustments(rows, u))
    <2>1. Credited(commission, cashback, u) \in Int /\ Asked(withdrawal, u, {"COMPLETED"}) \in Int
        BY <1>0, <1>4, SumsTyped
    <2>2. Amounts(RowsOf(rows, u)) \in Int /\ Reserves(RowsOf(rows, u)) \in Int
        <3>1. IsFiniteSet(RowsOf(rows, u)) /\ RowsOf(rows, u) \subseteq Rows
            BY PartFinite DEF Moves
        <3> QED  BY <3>1, AmountsInt, ReservesInt DEF Rows
    <2>3. Amounts(Adjustments(rows, u)) = 0
        BY <1>8, AmountsNone
    <2> QED  BY <1>7, <2>1, <2>2, <2>3
<1>10. Agreed'
    BY <1>0, <1>1, <1>9, AgreedStep
<1>11. Requests'
    <2>1. \A v \in W!Request : WithdrawalShape(new[v])
        BY <1>0, <1>2 DEF Requests
    <2> DEFINE S == {v \in W!Request : withdrawal[v].status # "none"}
               T == {v \in W!Request : new[v].status # "none"}
    <2>2. T \subseteq S \cup {w}
        BY <1>2
    <2>3. IsFiniteSet(S \cup {w})
        <3> HIDE DEF S
        <3> QED  BY <1>5, FS_AddElement DEF S
    <2>4. IsFiniteSet(T)
        <3> HIDE DEF S, T
        <3> QED  BY <2>2, <2>3, FS_Subset
    <2> QED  BY <1>1, <1>2, <2>1, <2>4 DEF Requests, WithdrawalShape, W!Request, W!Status
<1> QED  BY <1>0, <1>10, <1>11, AccountsMoved

\* What is posted stays posted, and one row posts one key.
LEMMA UnpostedKept ==
    ASSUME Unposted, NEW w \in W!Request, Requests,
           \A v \in W!Request \ {w} : withdrawal'[v] = withdrawal[v],
           \A row \in ledger' \ ledger :
               \A v \in W!Request \ {w} : row.key # ReserveKey(v) /\ row.key # FinalizeKey(v),
           withdrawal'[w].status # "none",
           withdrawal'[w].status \notin W!Final =>
               /\ withdrawal[w].status \notin W!Final
               /\ \A row \in ledger' \ ledger : row.key # FinalizeKey(w)
    PROVE  Unposted'
<1>1. ASSUME NEW v \in W!Request
      PROVE  /\ withdrawal'[v].status = "none" => ~Posted(ReserveKey(v))'
             /\ withdrawal'[v].status \notin W!Final => ~Posted(FinalizeKey(v))'
    BY DEF Unposted, Posted, ReserveKey, FinalizeKey
<1> QED  BY <1>1 DEF Unposted, W!Final, W!Request

\* Steps that leave the withdrawals alone post none of their keys.
LEMMA UnpostedAnyway ==
    ASSUME Unposted, UNCHANGED withdrawal,
           \A row \in ledger' \ ledger : row.key.kind \notin {"reserve", "finalize"}
    PROVE  Unposted'
BY DEF Unposted, Posted, ReserveKey, FinalizeKey, W!Final, W!Request

\* The tables that withdrawals and adjustments leave alone.
settlementTables == <<checkout, commission, cashback, openIssues, credential, userBps,
                      deletedLink, batch>>

\* A withdrawal step leaves the other tables, and what the ledger tells of
\* commissions, alone.
LEMMA OthersKept ==
    ASSUME FinanceInv, UNCHANGED settlementTables, ledger \subseteq ledger',
           \A row \in ledger' \ ledger : row.key.kind \notin {"settlement", "reversal"}
    PROVE  Tables' /\ PaidAvailable' /\ \A c \in Checkout : Told(c)'
<1>1. Tables'
    BY DEF FinanceInv, Tables, settlementTables, Settled
<1>2. PaidAvailable'
    BY DEF FinanceInv, PaidAvailable, settlementTables
<1>3. ASSUME NEW c \in Checkout PROVE Told(c)'
    <2>1. /\ RowsWith(SettlementKey(c))' = RowsWith(SettlementKey(c))
          /\ RowsWith(ReversalKey(c))' = RowsWith(ReversalKey(c))
        BY RowsWithPrimed DEF RowsWith, SettlementKey, ReversalKey
    <2>2. Credits(c)' = Credits(c) /\ Reversals(c)' = Reversals(c)
        BY DEF Credits, Reversals, Settled, settlementTables, SettlementKey, ReversalKey
    <2> QED  BY <2>1, <2>2 DEF FinanceInv, Told
<1> QED  BY <1>1, <1>2, <1>3

\* A movement with an unused key is no replay.
LEMMA PostIsNew ==
    ASSUME NEW u, NEW key, NEW available, NEW reserved,
           W!Post(u, key, available, reserved), ~Posted(key)
    PROVE  W!PostNew(u, key, available, reserved)
BY DEF W!Post, W!Row, Posted

\* A step of one withdrawal that posts at most one row.
LEMMA MoneyStep ==
    ASSUME FinanceInv, NEW w \in W!Request, NEW row, WithdrawalShape(row), row.status # "none",
           withdrawal' = [withdrawal EXCEPT ![w] = row],
           UNCHANGED settlementTables, NEW rows, Moves(rows),
           \A x \in rows : x.user = W!Owner(w) /\ x.key \in {ReserveKey(w), FinalizeKey(w)},
           NEW old, old = withdrawal[w], NEW u0, u0 = W!Owner(w),
           Reserves(rows) = Portion(row, w, u0, Open) - Portion(old, w, u0, Open),
           Amounts(rows) + Reserves(rows) + Portion(row, w, u0, {"COMPLETED"})
               = Portion(old, w, u0, {"COMPLETED"}),
           row.status \notin W!Final =>
               old.status \notin W!Final /\ \A x \in rows : x.key = ReserveKey(w)
    PROVE  FinanceInv'
<1>1. \A x \in rows : x.key.kind \in {"reserve", "finalize"}
    BY DEF ReserveKey, FinalizeKey
<1>2. ledger \subseteq ledger' /\ ledger' \ ledger = rows
    BY DEF Moves
<1>3. Accounts' /\ Agreed' /\ Requests'
    <2>1. \A x \in rows : x.user = W!Owner(w) /\ x.key.kind # "adjustment"
        BY <1>1
    <2>2. UNCHANGED <<commission, cashback>>
        BY DEF settlementTables
    <2> QED  BY <2>1, <2>2, WithdrawalAgreed
<1>4. Tables' /\ PaidAvailable' /\ \A c \in Checkout : Told(c)'
    BY <1>1, <1>2, OthersKept
<1>5. Unposted'
    <2>1. withdrawal' = [v \in W!Request |-> IF v = w THEN row ELSE withdrawal[v]]
        BY DEF FinanceInv, Requests
    <2>2. \A v \in W!Request \ {w} : withdrawal'[v] = withdrawal[v]
        BY <2>1
    <2>3. withdrawal'[w] = row
        BY <2>1
    <2>4. \A x \in rows : \A v \in W!Request \ {w} : x.key # ReserveKey(v) /\ x.key # FinalizeKey(v)
        BY DEF ReserveKey, FinalizeKey
    <2>5. \A x \in rows : x.key = ReserveKey(w) => x.key # FinalizeKey(w)
        BY DEF ReserveKey, FinalizeKey
    <2> QED  BY <1>2, <2>2, <2>3, <2>4, <2>5, UnpostedKept DEF FinanceInv
<1> QED  BY <1>3, <1>4, <1>5 DEF FinanceInv

\* Steps that touch neither wallets nor withdrawals.
LEMMA IdleStep ==
    ASSUME FinanceInv, UNCHANGED settlementTables, UNCHANGED <<wallet, ledger, withdrawal>>
    PROVE  FinanceInv'
<1>1. Tables' /\ PaidAvailable' /\ \A c \in Checkout : Told(c)'
    BY OthersKept
<1>2. Accounts' /\ Agreed'
    <2>1. \A c \in Checkout : commission'[c] = commission[c] /\ cashback'[c] = cashback[c]
        BY DEF settlementTables
    <2>2. \A c \in Checkout : cashback[c].state # "AVAILABLE" => commission[c].state # "PAID"
        BY DEF FinanceInv, PaidAvailable
    <2> QED  BY <1>1, <2>1, <2>2, StillAgreed
<1>3. Requests'
    BY DEF FinanceInv, Requests, WithdrawalShape, W!Request, W!Status
<1>4. Unposted'
    BY UnpostedAnyway DEF FinanceInv
<1> QED  BY <1>1, <1>2, <1>3, <1>4 DEF FinanceInv

\* A withdrawal counts with its amount, under its status, for its owner.
LEMMA AmountPortions ==
    ASSUME NEW row, row.amount \in Nat, NEW w
    PROVE  \A statuses : Portion(row, w, W!Owner(w), statuses) =
                            IF row.status \in statuses THEN row.amount ELSE 0
BY DEF Portion

\* A request sets its amount aside (WithdrawalService.create).
LEMMA CreateKeeps ==
    ASSUME FinanceInv, UNCHANGED settlementTables, NEW w \in W!Request, NEW amount \in Amount,
           NEW b \in Bank, W!CreateWithdrawal(w, amount, b)
    PROVE  FinanceInv'
<1>1. PICK old, row : old = withdrawal[w] /\ row = [status |-> "PENDING", amount |-> amount,
                                                    bank |-> b, history |-> <<"PENDING">>]
    OBVIOUS
<1>2. /\ withdrawal' = [withdrawal EXCEPT ![w] = row] /\ old.status = "none"
      /\ W!Post(W!Owner(w), ReserveKey(w), -amount, amount)
    BY <1>1 DEF W!CreateWithdrawal, W!ReserveKey, ReserveKey
<1>3. amount \in Nat /\ -amount \in Int /\ W!Owner(w) \in User /\ ReserveKey(w) \in AnyKey
      /\ old.amount \in Nat
    BY <1>1, FinanceConstants
       DEF W!Request, W!Owner, ReserveKey, AnyKey, W!MoneyKey, FinanceInv, Requests, WithdrawalShape
<1>4. PICK x : x = Row(W!Owner(w), ReserveKey(w), -amount, amount)
    OBVIOUS
<1>5. Moves({x})
    <2>1. ~Posted(ReserveKey(w))
        BY <1>1, <1>2 DEF FinanceInv, Unposted
    <2>2. W!PostNew(W!Owner(w), ReserveKey(w), -amount, amount)
        BY <1>2, <2>1, PostIsNew
    <2>3. Accounts
        BY DEF FinanceInv
    <2> QED  BY <1>3, <1>4, <2>2, <2>3, PostNewMoves
<1>6. /\ x \in Rows /\ x.user = W!Owner(w) /\ x.key = ReserveKey(w)
      /\ x.available = -amount /\ x.reserved = amount
    BY <1>3, <1>4 DEF Row, Rows, RowOf
<1>7. Amounts({x}) = -amount /\ Reserves({x}) = amount
    BY <1>6, AmountsOne
<1>8. /\ Portion(row, w, W!Owner(w), Open) = amount /\ Portion(old, w, W!Owner(w), Open) = 0
      /\ Portion(row, w, W!Owner(w), {"COMPLETED"}) = 0
      /\ Portion(old, w, W!Owner(w), {"COMPLETED"}) = 0
    BY <1>1, <1>2, <1>3, AmountPortions DEF Open
<1>9. WithdrawalShape(row) /\ row.status = "PENDING"
    BY <1>1, <1>3 DEF WithdrawalShape, W!Status
<1>10. old.status \notin W!Final
    BY <1>2 DEF W!Final
<1>11. \A y \in {x} : y.user = W!Owner(w) /\ y.key \in {ReserveKey(w), FinalizeKey(w)}
    BY <1>6
<1>12. /\ Reserves({x}) = Portion(row, w, W!Owner(w), Open) - Portion(old, w, W!Owner(w), Open)
       /\ Amounts({x}) + Reserves({x}) + Portion(row, w, W!Owner(w), {"COMPLETED"})
             = Portion(old, w, W!Owner(w), {"COMPLETED"})
    BY <1>3, <1>7, <1>8
<1>13. row.status \notin W!Final =>
          old.status \notin W!Final /\ \A y \in {x} : y.key = ReserveKey(w)
    BY <1>6, <1>10
<1>14. row.status # "none"
    BY <1>9

<1> QED  BY <1>1, <1>2, <1>5, <1>9, <1>11, <1>12, <1>13, <1>14, MoneyStep

\* A transition pays the amount out, gives it back, or moves nothing
\* (WithdrawalService.transition).
LEMMA TransitionKeeps ==
    ASSUME FinanceInv, UNCHANGED settlementTables, NEW w \in W!Request, W!Transition(w)
    PROVE  FinanceInv'
<1>0. Accounts /\ Requests
    BY DEF FinanceInv
<1>1. PICK old : old = withdrawal[w]
    OBVIOUS
<1>2. WithdrawalShape(old) /\ old.amount \in Nat /\ W!Owner(w) \in User /\ FinalizeKey(w) \in AnyKey
    BY <1>0, <1>1 DEF Requests, WithdrawalShape, W!Request, W!Owner, FinalizeKey, AnyKey, W!MoneyKey
<1>3. ASSUME NEW status \in W!Status, W!MoveTo(w, status), NEW rows, Moves(rows),
             old.status \in Open,
             \A x \in rows : x.user = W!Owner(w) /\ x.key = FinalizeKey(w),
             status \notin W!Final => rows = {} /\ status \in Open,
             Reserves(rows) = (IF status \in Open THEN old.amount ELSE 0) - old.amount,
             Amounts(rows) + Reserves(rows) + (IF status = "COMPLETED" THEN old.amount ELSE 0) = 0
      PROVE  FinanceInv'
    <2>1. PICK row : row = [old EXCEPT !.status = status, !.history = Append(@, status)]
        OBVIOUS
    <2>2. withdrawal' = [withdrawal EXCEPT ![w] = row]
        BY <1>0, <1>1, <1>3, <2>1 DEF W!MoveTo, Requests
    <2>3. row.status = status /\ row.amount = old.amount
          /\ row = [status |-> row.status, amount |-> row.amount, bank |-> row.bank, history |-> row.history]
        BY <1>2, <2>1 DEF WithdrawalShape
    <2>4. WithdrawalShape(row) /\ row.status # "none"
        BY <1>2, <1>3, <2>3 DEF WithdrawalShape, W!Status
    <2>5. /\ Portion(row, w, W!Owner(w), Open) = IF status \in Open THEN old.amount ELSE 0
          /\ Portion(old, w, W!Owner(w), Open) = old.amount
          /\ Portion(row, w, W!Owner(w), {"COMPLETED"}) = IF status = "COMPLETED" THEN old.amount ELSE 0
          /\ Portion(old, w, W!Owner(w), {"COMPLETED"}) = 0
        BY <1>2, <1>3, <2>3, AmountPortions DEF Open
    <2>6. old.status \notin W!Final
        BY <1>3 DEF Open, W!Final
    <2> QED  BY <1>1, <1>2, <1>3, <2>2, <2>3, <2>4, <2>5, <2>6, MoneyStep
<1>4. ASSUME NEW a \in Int, NEW status \in W!Final,
             W!Post(W!Owner(w), FinalizeKey(w), a, -old.amount), W!MoveTo(w, status),
             old.status \in Open,
             a = IF status = "COMPLETED" THEN 0 ELSE old.amount
      PROVE  FinanceInv'
    <2>1. PICK x : x = Row(W!Owner(w), FinalizeKey(w), a, -old.amount)
        OBVIOUS
    <2>2. ~Posted(FinalizeKey(w))
        BY <1>1, <1>4 DEF FinanceInv, Unposted, Open, W!Final
    <2>3. W!PostNew(W!Owner(w), FinalizeKey(w), a, -old.amount)
        BY <1>4, <2>2, PostIsNew
    <2>4. Moves({x})
        BY <1>0, <1>2, <2>1, <2>3, PostNewMoves
    <2>5. x \in Rows /\ x.user = W!Owner(w) /\ x.key = FinalizeKey(w) /\ x.available = a
          /\ x.reserved = -old.amount
        BY <1>2, <2>1 DEF Row, Rows, RowOf
    <2>6. Amounts({x}) = a /\ Reserves({x}) = -old.amount
        BY <2>5, AmountsOne
    <2>7. status \in W!Status /\ status \notin Open
        BY DEF W!Final, W!Status, Open
    <2>8. \A y \in {x} : y.user = W!Owner(w) /\ y.key = FinalizeKey(w)
        BY <2>5
    <2>9. Reserves({x}) = 0 - old.amount
        BY <1>2, <2>6
    <2>10. Amounts({x}) + Reserves({x}) + (IF status = "COMPLETED" THEN old.amount ELSE 0) = 0
        BY <1>2, <1>4, <2>6
    <2> QED  BY <1>3, <1>4, <2>4, <2>7, <2>8, <2>9, <2>10
<1>5. CASE W!StartProcessing(w)
    <2>1. Moves({})
        BY <1>0, <1>5, NothingMoves DEF W!StartProcessing
    <2>2. W!MoveTo(w, "PROCESSING") /\ old.status = "PENDING"
        BY <1>1, <1>5 DEF W!StartProcessing, W!Allowed
    <2>3. old.status \in Open /\ "PROCESSING" \in Open /\ "PROCESSING" \in W!Status
        BY <2>2 DEF Open, W!Status
    <2> QED  BY <1>2, <1>3, <2>1, <2>2, <2>3, AmountsNone
<1>6. CASE W!CompleteWithdrawal(w)
    <2>1. W!MoveTo(w, "COMPLETED") /\ old.status \in Open
          /\ W!Post(W!Owner(w), FinalizeKey(w), 0, -old.amount)
        BY <1>1, <1>6 DEF W!CompleteWithdrawal, W!Allowed, Open, W!FinalizeKey, FinalizeKey
    <2> QED  BY <1>4, <2>1 DEF W!Final
<1>7. ASSUME NEW status \in {"REJECTED", "FAILED"}, W!ReleaseWithdrawal(w, status)
      PROVE  FinanceInv'
    <2>1. W!MoveTo(w, status) /\ old.status \in Open
          /\ W!Post(W!Owner(w), FinalizeKey(w), old.amount, -old.amount)
        BY <1>1, <1>7 DEF W!ReleaseWithdrawal, W!Allowed, Open, W!FinalizeKey, FinalizeKey
    <2> QED  BY <1>2, <1>4, <2>1 DEF W!Final
<1> QED  BY <1>5, <1>6, <1>7 DEF W!Transition

\* An admin posts an adjustment (WalletService.post, called by
\* FinanceAdminController.adjust).
LEMMA AdjustKeeps ==
    ASSUME FinanceInv, UNCHANGED settlementTables, NEW u \in User, NEW a \in AdjustmentId,
           NEW amount \in AdjustmentAmount, W!Adjust(u, a, amount)
    PROVE  FinanceInv'
<1>0. Tables /\ Accounts /\ Requests /\ Agreed /\ Unposted
    BY DEF FinanceInv
<1>1. amount \in Int /\ AdjustmentKey(a) \in AnyKey /\ 0 \in Int /\ UNCHANGED withdrawal
    BY FinanceConstants DEF W!Adjust, AdjustmentKey, AnyKey, W!MoneyKey
<1>2. W!Post(u, AdjustmentKey(a), amount, 0)
    BY DEF W!Adjust, W!AdjustmentKey, AdjustmentKey
<1>3. CASE UNCHANGED <<wallet, ledger>>
    BY <1>1, <1>3, IdleStep
<1>4. CASE W!PostNew(u, AdjustmentKey(a), amount, 0)
    <2>1. PICK x : x = Row(u, AdjustmentKey(a), amount, 0)
        OBVIOUS
    <2>2. Moves({x})
        BY <1>0, <1>1, <1>4, <2>1, PostNewMoves
    <2>3. x \in Rows /\ x.user = u /\ x.available = amount /\ x.reserved = 0
          /\ x.key.kind = "adjustment"
        BY <1>1, <2>1 DEF Row, Rows, RowOf, AdjustmentKey
    <2>4. Amounts({x}) = amount /\ Reserves({x}) = 0
        BY <2>3, AmountsOne
    <2>5. "none" \notin Open /\ "none" \notin {"COMPLETED"}
        BY DEF Open
    <2>6. ASSUME NEW v \in User
          PROVE  /\ Asked(withdrawal', v, Open) =
                       Asked(withdrawal, v, Open) + Reserves(RowsOf({x}, v))
                 /\ Asked(withdrawal', v, {"COMPLETED"}) \in Int
                 /\ Credited(commission', cashback', v) \in Int
                 /\ Amounts(RowsOf({x}, v)) + Reserves(RowsOf({x}, v))
                       + Asked(withdrawal', v, {"COMPLETED"}) + Credited(commission, cashback, v)
                    = Asked(withdrawal, v, {"COMPLETED"}) + Credited(commission', cashback', v)
                       + Amounts(Adjustments({x}, v))
        <3>1. /\ Asked(withdrawal, v, Open) \in Int /\ Asked(withdrawal, v, {"COMPLETED"}) \in Int
              /\ Credited(commission, cashback, v) \in Int
            BY <1>0, <2>5, SumsTyped
        <3>2. Credited(commission', cashback', v) = Credited(commission, cashback, v)
            BY DEF settlementTables
        <3>3. Adjustments({x}, v) = RowsOf({x}, v) /\ RowsOf({x}, v) \in {{x}, {}}
            BY <2>3 DEF Adjustments, RowsOf
        <3>4. Amounts(RowsOf({x}, v)) \in Int /\ Reserves(RowsOf({x}, v)) = 0
            BY <1>1, <2>4, <3>3, AmountsNone
        <3> QED  BY <1>1, <3>1, <3>2, <3>3, <3>4
    <2>7. Agreed'
        BY <1>0, <2>2, <2>6, AgreedStep
    <2>8. ledger \subseteq ledger' /\ ledger' \ ledger = {x}
        BY <2>2 DEF Moves
    <2>9. Tables' /\ PaidAvailable' /\ \A c \in Checkout : Told(c)'
        BY <2>3, <2>8, OthersKept
    <2>10. Unposted'
        BY <1>0, <1>1, <2>3, <2>8, UnpostedAnyway
    <2>11. Accounts' /\ Requests'
        BY <1>0, <1>1, <2>2, AccountsMoved DEF Requests, WithdrawalShape, W!Request, W!Status
    <2> QED  BY <2>7, <2>9, <2>10, <2>11 DEF FinanceInv
<1> QED  BY <1>2, <1>3, <1>4 DEF W!Post, W!walletVars

\* A step of the settlement side.
LEMMA SettlementKeeps ==
    ASSUME FinanceInv, [SettlementNext]_settlementVars, UNCHANGED withdrawal
    PROVE  FinanceInv'
<1>0. Tables /\ Unposted /\ Requests /\ Shaped /\ \A c \in Checkout : Told(c)
    BY TablesShaped DEF FinanceInv
<1>1. Accounts' /\ Agreed' /\ PaidAvailable'
    BY SettlementStepAgreed
<1>2. Tables' /\ \A c \in Checkout : Told(c)'
    BY <1>0, TablesStep, ToldStep
<1>3. Requests'
    BY <1>0 DEF Requests, WithdrawalShape, W!Request, W!Status
<1>4. \A row \in ledger' \ ledger : row.key.kind \notin {"reserve", "finalize"}
    <2>1. CASE UNCHANGED walletVars
        BY <2>1 DEF walletVars
    <2>2. ASSUME NEW rows, Movements(rows), PostAll(rows)
          PROVE  \A row \in ledger' \ ledger : row.key.kind \notin {"reserve", "finalize"}
        BY <2>2 DEF Movements, PostAll, RowOf, CreditKey
    <2> QED  BY <1>0, <2>1, <2>2, StepPosts
<1>5. Unposted'
    BY <1>0, <1>4, UnpostedAnyway
<1> QED  BY <1>1, <1>2, <1>3, <1>5 DEF FinanceInv

\* A step is one of the settlement side, of a withdrawal, an adjustment, or
\* touches neither wallets nor withdrawals (FinanceNext).
LEMMA FinanceStepKinds ==
    [FinanceNext]_financeVars =>
        \/ [SettlementNext]_settlementVars /\ UNCHANGED withdrawal
        \/ /\ UNCHANGED settlementTables
           /\ \/ \E w \in W!Request, amount \in Amount, b \in Bank : W!CreateWithdrawal(w, amount, b)
              \/ \E w \in W!Request : W!Transition(w)
              \/ \E u \in User, a \in AdjustmentId, amount \in AdjustmentAmount : W!Adjust(u, a, amount)
              \/ UNCHANGED <<wallet, ledger, withdrawal>>
<1> HAVE [FinanceNext]_financeVars
<1>1. CASE UNCHANGED financeVars
    BY <1>1 DEF financeVars, settlementTables
<1>2. CASE SettlementNext /\ UNCHANGED <<withdrawal, bank, minWithdrawal>>
    BY <1>2
<1>3. CASE W!WithdrawalNext /\ UNCHANGED settlementTables
    <2>1. ASSUME NEW u \in User, NEW b \in Bank, NEW previous, W!SaveBank(u, b, previous)
          PROVE  UNCHANGED <<wallet, ledger, withdrawal>>
        BY <2>1 DEF W!SaveBank
    <2>2. ASSUME NEW u \in User, NEW b \in Bank, W!RemoveBank(u, b)
          PROVE  UNCHANGED <<wallet, ledger, withdrawal>>
        BY <2>2 DEF W!RemoveBank
    <2>3. ASSUME NEW b \in Bank, NEW verdict, W!ReviewBank(b, verdict)
          PROVE  UNCHANGED <<wallet, ledger, withdrawal>>
        BY <2>3 DEF W!ReviewBank
    <2>4. ASSUME NEW minimum, W!UpdateMinimum(minimum)
          PROVE  UNCHANGED <<wallet, ledger, withdrawal>>
        BY <2>4 DEF W!UpdateMinimum
    <2> QED  BY <1>3, <2>1, <2>2, <2>3, <2>4 DEF W!WithdrawalNext
<1>4. (W!WithdrawalNext /\ UNCHANGED <<checkout, commission, cashback, openIssues, credential,
                        userBps, deletedLink, batch>>) => (W!WithdrawalNext /\ UNCHANGED settlementTables)
    BY DEF settlementTables
<1> QED  BY <1>1, <1>2, <1>3, <1>4 DEF FinanceNext

\* Every step keeps the invariant, ...
LEMMA FinanceInvStep == FinanceInv /\ [FinanceNext]_financeVars => FinanceInv'
BY FinanceStepKinds, SettlementKeeps, CreateKeeps, TransitionKeeps, AdjustKeeps, IdleStep

\* ... it holds when nothing has happened yet, ...
LEMMA FinanceInvInit == FinanceInit => FinanceInv
<1> SUFFICES ASSUME FinanceInit PROVE FinanceInv
    OBVIOUS
<1>1. Tables
    BY TablesInit DEF FinanceInit
<1>2. /\ ledger = {} /\ wallet = [u \in User |-> [available |-> 0, reserved |-> 0]]
      /\ withdrawal = [w \in W!Request |-> W!NoWithdrawal]
    BY DEF FinanceInit, W!WithdrawalInit, W!WalletInit
<1>3. \A u : RowsOf(ledger, u) = {} /\ Adjustments(ledger, u) = {}
    BY <1>2 DEF RowsOf, Adjustments
<1>4. Accounts
    BY <1>2, <1>3, AmountsNone, FS_EmptySet DEF Accounts
<1>5. Requests
    <2>1. {w \in W!Request : withdrawal[w].status # "none"} = {}
        BY <1>2 DEF W!NoWithdrawal
    <2>2. \A w \in W!Request : WithdrawalShape(withdrawal[w])
        BY <1>2 DEF W!NoWithdrawal, WithdrawalShape
    <2> QED  BY <1>2, <2>1, <2>2, FS_EmptySet DEF Requests
<1>6. /\ PaidAvailable
      /\ \A c \in Checkout : /\ Told(c) /\ commission[c].state # "PAID"
                             /\ cashback[c].state # "AVAILABLE"
    BY DEF FinanceInit, SettlementInit, CommissionInit, WalletInit, NoCommission, NoCashback, Told, Credits,
           Reversals, Settled, RowsWith, PaidAvailable
<1>7. Agreed
    <2>1. \A f : SumOf(f, {}) = 0
        BY FS_EmptySet, SumRec
    <2>2. \A u : PaidTo(commission, cashback, u) = {}
        BY <1>6 DEF PaidTo
    <2>3. \A u : Chosen(withdrawal, u, Open) = {} /\ Chosen(withdrawal, u, {"COMPLETED"}) = {}
        BY <1>2 DEF Chosen, W!NoWithdrawal, Open
    <2>4. \A u : /\ Asked(withdrawal, u, Open) = 0 /\ Asked(withdrawal, u, {"COMPLETED"}) = 0
                 /\ Credited(commission, cashback, u) = 0
        BY <2>1, <2>2, <2>3 DEF Asked, Credited
    <2> QED  BY <1>2, <1>3, <2>4, AmountsNone DEF Agreed
<1>8. Unposted
    BY <1>2 DEF Unposted, Posted
<1> QED  BY <1>1, <1>4, <1>5, <1>6, <1>7, <1>8 DEF FinanceInv

\* ... and so it always holds.
LEMMA FinanceAlways == FinanceSpec => []FinanceInv
BY FinanceInvInit, FinanceInvStep, PTL DEF FinanceSpec

\* The sums of BooksAgree are those of the invariant.
LEMMA SumsAgree ==
    ASSUME FinanceInv, NEW u \in User
    PROVE  /\ wallet[u].reserved = Requested(u, Open)
           /\ wallet[u].available + wallet[u].reserved + Requested(u, {"COMPLETED"}) = Earned(u)
<1>1. /\ wallet[u].reserved = Asked(withdrawal, u, Open)
      /\ wallet[u].available + wallet[u].reserved + Asked(withdrawal, u, {"COMPLETED"})
            = Credited(commission, cashback, u) + Amounts(Adjustments(ledger, u))
    BY DEF FinanceInv, Agreed
<1>2. /\ Requested(u, Open) = Asked(withdrawal, u, Open)
      /\ Requested(u, {"COMPLETED"}) = Asked(withdrawal, u, {"COMPLETED"})
      /\ EarnedCashback(u) = Credited(commission, cashback, u)
    BY RequestedAsked, EarnedCredited
<1>3. Adjusted(u) = Amounts(Adjustments(ledger, u))
    <2> DEFINE S == Adjustments(ledger, u)
    <2>1. IsFiniteSet(S) /\ S \subseteq Rows
        BY FS_Subset DEF FinanceInv, Accounts, Adjustments
    <2>2. MapThenSumSet(LAMBDA row : row.available, S) = Amounts(S)
        <3> HIDE DEF S
        <3> QED  BY <2>1, AmountsInt DEF Rows
    <2>3. Adjusted(u) = MapThenSumSet(LAMBDA row : row.available, S)
        BY DEF Adjusted, Adjustments
    <2> QED  BY <2>2, <2>3
<1> QED  BY <1>1, <1>2, <1>3 DEF Earned

\* The books of all four tables agree after every step (WalletService.post,
\* AddLiveTagEngine.publish, SettlementService.confirm and
\* WithdrawalService.create and transition).
THEOREM BooksAlwaysAgree == FinanceSpec => []BooksAgree
<1>1. FinanceInv => BooksAgree
    BY SumsAgree, AccountsBalanced DEF BooksAgree, FinanceInv
<1> QED  BY <1>1, FinanceAlways, PTL

-----------------------------------------------------------------------------
\* The amounts asked for split by status.
LEMMA AskedSplit ==
    ASSUME Requests, NEW u
    PROVE  Asked(withdrawal, u, Open \cup {"COMPLETED"}) =
              Asked(withdrawal, u, Open) + Asked(withdrawal, u, {"COMPLETED"})
<1> DEFINE f == [w \in W!Request |-> withdrawal[w].amount]
           S == Chosen(withdrawal, u, Open)
           T == Chosen(withdrawal, u, {"COMPLETED"})
<1>1. Chosen(withdrawal, u, Open \cup {"COMPLETED"}) = S \cup T /\ S \cap T = {}
    BY DEF Chosen, Open
<1>2. \A w \in S \cup T : f[w] \in Int
    BY DEF Chosen, Requests, WithdrawalShape
<1>3. IsFiniteSet(S) /\ IsFiniteSet(T)
    <2>1. S \subseteq {w \in W!Request : withdrawal[w].status # "none"}
          /\ T \subseteq {w \in W!Request : withdrawal[w].status # "none"}
        BY DEF Chosen, Open
    <2> HIDE DEF S, T
    <2> QED  BY <2>1, FS_Subset DEF Requests
<1>4. SumOf(f, S \cup T) = SumOf(f, S) + SumOf(f, T)
    <2> HIDE DEF f, S, T
    <2> QED  BY <1>1, <1>2, <1>3, SumUnion
<1> QED  BY <1>1, <1>4 DEF Asked

\* Only startProcessing takes a withdrawal from PENDING to PROCESSING, and it
\* looks at the balance in its transaction.
LEMMA ProcessingStarts ==
    ASSUME FinanceInv, [FinanceNext]_financeVars, NEW w \in W!Request,
           withdrawal[w].status = "PENDING", withdrawal'[w].status = "PROCESSING"
    PROVE  wallet[W!Owner(w)].available >= 0
<1>0. Requests
    BY DEF FinanceInv
<1>1. ASSUME NEW v \in W!Request, NEW status, W!MoveTo(v, status)
      PROVE  v = w /\ status = "PROCESSING"
    <2>1. withdrawal' = [withdrawal EXCEPT ![v] =
                            [withdrawal[v] EXCEPT !.status = status, !.history = Append(@, status)]]
        BY <1>1 DEF W!MoveTo
    <2>2. withdrawal'[w] = IF w = v
             THEN [withdrawal[v] EXCEPT !.status = status, !.history = Append(@, status)]
             ELSE withdrawal[w]
        BY <1>0, <2>1 DEF Requests
    <2>3. v = w
        BY <2>2
    <2>4. withdrawal[v] = [status |-> withdrawal[v].status, amount |-> withdrawal[v].amount,
                           bank |-> withdrawal[v].bank, history |-> withdrawal[v].history]
        BY <1>0 DEF Requests, WithdrawalShape
    <2> QED  BY <2>2, <2>3, <2>4
<1>2. CASE UNCHANGED withdrawal
    BY <1>2
<1>3. ASSUME NEW v \in W!Request, NEW amount \in Amount, NEW b \in Bank, W!CreateWithdrawal(v, amount, b)
      PROVE  FALSE
    <2>1. withdrawal' = [withdrawal EXCEPT ![v] =
              [status |-> "PENDING", amount |-> amount, bank |-> b, history |-> <<"PENDING">>]]
        BY <1>3 DEF W!CreateWithdrawal
    <2> QED  BY <1>0, <2>1 DEF Requests
<1>4. ASSUME NEW v \in W!Request, W!Transition(v)
      PROVE  wallet[W!Owner(w)].available >= 0
    <2>1. CASE W!StartProcessing(v)
        BY <1>1, <2>1 DEF W!StartProcessing
    <2>2. CASE W!CompleteWithdrawal(v)
        BY <1>1, <2>2 DEF W!CompleteWithdrawal
    <2>3. ASSUME NEW status \in {"REJECTED", "FAILED"}, W!ReleaseWithdrawal(v, status) PROVE FALSE
        BY <1>1, <2>3 DEF W!ReleaseWithdrawal
    <2> QED  BY <1>4, <2>1, <2>2, <2>3 DEF W!Transition
<1> QED  BY <1>2, <1>3, <1>4, FinanceStepKinds DEF W!Adjust

\* A transfer starts only for money that was earned and kept
\* (WithdrawalService.startProcessing against AddLiveTagEngine.publish).
THEOREM ProcessingAlwaysEarned == FinanceSpec => ProcessingIsEarned
<1> DEFINE Covered == \A w \in W!Request :
          withdrawal[w].status = "PENDING" /\ withdrawal'[w].status = "PROCESSING" =>
             LET u == W!Owner(w) IN
             Earned(u) >= Requested(u, Open \cup {"COMPLETED"})
<1>1. ASSUME FinanceInv, [FinanceNext]_financeVars PROVE Covered
    <2> SUFFICES ASSUME NEW w \in W!Request, withdrawal[w].status = "PENDING",
                        withdrawal'[w].status = "PROCESSING"
                 PROVE  Earned(W!Owner(w)) >= Requested(W!Owner(w), Open \cup {"COMPLETED"})
        OBVIOUS
    <2>1. PICK u \in User : u = W!Owner(w)
        BY DEF W!Request, W!Owner
    <2>2. wallet[u].available >= 0 /\ wallet[u].available \in Int
        BY <1>1, <2>1, ProcessingStarts DEF FinanceInv, Accounts
    <2>3. /\ wallet[u].reserved = Requested(u, Open)
          /\ wallet[u].available + wallet[u].reserved + Requested(u, {"COMPLETED"}) = Earned(u)
        BY <1>1, SumsAgree
    <2>4. /\ Requested(u, Open) = Asked(withdrawal, u, Open)
          /\ Requested(u, {"COMPLETED"}) = Asked(withdrawal, u, {"COMPLETED"})
          /\ Requested(u, Open \cup {"COMPLETED"}) = Asked(withdrawal, u, Open \cup {"COMPLETED"})
        BY RequestedAsked
    <2>5. Asked(withdrawal, u, Open \cup {"COMPLETED"}) =
              Asked(withdrawal, u, Open) + Asked(withdrawal, u, {"COMPLETED"})
        BY <1>1, AskedSplit DEF FinanceInv
    <2>6. Asked(withdrawal, u, Open) \in Int /\ Asked(withdrawal, u, {"COMPLETED"}) \in Int
        BY <1>1, SumsTyped DEF FinanceInv, Open
    <2> QED  BY <2>1, <2>2, <2>3, <2>4, <2>5, <2>6
<1>2. FinanceInv /\ [FinanceNext]_financeVars => Covered
    BY <1>1
<1> QED  BY <1>2, FinanceAlways, PTL DEF FinanceSpec, ProcessingIsEarned

\* The withdrawals as claims.
Claims(table) == [w \in W!Request |-> [status |-> ClaimStatus(table[w].status),
                                       amount |-> table[w].amount]]

\* Movements that are no withdrawal's are entries of the account.
LEMMA MovesEnter ==
    ASSUME Accounts, NEW rows, Moves(rows), UNCHANGED withdrawal,
           \A row \in rows : row.key.kind \in EntryKind
    PROVE  A!Enter
<1> DEFINE old == {row \in ledger : row.key.kind \in EntryKind}
           new == {row \in ledger' : row.key.kind \in EntryKind}
<1>1. old \subseteq new /\ new \ old = rows
    BY DEF Moves
<1>2. ASSUME NEW u \in User
      PROVE  wallet'[u].available = wallet[u].available + A!Moved(u, rows)
    <2> DEFINE part == RowsOf(rows, u)
    <2>1. IsFiniteSet(part) /\ part \subseteq Rows
        BY PartFinite DEF Moves
    <2>2. MapThenSumSet(LAMBDA row : row.available, part) = Amounts(part)
        <3> HIDE DEF part
        <3> QED  BY <2>1, AmountsInt DEF Rows
    <2>3. A!Moved(u, rows) = MapThenSumSet(LAMBDA row : row.available, part)
        BY DEF A!Moved, RowsOf, A!MapThenSumSet, A!MapThenFoldSet, MapThenSumSet, MapThenFoldSet
    <2> QED  BY <2>2, <2>3 DEF Moves
<1>3. [u \in User |-> wallet'[u].available] = [u \in User |-> wallet[u].available + A!Moved(u, rows)]
    BY <1>2
<1>4. [u \in User |-> wallet'[u].available] =
         [u \in User |-> [v \in User |-> wallet[v].available][u] + A!Moved(u, new \ old)]
    <2> HIDE DEF old, new
    <2> QED  BY <1>1, <1>3
<1>5. Claims(withdrawal') = Claims(withdrawal)
    OBVIOUS
<1> QED  BY <1>1, <1>4, <1>5 DEF A!Enter, Claims

\* What A's variables stand for.
Free == [u \in User |-> wallet[u].available]
Entries == {row \in ledger : row.key.kind \in EntryKind}

\* A withdrawal's own movement of a row changes its owner's free money only.
LEMMA ClaimMoves ==
    ASSUME Accounts, Requests, NEW w \in W!Request, NEW row, NEW key,
           NEW available \in Int, NEW reserved,
           W!PostNew(W!Owner(w), key, available, reserved), key.kind \in {"reserve", "finalize"},
           withdrawal' = [withdrawal EXCEPT ![w] = row]
    PROVE  /\ Free' = [Free EXCEPT ![W!Owner(w)] = @ + available]
           /\ Entries' = Entries
           /\ Claims(withdrawal)' = [Claims(withdrawal) EXCEPT
                  ![w] = [status |-> ClaimStatus(row.status), amount |-> row.amount]]
<1>1. PICK u \in User : u = W!Owner(w)
    BY DEF W!Request, W!Owner
<1>2. Free' = [Free EXCEPT ![u] = @ + available]
    <2>1. \A v \in User : wallet'[v].available =
              IF v = u THEN wallet[v].available + available ELSE wallet[v].available
        BY <1>1 DEF W!PostNew, Accounts
    <2> QED  BY <2>1 DEF Free
<1>3. Entries' = Entries
    BY DEF Entries, EntryKind, W!PostNew, W!Row
<1>4. Claims(withdrawal)' = [Claims(withdrawal) EXCEPT
                  ![w] = [status |-> ClaimStatus(row.status), amount |-> row.amount]]
    <2>1. \A v \in W!Request : withdrawal'[v] = IF v = w THEN row ELSE withdrawal[v]
        BY DEF Requests
    <2> QED  BY <2>1 DEF Claims, ClaimStatus, Open, W!Request
<1> QED  BY <1>1, <1>2, <1>3, <1>4

\* A request holds an amount that is free.
LEMMA CreateHolds ==
    ASSUME FinanceInv, NEW w \in W!Request, NEW amount \in Amount, NEW b \in Bank,
           W!CreateWithdrawal(w, amount, b)
    PROVE  A!Hold(w, amount)
<1>0. Accounts /\ Requests
    BY DEF FinanceInv
<1>1. PICK row : row = [status |-> "PENDING", amount |-> amount, bank |-> b, history |-> <<"PENDING">>]
    OBVIOUS
<1>2. /\ withdrawal' = [withdrawal EXCEPT ![w] = row] /\ withdrawal[w].status = "none"
      /\ W!Post(W!Owner(w), ReserveKey(w), -amount, amount)
      /\ wallet[W!Owner(w)].available >= amount
    BY <1>1 DEF W!CreateWithdrawal, W!ReserveKey, ReserveKey, W!HasFunds
<1>3. W!PostNew(W!Owner(w), ReserveKey(w), -amount, amount)
    BY <1>2, PostIsNew DEF FinanceInv, Unposted
<1>4. amount \in Int /\ -amount \in Int /\ W!Owner(w) \in User /\ wallet[W!Owner(w)].available \in Int
    BY <1>0, FinanceConstants DEF W!Request, W!Owner, Accounts
<1>5. ReserveKey(w).kind \in {"reserve", "finalize"}
    BY DEF ReserveKey
<1>6. /\ Free' = [Free EXCEPT ![W!Owner(w)] = @ + (-amount)]
      /\ Entries' = Entries
      /\ Claims(withdrawal)' = [Claims(withdrawal) EXCEPT
                  ![w] = [status |-> ClaimStatus(row.status), amount |-> row.amount]]
    BY <1>0, <1>2, <1>3, <1>4, <1>5, ClaimMoves
<1>7. Free' = [Free EXCEPT ![W!Owner(w)] = @ - amount]
    <2>1. Free[W!Owner(w)] + (-amount) = Free[W!Owner(w)] - amount
        BY <1>4 DEF Free
    <2> QED  BY <1>6, <2>1
<1>8. Claims(withdrawal)' = [Claims(withdrawal) EXCEPT ![w] = [status |-> "held", amount |-> amount]]
    BY <1>1, <1>6 DEF ClaimStatus, Open
<1>9. Claims(withdrawal)[w].status = "none" /\ amount <= Free[W!Owner(w)]
    BY <1>2, <1>4 DEF Claims, ClaimStatus, Open, Free
<1> QED  BY <1>6, <1>7, <1>8, <1>9 DEF A!Hold, Free, Claims, Entries

\* A transition pays a claim, returns it, or leaves the account alone.
LEMMA TransitionEnds ==
    ASSUME FinanceInv, NEW w \in W!Request, W!Transition(w)
    PROVE  A!Pay(w) \/ A!Return(w) \/ UNCHANGED <<Free, Claims(withdrawal), Entries>>
<1>0. Accounts /\ Requests
    BY DEF FinanceInv
<1>1. PICK old : old = withdrawal[w]
    OBVIOUS
<1>2. /\ old = [status |-> old.status, amount |-> old.amount, bank |-> old.bank, history |-> old.history]
      /\ old.amount \in Nat /\ W!Owner(w) \in User
      /\ wallet[W!Owner(w)].available \in Int
    BY <1>0, <1>1 DEF Requests, WithdrawalShape, W!Request, W!Owner, Accounts
<1>3. ASSUME NEW status, W!MoveTo(w, status)
      PROVE  \E row : /\ row.status = status /\ row.amount = old.amount
                      /\ withdrawal' = [withdrawal EXCEPT ![w] = row]
    <2>1. PICK row : row = [old EXCEPT !.status = status, !.history = Append(@, status)]
        OBVIOUS
    <2>2. withdrawal' = [withdrawal EXCEPT ![w] = row]
        BY <1>0, <1>1, <1>3, <2>1 DEF W!MoveTo, Requests
    <2>3. row.status = status /\ row.amount = old.amount
        BY <1>2, <2>1
    <2> QED  BY <2>2, <2>3
<1>4. ASSUME NEW a \in Int, NEW status \in W!Final, old.status \in Open,
             W!Post(W!Owner(w), FinalizeKey(w), a, -old.amount), W!MoveTo(w, status)
      PROVE  /\ Free' = [Free EXCEPT ![W!Owner(w)] = @ + a]
             /\ Entries' = Entries
             /\ Claims(withdrawal)' = [Claims(withdrawal) EXCEPT
                    ![w] = [status |-> ClaimStatus(status), amount |-> old.amount]]
    <2>1. ~Posted(FinalizeKey(w))
        BY <1>1, <1>4 DEF FinanceInv, Unposted, Open, W!Final
    <2>2. W!PostNew(W!Owner(w), FinalizeKey(w), a, -old.amount)
        BY <1>4, <2>1, PostIsNew
    <2>3. PICK row : /\ row.status = status /\ row.amount = old.amount
                     /\ withdrawal' = [withdrawal EXCEPT ![w] = row]
        BY <1>3, <1>4
    <2>4. FinalizeKey(w).kind \in {"reserve", "finalize"}
        BY DEF FinalizeKey
    <2>5. PICK reserved : reserved = -old.amount
        OBVIOUS
    <2>6. /\ Free' = [Free EXCEPT ![W!Owner(w)] = @ + a]
          /\ Entries' = Entries
          /\ Claims(withdrawal)' = [Claims(withdrawal) EXCEPT
                    ![w] = [status |-> ClaimStatus(row.status), amount |-> row.amount]]
        BY <1>0, <2>2, <2>3, <2>4, <2>5, ClaimMoves
    <2> QED  BY <2>3, <2>6
<1>5. Claims(withdrawal)[w] = [status |-> ClaimStatus(old.status), amount |-> old.amount]
      /\ (old.status \in Open => ClaimStatus(old.status) = "held")
    <2>1. old.status \in Open => ClaimStatus(old.status) = "held"
        BY DEF ClaimStatus, Open
    <2> QED  BY <1>1, <2>1 DEF Claims
<1>9. ASSUME NEW status
      PROVE  [Claims(withdrawal) EXCEPT ![w] = [status |-> status, amount |-> old.amount]]
                = [Claims(withdrawal) EXCEPT ![w].status = status]
    <2>1. PICK C, q : C = Claims(withdrawal) /\ C[w] = [status |-> q, amount |-> old.amount]
        BY <1>5
    <2>2. [C[w] EXCEPT !.status = status] = [status |-> status, amount |-> old.amount]
        BY <2>1
    <2>3. [C EXCEPT ![w].status = status] = [C EXCEPT ![w] = [C[w] EXCEPT !.status = status]]
        OBVIOUS
    <2> QED  BY <2>1, <2>2, <2>3
<1>6. CASE W!StartProcessing(w)
    <2>1. W!MoveTo(w, "PROCESSING") /\ old.status = "PENDING" /\ UNCHANGED <<wallet, ledger>>
        BY <1>1, <1>6 DEF W!StartProcessing, W!Allowed
    <2>2. PICK row : /\ row.status = "PROCESSING" /\ row.amount = old.amount
                     /\ withdrawal' = [withdrawal EXCEPT ![w] = row]
        BY <1>3, <2>1
    <2>3. \A v \in W!Request : withdrawal'[v] = IF v = w THEN row ELSE withdrawal[v]
        BY <1>0, <2>2 DEF Requests
    <2>4. ClaimStatus(row.status) = ClaimStatus(old.status)
        BY <2>1, <2>2 DEF ClaimStatus, Open
    <2>5. Claims(withdrawal') = Claims(withdrawal)
        BY <1>1, <2>2, <2>3, <2>4 DEF Claims
    <2>6. Claims(withdrawal)' = Claims(withdrawal')
        BY DEF Claims, ClaimStatus, Open, W!Request
    <2>7. Free' = Free /\ Entries' = Entries
        BY <2>1 DEF Free, Entries, EntryKind
    <2> QED  BY <2>5, <2>6, <2>7
<1>7. CASE W!CompleteWithdrawal(w)
    <2>1. W!MoveTo(w, "COMPLETED") /\ old.status \in Open
          /\ W!Post(W!Owner(w), FinalizeKey(w), 0, -old.amount)
        BY <1>1, <1>7 DEF W!CompleteWithdrawal, W!Allowed, Open, W!FinalizeKey, FinalizeKey
    <2>2. 0 \in Int /\ "COMPLETED" \in W!Final /\ ClaimStatus("COMPLETED") = "paid"
        BY DEF W!Final, ClaimStatus, Open
    <2>3. /\ Free' = [Free EXCEPT ![W!Owner(w)] = @ + 0]
          /\ Entries' = Entries
          /\ Claims(withdrawal)' = [Claims(withdrawal) EXCEPT
                    ![w] = [status |-> "paid", amount |-> old.amount]]
        BY <1>4, <2>1, <2>2
    <2>4. Free' = Free
        <3>1. Free[W!Owner(w)] + 0 = Free[W!Owner(w)]
            BY <1>2 DEF Free
        <3>2. Free = [u \in User |-> Free[u]]
            BY DEF Free
        <3> QED  BY <2>3, <3>1, <3>2
    <2>5. Claims(withdrawal)' = [Claims(withdrawal) EXCEPT ![w].status = "paid"]
        BY <1>9, <2>3
    <2> QED  BY <1>5, <2>1, <2>3, <2>4, <2>5 DEF A!Pay, Free, Claims, Entries
<1>8. ASSUME NEW status \in {"REJECTED", "FAILED"}, W!ReleaseWithdrawal(w, status)
      PROVE  A!Return(w)
    <2>1. W!MoveTo(w, status) /\ old.status \in Open
          /\ W!Post(W!Owner(w), FinalizeKey(w), old.amount, -old.amount)
        BY <1>1, <1>8 DEF W!ReleaseWithdrawal, W!Allowed, Open, W!FinalizeKey, FinalizeKey
    <2>2. old.amount \in Int /\ status \in W!Final /\ ClaimStatus(status) = "returned"
        BY <1>2 DEF W!Final, ClaimStatus, Open
    <2>3. /\ Free' = [Free EXCEPT ![W!Owner(w)] = @ + old.amount]
          /\ Entries' = Entries
          /\ Claims(withdrawal)' = [Claims(withdrawal) EXCEPT
                    ![w] = [status |-> "returned", amount |-> old.amount]]
        BY <1>4, <2>1, <2>2
    <2>4. Claims(withdrawal)' = [Claims(withdrawal) EXCEPT ![w].status = "returned"]
        BY <1>9, <2>3
    <2>5. Free' = [Free EXCEPT ![W!Owner(w)] = @ + Claims(withdrawal)[w].amount]
        BY <1>5, <2>3
    <2> QED  BY <1>5, <2>1, <2>3, <2>4, <2>5 DEF A!Return, Free, Claims, Entries
<1> QED  BY <1>6, <1>7, <1>8 DEF W!Transition

\* An adjustment enters, unless it is a replay.
LEMMA AdjustEnters ==
    ASSUME FinanceInv, NEW u \in User, NEW a \in AdjustmentId,
           NEW amount \in AdjustmentAmount, W!Adjust(u, a, amount)
    PROVE  A!Enter \/ UNCHANGED <<wallet, ledger, withdrawal>>
<1>1. /\ amount \in Int /\ AdjustmentKey(a) \in AnyKey /\ 0 \in Int /\ UNCHANGED withdrawal
      /\ W!Post(u, AdjustmentKey(a), amount, 0)
    BY FinanceConstants DEF W!Adjust, AdjustmentKey, AnyKey, W!MoneyKey, W!AdjustmentKey
<1>2. CASE W!PostNew(u, AdjustmentKey(a), amount, 0)
    <2>1. Moves({Row(u, AdjustmentKey(a), amount, 0)})
        BY <1>1, <1>2, PostNewMoves DEF FinanceInv
    <2>2. \A row \in {Row(u, AdjustmentKey(a), amount, 0)} : row.key.kind \in EntryKind
        BY DEF Row, AdjustmentKey, EntryKind
    <2> QED  BY <1>1, <2>1, <2>2, MovesEnter DEF FinanceInv
<1> QED  BY <1>1, <1>2 DEF W!Post, W!walletVars

\* So do the credits and reversals of the settlement side.
LEMMA SettlementEnters ==
    ASSUME FinanceInv, [SettlementNext]_settlementVars, UNCHANGED withdrawal
    PROVE  A!Enter \/ UNCHANGED <<wallet, ledger, withdrawal>>
<1>1. ASSUME NEW rows, Movements(rows), PostAll(rows) PROVE A!Enter
    <2>1. Moves(rows \ ledger)
        BY <1>1, PostAllMoves DEF FinanceInv
    <2>2. \A row \in rows \ ledger : row.key.kind \in EntryKind
        BY <1>1 DEF Movements, RowOf, CreditKey, EntryKind
    <2>3. Accounts
        BY DEF FinanceInv
    <2> QED  BY <2>1, <2>2, <2>3, MovesEnter
<1> QED  BY <1>1, StepPosts DEF FinanceInv, walletVars

\* What leaves wallets, ledger and withdrawals alone leaves the account alone.
LEMMA StillAccount ==
    UNCHANGED <<wallet, ledger, withdrawal>> => UNCHANGED <<Free, Claims(withdrawal), Entries>>
BY DEF Free, Claims, Entries, EntryKind, ClaimStatus, Open, W!Request

\* Every step of the backend's money is one of the account, or leaves it alone.
LEMMA AccountStep == FinanceInv /\ [FinanceNext]_financeVars => [A!AccountNext]_(A!accountVars)
<1> SUFFICES ASSUME FinanceInv, [FinanceNext]_financeVars
             PROVE  A!AccountNext \/ UNCHANGED <<Free, Claims(withdrawal), Entries>>
    BY DEF A!accountVars, Free, Claims, Entries
<1>1. CASE [SettlementNext]_settlementVars /\ UNCHANGED withdrawal
    BY <1>1, SettlementEnters, StillAccount DEF A!AccountNext
<1>2. ASSUME NEW w \in W!Request, NEW amount \in Amount, NEW b \in Bank, W!CreateWithdrawal(w, amount, b)
      PROVE  A!AccountNext
    BY <1>2, CreateHolds DEF A!AccountNext
<1>3. ASSUME NEW w \in W!Request, W!Transition(w)
      PROVE  A!AccountNext \/ UNCHANGED <<Free, Claims(withdrawal), Entries>>
    BY <1>3, TransitionEnds DEF A!AccountNext
<1>4. ASSUME NEW u \in User, NEW a \in AdjustmentId, NEW amount \in AdjustmentAmount, W!Adjust(u, a, amount)
      PROVE  A!AccountNext \/ UNCHANGED <<Free, Claims(withdrawal), Entries>>
    BY <1>4, AdjustEnters, StillAccount DEF A!AccountNext
<1> QED  BY <1>1, <1>2, <1>3, <1>4, FinanceStepKinds, StillAccount

\* A system without orders is an account without entries.
LEMMA AccountStart == FinanceInit => A!AccountInit
<1> SUFFICES ASSUME FinanceInit PROVE A!AccountInit
    OBVIOUS
<1>1. /\ ledger = {} /\ wallet = [u \in User |-> [available |-> 0, reserved |-> 0]]
      /\ withdrawal = [w \in W!Request |-> W!NoWithdrawal]
    BY DEF FinanceInit, W!WithdrawalInit, W!WalletInit
<1>2. Free = [u \in User |-> 0] /\ Entries = {}
    BY <1>1 DEF Free, Entries
<1>3. Claims(withdrawal) = [w \in W!Request |-> [status |-> "none", amount |-> 0]]
    BY <1>1 DEF Claims, ClaimStatus, Open, W!NoWithdrawal
<1> QED  BY <1>2, <1>3 DEF A!AccountInit, Free, Entries, Claims

\* The detailed money of four tables implements the account: what is free moves
\* by entries and claims alone, a claim never takes more than is free and is
\* paid or returned once (WalletService.post and everything that calls it).
THEOREM FinanceImplementsAccount == FinanceSpec => ImplementsAccount
BY FinanceAlways, AccountStart, AccountStep, PTL DEF FinanceSpec, ImplementsAccount, A!AccountSpec

-----------------------------------------------------------------------------
\* What the pages show (Pages), from FinanceInv and the rows of each order and
\* withdrawal.

\* The cashback of one commission: it is reversed with it, and only an order
\* that has a user has one.
Paired(c) ==
    /\ (cashback[c].state = "REVERSED" <=> commission[c].state = "REVERSED")
    /\ cashback[c].state # "none" => commission[c].user # Nobody

\* The rows of one withdrawal are those of its status.
Fate(w) ==
    /\ {row \in ledger : row.key = ReserveKey(w)} = W!ReserveRows(w)
    /\ {row \in ledger : row.key = FinalizeKey(w)} = W!FinalizeRows(w)

\* The history of one withdrawal leads from PENDING to its status.
Timeline(w) ==
    LET history == withdrawal[w].history IN
    withdrawal[w].status # "none" =>
        /\ history \in Seq(W!Status) /\ history # <<>>
        /\ history[1] = "PENDING"
        /\ history[Len(history)] = withdrawal[w].status

\* The bank rows, of which finitely many exist.
Banks ==
    /\ bank \in [Bank -> W!BankRow]
    /\ IsFiniteSet({b \in Bank : bank[b].status # "none"})

\* What the pages rest on, besides FinanceInv.
PagesInv ==
    /\ FinanceInv /\ Banks
    /\ \A c \in Checkout : Rowed(c) /\ Paired(c)
    /\ \A w \in W!Request : Fate(w) /\ Timeline(w)

\* A publication keeps cashbacks and commissions paired, ...
LEMMA PairedPublish ==
    ASSUME Tables, NEW report \in Report, Publish(report), NEW c \in Checkout, Paired(c)
    PROVE  Paired(c)'
<1>0. commission[c] \in CommissionRow /\ cashback[c] \in CashbackRow /\ Shaped
      /\ (Settled(c) => commission[c].user # Nobody)
    BY TablesShaped DEF Tables
<1>1. ASSUME NEW s \in Snapshot, Recorded(c, s) PROVE Paired(c)'
    <2>1. /\ commission'[c] = PublishedCommission(c, s) /\ cashback'[c] = PublishedCashback(c, s)
          /\ ~Settled(c)
        BY <1>1 DEF Recorded
    <2>2. commission'[c].state # "REVERSED" /\ commission'[c].user = PublishedUser(c, s)
        <3>1. commission'[c].state # "REVERSED"
            BY <2>1, PublishedNotPaid
        <3>2. PublishedCommission(c, s).user = PublishedUser(c, s)
            BY DEF PublishedCommission
        <3> QED  BY <2>1, <3>1, <3>2
    <2>3. CASE PublishedUser(c, s) = Nobody
        <3>1. cashback'[c] = cashback[c] /\ commission[c].user = Nobody
            BY <2>1, <2>3 DEF PublishedCashback, PublishedUser
        <3>2. cashback[c].state = "none"
            BY <3>1 DEF Paired
        <3> QED  BY <2>2, <3>1, <3>2 DEF Paired
    <2>4. CASE PublishedUser(c, s) # Nobody
        <3>1. cashback'[c].state \in {"VALIDATED", "REJECTED", "PENDING"}
            BY <2>1, <2>4 DEF PublishedCashback, CashbackFor
        <3> QED  BY <2>2, <2>4, <3>1 DEF Paired
    <2> QED  BY <2>3, <2>4
<1>2. CASE ReRecorded(c)
    BY <1>0, <1>2 DEF ReRecorded, Paired, CommissionRow, CashbackRow
<1>3. CASE Skipped(c)
    BY <1>3 DEF Skipped, Paired
<1>4. \A d \in DOMAIN report : report[d] \in Snapshot
    BY DEF Report
<1> QED  BY <1>0, <1>1, <1>2, <1>3, <1>4, PublishCases

\* ... and so does every other step of the settlement side.
LEMMA PairedStep ==
    ASSUME Tables, [SettlementNext]_settlementVars, NEW c \in Checkout, Paired(c)
    PROVE  Paired(c)'
<1>0. commission[c] \in CommissionRow /\ cashback[c] \in CashbackRow
      /\ commission \in [Checkout -> CommissionRow] /\ cashback \in [Checkout -> CashbackRow]
    BY DEF Tables
<1>1. CASE UNCHANGED <<commission, cashback>>
    BY <1>1 DEF Paired
<1>2. ASSUME NEW d \in Checkout, Exclude(d) PROVE Paired(c)'
    <2>1. CASE d # c
        <3>1. commission'[c] = commission[c] /\ cashback'[c] = cashback[c]
            BY <1>0, <1>2, <2>1 DEF Exclude
        <3> QED  BY <3>1 DEF Paired
    <2>2. CASE d = c
        <3>1. commission'[c].state = "REJECTED" /\ commission'[c].user = commission[c].user
            BY <1>0, <1>2, <2>2 DEF Exclude, CommissionRow
        <3>2. \/ cashback[c].state = "none" /\ cashback'[c].state = "none"
              \/ cashback[c].state # "none" /\ cashback'[c].state = "REJECTED"
            BY <1>0, <1>2, <2>2 DEF Exclude, CashbackRow
        <3> QED  BY <3>1, <3>2 DEF Paired
    <2> QED  BY <2>1, <2>2
<1>3. ASSUME NEW d \in Checkout, NEW link \in Link, NEW amount \in Accepted,
             Approve(d, link, amount)
      PROVE  Paired(c)'
    <2>1. PICK state \in {"VALIDATED", "ESTIMATED"} :
             /\ commission' = [commission EXCEPT ![d].state = state, ![d].user = LinkOwner[link],
                                                 ![d].estimated = amount]
             /\ cashback' = [cashback EXCEPT ![d] =
                   CashbackFor(d, amount, IF state = "VALIDATED" THEN state ELSE "PENDING")]
        BY <1>3 DEF Approve, ApprovedState
    <2>2. CASE d # c
        <3>1. commission'[c] = commission[c] /\ cashback'[c] = cashback[c]
            BY <1>0, <2>1, <2>2
        <3> QED  BY <3>1 DEF Paired
    <2>3. CASE d = c
        <3>1. commission'[c].state = state /\ commission'[c].user = LinkOwner[link]
            BY <1>0, <2>1, <2>3 DEF CommissionRow
        <3>2. cashback'[c].state \in {"VALIDATED", "PENDING"}
            BY <1>0, <2>1, <2>3 DEF CashbackFor
        <3>3. LinkOwner[link] # Nobody
            BY CommissionConstants
        <3> QED  BY <3>1, <3>2, <3>3 DEF Paired
    <2> QED  BY <2>2, <2>3
<1>4. ASSUME NEW b \in Batch, ConfirmSettlement(b) PROVE Paired(c)'
    <2>1. CASE c \in batch[b].members
        <3>1. commission[c].user # Nobody
            BY <1>4, <2>1 DEF ConfirmSettlement, Unchanged
        <3>2. commission'[c].state = "PAID" /\ commission'[c].user = commission[c].user
            BY <1>0, <1>4, <2>1 DEF ConfirmSettlement, CommissionRow
        <3>3. cashback'[c].state = "AVAILABLE"
            BY <1>4, <2>1 DEF ConfirmSettlement
        <3> QED  BY <3>1, <3>2, <3>3 DEF Paired
    <2>2. CASE c \notin batch[b].members
        <3>1. commission'[c] = commission[c] /\ cashback'[c] = cashback[c]
            BY <1>4, <2>2 DEF ConfirmSettlement
        <3> QED  BY <3>1 DEF Paired
    <2> QED  BY <2>1, <2>2
<1> QED  BY <1>1, <1>2, <1>3, <1>4, PairedPublish, StepKinds
            DEF CreateSettlement, CancelSettlement, commissionVars, Quiet

-----------------------------------------------------------------------------
\* The rows of a withdrawal that a step does not touch.
LEMMA FateKept ==
    ASSUME NEW w \in W!Request, Fate(w), withdrawal'[w] = withdrawal[w], ledger \subseteq ledger',
           \A row \in ledger' \ ledger : row.key # ReserveKey(w) /\ row.key # FinalizeKey(w)
    PROVE  Fate(w)'
<1>1. /\ {row \in ledger' : row.key = ReserveKey(w)} = {row \in ledger : row.key = ReserveKey(w)}
      /\ {row \in ledger' : row.key = FinalizeKey(w)} = {row \in ledger : row.key = FinalizeKey(w)}
    OBVIOUS
<1>2. W!ReserveRows(w)' = W!ReserveRows(w) /\ W!FinalizeRows(w)' = W!FinalizeRows(w)
    BY DEF W!ReserveRows, W!FinalizeRows, W!Row, W!ReserveKey, W!FinalizeKey, W!Owner
<1> QED  BY <1>1, <1>2 DEF Fate, ReserveKey, FinalizeKey

\* The rows a withdrawal has when it has this row.
LEMMA FateOf ==
    ASSUME NEW w, NEW old, old = withdrawal[w]
    PROVE  /\ W!ReserveRows(w) = IF old.status = "none" THEN {}
                                 ELSE {Row(W!Owner(w), ReserveKey(w), -old.amount, old.amount)}
           /\ old.status = "COMPLETED" =>
                 W!FinalizeRows(w) = {Row(W!Owner(w), FinalizeKey(w), 0, -old.amount)}
           /\ old.status \in {"REJECTED", "FAILED"} =>
                 W!FinalizeRows(w) = {Row(W!Owner(w), FinalizeKey(w), old.amount, -old.amount)}
           /\ old.status \in Open \cup {"none"} => W!FinalizeRows(w) = {}
BY DEF W!ReserveRows, W!FinalizeRows, W!Row, W!ReserveKey, W!FinalizeKey, Row, ReserveKey,
       FinalizeKey, Open

\* ... and after a step.
LEMMA FateAfter ==
    ASSUME NEW w, NEW new, new = withdrawal'[w]
    PROVE  /\ W!ReserveRows(w)' = IF new.status = "none" THEN {}
                                  ELSE {Row(W!Owner(w), ReserveKey(w), -new.amount, new.amount)}
           /\ new.status = "COMPLETED" =>
                 W!FinalizeRows(w)' = {Row(W!Owner(w), FinalizeKey(w), 0, -new.amount)}
           /\ new.status \in {"REJECTED", "FAILED"} =>
                 W!FinalizeRows(w)' = {Row(W!Owner(w), FinalizeKey(w), new.amount, -new.amount)}
           /\ new.status \in Open \cup {"none"} => W!FinalizeRows(w)' = {}
BY DEF W!ReserveRows, W!FinalizeRows, W!Row, W!ReserveKey, W!FinalizeKey, W!Owner, Row, ReserveKey,
       FinalizeKey, Open

\* A new row of w is the only one with its key.
LEMMA RowAdded ==
    ASSUME NEW key, {row \in ledger : row.key = key} = {}, NEW u, NEW a, NEW r,
           W!Post(u, key, a, r)
    PROVE  /\ ledger' = ledger \cup {Row(u, key, a, r)}
           /\ {row \in ledger' : row.key = key} = {Row(u, key, a, r)}
           /\ \A k : k # key => {row \in ledger' : row.key = k} = {row \in ledger : row.key = k}
<1>1. ~Posted(key)
    BY DEF Posted
<1>2. W!PostNew(u, key, a, r)
    BY <1>1, PostIsNew
<1>3. ledger' = ledger \cup {Row(u, key, a, r)} /\ Row(u, key, a, r).key = key
    BY <1>2 DEF W!PostNew, W!Row, Row
<1> QED  BY <1>3

\* A request writes its reserve row (WithdrawalService.create).
LEMMA FateCreated ==
    ASSUME Requests, NEW w \in W!Request, Fate(w), NEW amount, NEW b,
           W!CreateWithdrawal(w, amount, b)
    PROVE  /\ Fate(w)'
           /\ ledger' = ledger \cup {Row(W!Owner(w), ReserveKey(w), -amount, amount)}
           /\ withdrawal' = [v \in W!Request |->
                 IF v = w THEN [status |-> "PENDING", amount |-> amount, bank |-> b,
                                history |-> <<"PENDING">>]
                 ELSE withdrawal[v]]
<1>1. withdrawal' = [v \in W!Request |->
                 IF v = w THEN [status |-> "PENDING", amount |-> amount, bank |-> b,
                                history |-> <<"PENDING">>]
                 ELSE withdrawal[v]]
    BY DEF W!CreateWithdrawal, Requests
<1>2. PICK new : new = withdrawal'[w]
    OBVIOUS
<1>3. new.status = "PENDING" /\ new.amount = amount
    BY <1>1, <1>2
<1>4. withdrawal[w].status = "none"
    BY DEF W!CreateWithdrawal
<1>5. W!ReserveRows(w) = {} /\ W!FinalizeRows(w) = {}
    BY <1>4, FateOf
<1>6. {row \in ledger : row.key = ReserveKey(w)} = {} /\ {row \in ledger : row.key = FinalizeKey(w)} = {}
    BY <1>5 DEF Fate
<1>7. W!Post(W!Owner(w), ReserveKey(w), -amount, amount)
    BY DEF W!CreateWithdrawal, W!ReserveKey, ReserveKey
<1>8. PICK key : key = ReserveKey(w)
    OBVIOUS
<1>9. /\ ledger' = ledger \cup {Row(W!Owner(w), key, -amount, amount)}
      /\ {row \in ledger' : row.key = key} = {Row(W!Owner(w), key, -amount, amount)}
      /\ \A k : k # key => {row \in ledger' : row.key = k} = {row \in ledger : row.key = k}
    BY <1>6, <1>7, <1>8, RowAdded
<1>10. FinalizeKey(w) # key
    BY <1>8 DEF FinalizeKey, ReserveKey
<1>11. {row \in ledger' : row.key = FinalizeKey(w)} = {}
    BY <1>6, <1>9, <1>10
<1>12. /\ W!ReserveRows(w)' = {Row(W!Owner(w), key, -amount, amount)}
       /\ W!FinalizeRows(w)' = {}
    BY <1>2, <1>3, <1>8, FateAfter DEF Open
<1> QED  BY <1>1, <1>8, <1>9, <1>11, <1>12 DEF Fate, ReserveKey, FinalizeKey

\* A transition writes a status and appends it to the history.
LEMMA MovedRow ==
    ASSUME Requests, NEW w \in W!Request, NEW status, W!MoveTo(w, status)
    PROVE  withdrawal' = [v \in W!Request |->
              IF v = w THEN [status |-> status, amount |-> withdrawal[w].amount,
                             bank |-> withdrawal[w].bank,
                             history |-> Append(withdrawal[w].history, status)]
              ELSE withdrawal[v]]
<1>1. PICK old : old = withdrawal[w]
    OBVIOUS
<1>2. old = [status |-> old.status, amount |-> old.amount, bank |-> old.bank,
             history |-> old.history]
    BY <1>1 DEF Requests, WithdrawalShape
<1>3. PICK new : new = [old EXCEPT !.status = status, !.history = Append(@, status)]
    OBVIOUS
<1>4. new = [status |-> status, amount |-> old.amount, bank |-> old.bank,
             history |-> Append(old.history, status)]
    BY <1>2, <1>3
<1>5. withdrawal' = [withdrawal EXCEPT ![w] = new]
    BY <1>1, <1>3 DEF W!MoveTo, Requests
<1>6. withdrawal' = [v \in W!Request |-> IF v = w THEN new ELSE withdrawal[v]]
    BY <1>5 DEF Requests
<1> QED  BY <1>1, <1>4, <1>6

\* A transition writes the finalize row of the status it sets, and only from an
\* open one (WithdrawalService.transition).
LEMMA FateMoved ==
    ASSUME Requests, NEW w \in W!Request, Fate(w), W!Transition(w)
    PROVE  /\ Fate(w)'
           /\ ledger \subseteq ledger' /\ \A row \in ledger' \ ledger : row.key = FinalizeKey(w)
           /\ \E status \in W!Status :
                 W!MoveTo(w, status) /\ withdrawal[w].status \in Open
<1>1. PICK old, key : old = withdrawal[w] /\ key = FinalizeKey(w)
    OBVIOUS
<1>2. WithdrawalShape(old) /\ old.amount \in Nat
    BY <1>1 DEF Requests, WithdrawalShape
<1>3. key # ReserveKey(w)
    BY <1>1 DEF FinalizeKey, ReserveKey
<1>4. ASSUME NEW status \in W!Status, W!MoveTo(w, status)
      PROVE  /\ withdrawal'[w].status = status /\ withdrawal'[w].amount = old.amount
             /\ old.status # "none" => W!ReserveRows(w)' = W!ReserveRows(w)
    <2>1. withdrawal' = [v \in W!Request |->
              IF v = w THEN [status |-> status, amount |-> withdrawal[w].amount,
                             bank |-> withdrawal[w].bank,
                             history |-> Append(withdrawal[w].history, status)]
              ELSE withdrawal[v]]
        BY <1>4, MovedRow
    <2>2. PICK new : new = withdrawal'[w]
        OBVIOUS
    <2>3. new.status = status /\ new.amount = old.amount
        BY <1>1, <2>1, <2>2
    <2>4. status # "none"
        BY DEF W!Status
    <2>5. W!ReserveRows(w)' = {Row(W!Owner(w), ReserveKey(w), -new.amount, new.amount)}
        BY <2>2, <2>3, <2>4, FateAfter
    <2>6. old.status # "none" =>
             W!ReserveRows(w) = {Row(W!Owner(w), ReserveKey(w), -old.amount, old.amount)}
        BY <1>1, FateOf
    <2> QED  BY <2>2, <2>3, <2>5, <2>6
<1>5. ASSUME NEW status \in W!Final, W!MoveTo(w, status), old.status \in Open, NEW a,
             W!Post(W!Owner(w), key, a, -old.amount),
             a = IF status = "COMPLETED" THEN 0 ELSE old.amount
      PROVE  /\ Fate(w)'
             /\ ledger \subseteq ledger' /\ \A row \in ledger' \ ledger : row.key = key
    <2>1. status \in W!Status /\ old.status # "none"
        BY <1>5 DEF W!Final, W!Status, Open
    <2>2. {row \in ledger : row.key = key} = {}
        BY <1>1, <1>5, FateOf DEF Fate
    <2>3. PICK x : x = Row(W!Owner(w), key, a, -old.amount)
        OBVIOUS
    <2>4. /\ ledger' = ledger \cup {x}
          /\ {row \in ledger' : row.key = key} = {x}
          /\ {row \in ledger' : row.key = ReserveKey(w)} = {row \in ledger : row.key = ReserveKey(w)}
        <3>1. PICK u, r : u = W!Owner(w) /\ r = -old.amount
            OBVIOUS
        <3>2. W!Post(u, key, a, r) /\ x = Row(u, key, a, r)
            BY <1>5, <2>3, <3>1
        <3>3. /\ ledger' = ledger \cup {Row(u, key, a, r)}
              /\ {row \in ledger' : row.key = key} = {Row(u, key, a, r)}
              /\ \A k : k # key => {row \in ledger' : row.key = k} = {row \in ledger : row.key = k}
            BY <2>2, <3>2, RowAdded
        <3> QED  BY <1>3, <3>2, <3>3
    <2>5. PICK new : new = withdrawal'[w]
        OBVIOUS
    <2>6. /\ new.status = status /\ new.amount = old.amount
          /\ W!ReserveRows(w)' = W!ReserveRows(w)
        BY <1>4, <1>5, <2>1, <2>5
    <2>7. W!FinalizeRows(w)' = {x}
        BY <1>1, <1>5, <2>3, <2>5, <2>6, FateAfter DEF W!Final
    <2>8. x.key = key
        BY <2>3 DEF Row
    <2>9. Fate(w)'
        BY <1>1, <2>4, <2>6, <2>7 DEF Fate, FinalizeKey, ReserveKey
    <2> QED  BY <2>4, <2>8, <2>9
<1>6. CASE W!StartProcessing(w)
    <2>1. W!MoveTo(w, "PROCESSING") /\ old.status = "PENDING" /\ ledger' = ledger
        BY <1>1, <1>6 DEF W!StartProcessing, W!Allowed
    <2>2. "PROCESSING" \in W!Status /\ old.status \in Open /\ "PROCESSING" \in Open
        BY <2>1 DEF W!Status, Open
    <2>3. PICK new : new = withdrawal'[w]
        OBVIOUS
    <2>4. new.status = "PROCESSING" /\ W!ReserveRows(w)' = W!ReserveRows(w)
        BY <1>4, <2>1, <2>2, <2>3
    <2>5. W!FinalizeRows(w)' = {} /\ W!FinalizeRows(w) = {}
        BY <1>1, <2>2, <2>3, <2>4, FateOf, FateAfter
    <2>6. Fate(w)'
        BY <2>1, <2>4, <2>5 DEF Fate, FinalizeKey, ReserveKey
    <2> QED  BY <1>1, <2>1, <2>2, <2>6
<1>7. CASE W!CompleteWithdrawal(w)
    <2>1. W!MoveTo(w, "COMPLETED") /\ old.status \in Open
          /\ W!Post(W!Owner(w), key, 0, -old.amount)
        BY <1>1, <1>7 DEF W!CompleteWithdrawal, W!Allowed, Open, W!FinalizeKey, FinalizeKey
    <2>2. "COMPLETED" \in W!Final /\ "COMPLETED" \in W!Status
        BY DEF W!Final, W!Status
    <2> QED  BY <1>1, <1>5, <2>1, <2>2
<1>8. ASSUME NEW status \in {"REJECTED", "FAILED"}, W!ReleaseWithdrawal(w, status)
      PROVE  /\ Fate(w)'
             /\ ledger \subseteq ledger' /\ \A row \in ledger' \ ledger : row.key = key
             /\ \E s \in W!Status : W!MoveTo(w, s) /\ withdrawal[w].status \in Open
    <2>1. W!MoveTo(w, status) /\ old.status \in Open
          /\ W!Post(W!Owner(w), key, old.amount, -old.amount)
        BY <1>1, <1>8 DEF W!ReleaseWithdrawal, W!Allowed, Open, W!FinalizeKey, FinalizeKey
    <2>2. status \in W!Final /\ status \in W!Status /\ status # "COMPLETED"
        BY DEF W!Final, W!Status
    <2> QED  BY <1>1, <1>5, <2>1, <2>2
<1> QED  BY <1>1, <1>6, <1>7, <1>8 DEF W!Transition

\* A transition continues the history of a request.
LEMMA TimelineMoved ==
    ASSUME Requests, NEW w \in W!Request, NEW status \in W!Status,
           W!MoveTo(w, status), withdrawal[w].status # "none", Timeline(w)
    PROVE  Timeline(w)'
<1>1. PICK h \in Seq(W!Status) : h = withdrawal[w].history /\ h # <<>> /\ h[1] = "PENDING"
    BY DEF Timeline
<1>2. PICK g : g = Append(h, status)
    OBVIOUS
<1>3. withdrawal'[w].history = g /\ withdrawal'[w].status = status
    BY <1>1, <1>2, MovedRow
<1>4. Len(h) \in Nat /\ Len(h) > 0
    BY <1>1
<1>5. g \in Seq(W!Status) /\ Len(g) = Len(h) + 1 /\ g[1] = "PENDING" /\ g[Len(g)] = status
    BY <1>1, <1>2, <1>4
<1>6. g # <<>>
    BY <1>4, <1>5
<1> QED  BY <1>3, <1>5, <1>6 DEF Timeline, W!Status

\* What the pages need of the withdrawals in every step: a request has its rows
\* and a timeline, and the ledger grows by rows of the one that moved.
LEMMA RequestsKept ==
    ASSUME Requests, \A w \in W!Request : Fate(w) /\ Timeline(w),
           NEW v \in W!Request, Fate(v)', Timeline(v)', ledger \subseteq ledger',
           \A row \in ledger' \ ledger : row.key \in {ReserveKey(v), FinalizeKey(v)},
           \A w \in W!Request \ {v} : withdrawal'[w] = withdrawal[w]
    PROVE  \A w \in W!Request : Fate(w)' /\ Timeline(w)'
<1> SUFFICES ASSUME NEW w \in W!Request PROVE Fate(w)' /\ Timeline(w)'
    BY DEF W!Request
<1>1. CASE w = v
    BY <1>1
<1>2. CASE w # v
    <2>1. \A row \in ledger' \ ledger : row.key # ReserveKey(w) /\ row.key # FinalizeKey(w)
        BY <1>2 DEF ReserveKey, FinalizeKey
    <2>2. Fate(w)'
        BY <1>2, <2>1, FateKept
    <2>3. Timeline(w)'
        BY <1>2 DEF Timeline, W!Status
    <2> QED  BY <2>2, <2>3
<1> QED  BY <1>1, <1>2

\* Steps of others add no rows of withdrawals.
LEMMA RequestsAnyway ==
    ASSUME \A w \in W!Request : Fate(w) /\ Timeline(w), UNCHANGED withdrawal,
           ledger \subseteq ledger',
           \A row \in ledger' \ ledger : row.key.kind \notin {"reserve", "finalize"}
    PROVE  \A w \in W!Request : Fate(w)' /\ Timeline(w)'
<1> SUFFICES ASSUME NEW w \in W!Request PROVE Fate(w)' /\ Timeline(w)'
    BY DEF W!Request
<1>1. \A row \in ledger' \ ledger : row.key # ReserveKey(w) /\ row.key # FinalizeKey(w)
    BY DEF ReserveKey, FinalizeKey
<1>2. Fate(w)'
    BY <1>1, FateKept
<1>3. Timeline(w)'
    BY DEF Timeline, W!Status
<1> QED  BY <1>2, <1>3

\* The rows and timelines of all withdrawals after a request (WithdrawalService.create), ...
LEMMA CreateShows ==
    ASSUME Requests, \A w \in W!Request : Fate(w) /\ Timeline(w),
           NEW v \in W!Request, NEW amount, NEW b, W!CreateWithdrawal(v, amount, b)
    PROVE  \A w \in W!Request : Fate(w)' /\ Timeline(w)'
<1>1. /\ Fate(v)'
      /\ ledger' = ledger \cup {Row(W!Owner(v), ReserveKey(v), -amount, amount)}
      /\ withdrawal' = [w \in W!Request |->
            IF w = v THEN [status |-> "PENDING", amount |-> amount, bank |-> b,
                           history |-> <<"PENDING">>]
            ELSE withdrawal[w]]
    BY FateCreated
<1>2. Row(W!Owner(v), ReserveKey(v), -amount, amount).key = ReserveKey(v)
    BY DEF Row
<1>3. withdrawal'[v].status = "PENDING" /\ withdrawal'[v].history = <<"PENDING">>
    BY <1>1
<1>4. Timeline(v)'
    BY <1>3 DEF Timeline, W!Status
<1> QED  BY <1>1, <1>2, <1>4, RequestsKept

\* ... and after a transition (WithdrawalService.transition).
LEMMA TransitionShows ==
    ASSUME Requests, \A w \in W!Request : Fate(w) /\ Timeline(w),
           NEW v \in W!Request, W!Transition(v)
    PROVE  \A w \in W!Request : Fate(w)' /\ Timeline(w)'
<1>1. /\ Fate(v)'
      /\ ledger \subseteq ledger' /\ \A row \in ledger' \ ledger : row.key = FinalizeKey(v)
    BY FateMoved
<1>2. PICK status \in W!Status : W!MoveTo(v, status) /\ withdrawal[v].status \in Open
    BY FateMoved
<1>3. withdrawal' = [w \in W!Request |->
              IF w = v THEN [status |-> status, amount |-> withdrawal[v].amount,
                             bank |-> withdrawal[v].bank,
                             history |-> Append(withdrawal[v].history, status)]
              ELSE withdrawal[w]]
    BY <1>2, MovedRow
<1>4. withdrawal[v].status # "none"
    BY <1>2 DEF Open
<1>5. Timeline(v)'
    BY <1>2, <1>4, TimelineMoved
<1> QED  BY <1>1, <1>3, <1>5, RequestsKept

\* An adjustment adds its own row or none.
LEMMA AdjustShows ==
    ASSUME \A w \in W!Request : Fate(w) /\ Timeline(w),
           NEW u, NEW a, NEW amount, W!Adjust(u, a, amount)
    PROVE  \A w \in W!Request : Fate(w)' /\ Timeline(w)'
<1>1. UNCHANGED withdrawal /\ W!Post(u, AdjustmentKey(a), amount, 0)
    BY DEF W!Adjust, W!AdjustmentKey, AdjustmentKey
<1>2. \/ ledger' = ledger
      \/ ledger' = ledger \cup {Row(u, AdjustmentKey(a), amount, 0)}
    BY <1>1 DEF W!Post, W!PostNew, W!walletVars, W!Row, Row
<1>3. Row(u, AdjustmentKey(a), amount, 0).key.kind = "adjustment"
    BY DEF Row, AdjustmentKey
<1>4. ledger \subseteq ledger'
      /\ \A row \in ledger' \ ledger : row.key.kind \notin {"reserve", "finalize"}
    BY <1>2, <1>3
<1> QED  BY <1>1, <1>4, RequestsAnyway

\* The settlement side adds credits and reversals only.
LEMMA SettlementShows ==
    ASSUME Tables, [SettlementNext]_settlementVars, UNCHANGED withdrawal,
           \A w \in W!Request : Fate(w) /\ Timeline(w)
    PROVE  \A w \in W!Request : Fate(w)' /\ Timeline(w)'
<1>1. CASE UNCHANGED walletVars
    BY <1>1, RequestsAnyway DEF walletVars
<1>2. ASSUME NEW rows, Movements(rows), PostAll(rows)
      PROVE  \A w \in W!Request : Fate(w)' /\ Timeline(w)'
    <2>1. ledger \subseteq ledger'
          /\ \A row \in ledger' \ ledger : row.key.kind \notin {"reserve", "finalize"}
        BY <1>2 DEF Movements, PostAll, RowOf, CreditKey
    <2> QED  BY <2>1, RequestsAnyway
<1> QED  BY <1>1, <1>2, StepPosts

-----------------------------------------------------------------------------
\* The bank rows that exist after a step are the old ones and at most one more.
LEMMA BanksGrow ==
    ASSUME Banks, NEW b \in Bank, bank' \in [Bank -> W!BankRow],
           \A c \in Bank \ {b} : bank'[c].status # "none" => bank[c].status # "none"
    PROVE  Banks'
<1> DEFINE old == {c \in Bank : bank[c].status # "none"}
           new == {c \in Bank : bank'[c].status # "none"}
<1>1. IsFiniteSet(old \cup {b})
    BY FS_AddElement DEF Banks
<1>2. new \subseteq old \cup {b}
    OBVIOUS
<1>3. IsFiniteSet(new)
    <2> HIDE DEF old, new
    <2> QED  BY <1>1, <1>2, FS_Subset
<1> QED  BY <1>3 DEF Banks, W!BankRow, W!BankStatus

\* Every step leaves the bank rows to BankService.
LEMMA BanksStep == Banks /\ [FinanceNext]_financeVars => Banks'
<1> SUFFICES ASSUME Banks, [FinanceNext]_financeVars PROVE Banks'
    OBVIOUS
<1>0. bank \in [Bank -> W!BankRow]
    BY DEF Banks
<1>1. CASE UNCHANGED bank
    BY <1>1 DEF Banks, W!BankRow, W!BankStatus
<1>2. ASSUME NEW u \in User, NEW b \in Bank, NEW previous \in Bank \cup {Nobody},
             W!SaveBank(u, b, previous)
      PROVE  Banks'
    <2>1. PICK version : version = IF previous = Nobody THEN 1 ELSE bank[previous].version + 1
        OBVIOUS
    <2>2. version \in Nat
        BY <1>0, <2>1 DEF W!BankRow
    <2>3. PICK fresh : fresh = [status |-> "PENDING", user |-> u, sealed |-> TRUE,
                                deleted |-> FALSE, previous |-> previous, version |-> version]
        OBVIOUS
    <2>4. fresh \in W!BankRow
        BY <2>2, <2>3 DEF W!BankRow, W!BankStatus
    <2>5. bank' = [c \in Bank |-> CASE c = b -> fresh
                                    [] c = previous -> [bank[c] EXCEPT !.deleted = TRUE]
                                    [] OTHER -> bank[c]]
        BY <1>2, <2>1, <2>3 DEF W!SaveBank
    <2>6. \A c \in Bank : /\ [bank[c] EXCEPT !.deleted = TRUE] \in W!BankRow
                          /\ [bank[c] EXCEPT !.deleted = TRUE].status = bank[c].status
        BY <1>0 DEF W!BankRow
    <2>7. bank' \in [Bank -> W!BankRow]
        BY <1>0, <2>4, <2>5, <2>6
    <2>8. \A c \in Bank \ {b} : bank'[c].status = bank[c].status
        BY <2>5, <2>6
    <2> QED  BY <2>7, <2>8, BanksGrow
<1>3. ASSUME NEW u \in User, NEW b \in Bank, W!RemoveBank(u, b) PROVE Banks'
    <2>1. bank' = [bank EXCEPT ![b].deleted = TRUE]
        BY <1>3 DEF W!RemoveBank
    <2>2. bank' \in [Bank -> W!BankRow]
        BY <1>0, <2>1 DEF W!BankRow
    <2>3. \A c \in Bank \ {b} : bank'[c] = bank[c]
        BY <1>0, <2>1
    <2> QED  BY <2>2, <2>3, BanksGrow
<1>4. ASSUME NEW b \in Bank, NEW verdict \in {"APPROVED", "REJECTED"}, W!ReviewBank(b, verdict)
      PROVE  Banks'
    <2>1. bank' = [bank EXCEPT ![b].status = verdict]
        BY <1>4 DEF W!ReviewBank
    <2>2. bank' \in [Bank -> W!BankRow]
        BY <1>0, <2>1 DEF W!BankRow, W!BankStatus
    <2>3. \A c \in Bank \ {b} : bank'[c] = bank[c]
        BY <1>0, <2>1
    <2> QED  BY <2>2, <2>3, BanksGrow
<1>5. CASE W!WithdrawalNext
    <2>1. ASSUME NEW w \in W!Request, NEW amount \in Amount, NEW b \in Bank,
                 W!CreateWithdrawal(w, amount, b)
          PROVE  UNCHANGED bank
        BY <2>1 DEF W!CreateWithdrawal
    <2>2. ASSUME NEW w \in W!Request, W!Transition(w) PROVE UNCHANGED bank
        BY <2>2 DEF W!Transition, W!StartProcessing, W!CompleteWithdrawal, W!ReleaseWithdrawal
    <2>3. ASSUME NEW u \in User, NEW a \in AdjustmentId, NEW amount \in AdjustmentAmount,
                 W!Adjust(u, a, amount)
          PROVE  UNCHANGED bank
        BY <2>3 DEF W!Adjust
    <2>4. ASSUME NEW minimum \in Minimum, W!UpdateMinimum(minimum) PROVE UNCHANGED bank
        BY <2>4 DEF W!UpdateMinimum
    <2> QED  BY <1>1, <1>2, <1>3, <1>4, <1>5, <2>1, <2>2, <2>3, <2>4 DEF W!WithdrawalNext
<1> QED  BY <1>1, <1>5 DEF FinanceNext, financeVars

\* The migration left finitely many rows.
LEMMA BanksInit == FinanceInit => Banks
<1> SUFFICES ASSUME FinanceInit PROVE Banks
    OBVIOUS
<1>1. PICK owner \in [LegacyBank -> User] :
          bank = [b \in Bank |-> IF b \in LegacyBank THEN W!LegacyRow(owner[b]) ELSE W!NoBank]
    BY DEF FinanceInit, W!WithdrawalInit
<1>2. W!NoBank \in W!BankRow /\ W!NoBank.status = "none"
      /\ \A u \in User : W!LegacyRow(u) \in W!BankRow
    BY DEF W!NoBank, W!LegacyRow, W!BankRow, W!BankStatus
<1>3. bank \in [Bank -> W!BankRow]
    BY <1>1, <1>2
<1>4. {b \in Bank : bank[b].status # "none"} \subseteq LegacyBank
    BY <1>1, <1>2
<1>5. IsFiniteSet({b \in Bank : bank[b].status # "none"})
    BY <1>4, FS_Subset, PagesConstants
<1> QED  BY <1>3, <1>5 DEF Banks

-----------------------------------------------------------------------------
\* Every step keeps what the pages rest on, ...
LEMMA PagesStep == PagesInv /\ [FinanceNext]_financeVars => PagesInv'
<1> SUFFICES ASSUME PagesInv, [FinanceNext]_financeVars PROVE PagesInv'
    OBVIOUS
<1>0. /\ FinanceInv /\ Tables /\ Requests /\ Shaped /\ Banks
      /\ \A c \in Checkout : Rowed(c) /\ Paired(c)
      /\ \A w \in W!Request : Fate(w) /\ Timeline(w)
    BY TablesShaped DEF PagesInv, FinanceInv
<1>1. FinanceInv' /\ Banks'
    BY <1>0, FinanceInvStep, BanksStep
<1>2. CASE [SettlementNext]_settlementVars /\ UNCHANGED withdrawal
    <2>1. \A c \in Checkout : Rowed(c)' /\ Paired(c)'
        BY <1>0, <1>2, RowedStep, PairedStep
    <2>2. \A w \in W!Request : Fate(w)' /\ Timeline(w)'
        BY <1>0, <1>2, SettlementShows
    <2> QED  BY <1>1, <2>1, <2>2 DEF PagesInv, W!Request
<1>3. CASE UNCHANGED settlementTables
    <2>1. \A c \in Checkout : Rowed(c)' /\ Paired(c)'
        BY <1>0, <1>3 DEF settlementTables, Rowed, Known, Paired
    <2>2. ASSUME \A w \in W!Request : Fate(w)' /\ Timeline(w)'
          PROVE  PagesInv'
        BY <1>1, <2>1, <2>2 DEF PagesInv, W!Request
    <2>3. ASSUME NEW w \in W!Request, NEW amount \in Amount, NEW b \in Bank,
                 W!CreateWithdrawal(w, amount, b)
          PROVE  PagesInv'
        BY <1>0, <2>2, <2>3, CreateShows
    <2>4. ASSUME NEW w \in W!Request, W!Transition(w) PROVE PagesInv'
        BY <1>0, <2>2, <2>4, TransitionShows
    <2>5. ASSUME NEW u \in User, NEW a \in AdjustmentId, NEW amount \in AdjustmentAmount,
                 W!Adjust(u, a, amount)
          PROVE  PagesInv'
        BY <1>0, <2>2, <2>5, AdjustShows
    <2>6. CASE UNCHANGED <<wallet, ledger, withdrawal>>
        BY <1>0, <2>2, <2>6, RequestsAnyway
    <2> QED  BY <1>2, <1>3, <2>3, <2>4, <2>5, <2>6, FinanceStepKinds
<1> QED  BY <1>2, <1>3, FinanceStepKinds

\* ... it holds at first, ...
LEMMA PagesInit == FinanceInit => PagesInv
<1> SUFFICES ASSUME FinanceInit PROVE PagesInv
    OBVIOUS
<1>1. FinanceInv /\ Banks
    BY FinanceInvInit, BanksInit
<1>2. ASSUME NEW c \in Checkout PROVE Rowed(c) /\ Paired(c)
    BY DEF FinanceInit, SettlementInit, CommissionInit, NoCommission, NoCashback, Rowed, Known, Paired
<1>3. ledger = {} /\ withdrawal = [w \in W!Request |-> W!NoWithdrawal]
    BY DEF FinanceInit, W!WithdrawalInit, W!WalletInit
<1>4. ASSUME NEW w \in W!Request PROVE Fate(w) /\ Timeline(w)
    <2>1. withdrawal[w].status = "none"
        BY <1>3 DEF W!NoWithdrawal
    <2>2. W!ReserveRows(w) = {} /\ W!FinalizeRows(w) = {}
        BY <2>1, FateOf
    <2> QED  BY <1>3, <2>1, <2>2 DEF Fate, Timeline
<1> QED  BY <1>1, <1>2, <1>4 DEF PagesInv

\* ... and so it always holds.
LEMMA PagesAlways == FinanceSpec => []PagesInv
BY PagesInit, PagesStep, PTL DEF FinanceSpec

-----------------------------------------------------------------------------
\* The order of a credit or a reversal belongs to the row's user, ...
LEMMA RowTold ==
    ASSUME PagesInv, NEW row \in ledger, row.key.kind \in {"settlement", "reversal"}
    PROVE  /\ row.key.id \in KnownCheckouts /\ row.key.id # Nobody
           /\ row.user \in User /\ commission[row.key.id].user = row.user
<1>0. FinanceInv /\ Tables /\ ledger \subseteq Rows
    BY DEF PagesInv, FinanceInv, Accounts
<1>1. row.key \in CreditKey /\ row.user \in User
    BY <1>0 DEF Rows, RowOf, AnyKey, W!MoneyKey, CreditKey
<1>2. PICK c \in Checkout : c = row.key.id
    BY <1>1 DEF CreditKey
<1>3. Told(c) /\ Rowed(c)
    BY DEF PagesInv, FinanceInv
<1>4. row \in Credits(c) \cup Reversals(c)
    <2>1. row.key = SettlementKey(c) \/ row.key = ReversalKey(c)
        BY <1>1, <1>2 DEF CreditKey, SettlementKey, ReversalKey
    <2> QED  BY <1>3, <2>1 DEF Told, RowsWith
<1>5. Settled(c) /\ row.user = commission[c].user
    BY <1>4 DEF Credits, Reversals, Settled, Row
<1>6. c \in KnownCheckouts
    BY <1>3, <1>5 DEF Rowed, Settled, KnownCheckouts
<1> QED  BY <1>1, <1>2, <1>5, <1>6, PagesConstants

\* ... and so does the withdrawal of a row that reserves or finalizes.
LEMMA RowMade ==
    ASSUME PagesInv, NEW row \in ledger, row.key.kind \in {"reserve", "finalize"}
    PROVE  /\ row.key.id \in Made /\ row.key.id # Nobody
           /\ row.user \in User /\ W!Owner(row.key.id) = row.user
<1>0. ledger \subseteq Rows
    BY DEF PagesInv, FinanceInv, Accounts
<1>1. row.key \in [kind : {"reserve", "finalize"}, id : W!Request] /\ row.user \in User
    BY <1>0 DEF Rows, RowOf, AnyKey, W!MoneyKey, CreditKey
<1>2. PICK w \in W!Request : w = row.key.id
    BY <1>1
<1>3. Fate(w)
    BY DEF PagesInv
<1>4. row \in W!ReserveRows(w) \cup W!FinalizeRows(w)
    <2>1. row.key = ReserveKey(w) \/ row.key = FinalizeKey(w)
        BY <1>1, <1>2 DEF ReserveKey, FinalizeKey
    <2> QED  BY <1>3, <2>1 DEF Fate
<1>5. withdrawal[w].status # "none" /\ row.user = W!Owner(w)
    BY <1>4 DEF W!ReserveRows, W!FinalizeRows, W!Row
<1> QED  BY <1>1, <1>2, <1>5, PagesConstants DEF Made

\* The reference of a movement is found, unless it is an adjustment.
LEMMA SourceIs ==
    ASSUME PagesInv, NEW viewer, NEW row \in ledger, Sees(viewer, row.user)
    PROVE  /\ row.key.kind = "adjustment" => SourceOf(viewer, row) = Nobody
           /\ row.key.kind # "adjustment" =>
                 SourceOf(viewer, row) = row.key.id /\ row.key.id # Nobody
<1>1. row.key.kind \in {"settlement", "reversal", "reserve", "finalize", "adjustment"}
    BY DEF PagesInv, FinanceInv, Accounts, Rows, RowOf, AnyKey, CreditKey, W!MoneyKey
<1>2. CASE row.key.kind \in {"settlement", "reversal"}
    BY <1>2, RowTold DEF SourceOf
<1>3. CASE row.key.kind \in {"reserve", "finalize"}
    BY <1>3, RowMade DEF SourceOf
<1>4. CASE row.key.kind = "adjustment"
    BY <1>4 DEF SourceOf
<1> QED  BY <1>1, <1>2, <1>3, <1>4

\* Every source that list('transactions') looks up is found.
LEMMA FoundSources == PagesInv => SourcesFound
BY SourceIs DEF SourcesFound, TransactionsPage

\* The transactions page of u gives what the rows with one key give, when they
\* are his.
LEMMA GivenIs ==
    ASSUME PagesInv, NEW u \in User, NEW kind \in {"settlement", "reversal", "finalize"}, NEW id,
           NEW rows, rows = {row \in ledger : row.key = [kind |-> kind, id |-> id]},
           \A row \in rows : row.user = u
    PROVE  Given(u, kind, id) = {row.available : row \in rows}
<1>1. ASSUME NEW a \in Given(u, kind, id) PROVE a \in {row.available : row \in rows}
    <2>1. PICK row \in ledger : /\ Sees(u, row.user) /\ row.key.kind = kind
                                /\ SourceOf(u, row) = id /\ row.available = a
        BY <1>1 DEF Given, TransactionsPage
    <2>2. row.key.id = id
        BY <2>1, SourceIs
    <2>3. row.key = [kind |-> kind, id |-> id]
        BY <2>1, <2>2 DEF PagesInv, FinanceInv, Accounts, Rows, RowOf, AnyKey, CreditKey, W!MoneyKey
    <2> QED  BY <2>1, <2>3
<1>2. ASSUME NEW row \in rows PROVE row.available \in Given(u, kind, id)
    <2>1. row \in ledger /\ row.key.kind = kind /\ row.key.id = id /\ Sees(u, row.user)
        BY <1>2 DEF Sees
    <2>2. SourceOf(u, row) = id
        BY <2>1, SourceIs
    <2>3. PICK shown : shown = [kind |-> row.key.kind, available |-> row.available,
                                reserved |-> row.reserved, source |-> SourceOf(u, row)]
        OBVIOUS
    <2>4. shown \in TransactionsPage(u)
        BY <2>1, <2>3 DEF TransactionsPage
    <2>5. shown.kind = kind /\ shown.source = id /\ shown.available = row.available
        BY <2>1, <2>2, <2>3
    <2> QED  BY <2>4, <2>5 DEF Given
<1> QED  BY <1>1, <1>2

\* The available amounts of one row and of none.
LEMMA AvailableOf ==
    /\ \A u, key, a, r : {row.available : row \in {Row(u, key, a, r)}} = {a}
    /\ {row.available : row \in {}} = {}
<1>1. ASSUME NEW u, NEW key, NEW a, NEW r
      PROVE  {row.available : row \in {Row(u, key, a, r)}} = {a}
    <2>1. PICK x : x = Row(u, key, a, r)
        OBVIOUS
    <2>2. x.available = a
        BY <2>1 DEF Row
    <2> QED  BY <2>1, <2>2
<1> QED  BY <1>1

\* What the pages of u show for one of his cashbacks.
LEMMA CreditShown ==
    ASSUME PagesInv, NEW u \in User, NEW c \in KnownCheckouts, commission[c].user = u
    PROVE  /\ Given(u, "settlement", c) =
                 IF cashback[c].state \in {"AVAILABLE", "REVERSED"} THEN {cashback[c].user} ELSE {}
           /\ Given(u, "reversal", c) =
                 IF cashback[c].state = "REVERSED" THEN {-cashback[c].user} ELSE {}
<1>1. c \in Checkout
    BY DEF KnownCheckouts
<1>2. /\ Told(c)
      /\ (commission[c].state = "PAID" <=> cashback[c].state = "AVAILABLE")
      /\ (commission[c].state = "REVERSED" <=> cashback[c].state = "REVERSED")
    BY <1>1 DEF PagesInv, FinanceInv, PaidAvailable, Paired
<1>3. PICK credits, reversals : credits = Credits(c) /\ reversals = Reversals(c)
    OBVIOUS
<1>4. /\ credits = {row \in ledger : row.key = [kind |-> "settlement", id |-> c]}
      /\ reversals = {row \in ledger : row.key = [kind |-> "reversal", id |-> c]}
    BY <1>2, <1>3 DEF Told, RowsWith, SettlementKey, ReversalKey
<1>5. /\ \A row \in credits : row.user = u
      /\ \A row \in reversals : row.user = u
    BY <1>3 DEF Credits, Reversals, Row
<1>6. /\ Given(u, "settlement", c) = {row.available : row \in credits}
      /\ Given(u, "reversal", c) = {row.available : row \in reversals}
    BY <1>4, <1>5, GivenIs
<1>7. /\ {row.available : row \in credits} =
            IF Settled(c) THEN {cashback[c].user} ELSE {}
      /\ {row.available : row \in reversals} =
            IF commission[c].state = "REVERSED" THEN {-cashback[c].user} ELSE {}
    BY <1>3, AvailableOf DEF Credits, Reversals
<1> QED  BY <1>2, <1>6, <1>7 DEF Settled

\* The cashbacks page, the orders page and the transactions page agree.
LEMMA ShownCredits == PagesInv => CreditsShown
<1> SUFFICES ASSUME PagesInv, NEW u \in User, NEW order \in CashbacksPage(u)
             PROVE  /\ Given(u, "settlement", order.order) =
                          IF order.state \in {"AVAILABLE", "REVERSED"} THEN {order.amount} ELSE {}
                    /\ Given(u, "reversal", order.order) =
                          IF order.state = "REVERSED" THEN {-order.amount} ELSE {}
                    /\ \E row \in OrdersPage(u) :
                          /\ row.order = order.order
                          /\ row.cashback = [state |-> order.state, amount |-> order.amount]
                          /\ row.state = "PAID" <=> order.state = "AVAILABLE"
    BY DEF CreditsShown
<1>1. PICK c \in KnownCheckouts :
         /\ Sees(u, commission[c].user)
         /\ order = [order |-> c, state |-> cashback[c].state, amount |-> cashback[c].user]
    BY DEF CashbacksPage
<1>2. commission[c].user = u /\ c \in Checkout
    BY <1>1, CommissionConstants DEF Sees, KnownCheckouts
<1>3. order.order = c /\ order.state = cashback[c].state /\ order.amount = cashback[c].user
    BY <1>1
<1>4. PICK row : row = [order |-> c, state |-> commission[c].state,
                        estimated |-> commission[c].estimated, settled |-> commission[c].settled,
                        cashback |-> [state |-> cashback[c].state, amount |-> cashback[c].user]]
    OBVIOUS
<1>5. row \in OrdersPage(u)
    BY <1>1, <1>4 DEF OrdersPage
<1>6. row.state = "PAID" <=> order.state = "AVAILABLE"
    BY <1>2, <1>3, <1>4 DEF PagesInv, FinanceInv, PaidAvailable
<1>7. row.order = c /\ row.cashback = [state |-> order.state, amount |-> order.amount]
    BY <1>3, <1>4
<1> QED  BY <1>2, <1>3, <1>5, <1>6, <1>7, CreditShown

\* The page of a withdrawal, the list and the transactions page agree.
LEMMA ShownWithdrawals == PagesInv => WithdrawalsShown
<1> SUFFICES ASSUME PagesInv, NEW u \in User,
                    NEW status \in {"PENDING", "PROCESSING", "COMPLETED", "UNSUCCESSFUL"},
                    NEW row \in WithdrawalsPage(u, status)
             PROVE  /\ WithdrawalPage(row.id).amount = row.amount
                    /\ WithdrawalPage(row.id).timeline[1] = "PENDING"
                    /\ WithdrawalPage(row.id).timeline[Len(WithdrawalPage(row.id).timeline)] = row.status
                    /\ Given(u, "finalize", row.id) =
                          CASE status = "UNSUCCESSFUL" -> {row.amount}
                            [] status = "COMPLETED"    -> {0}
                            [] OTHER                   -> {}
    BY DEF WithdrawalsShown
<1>1. PICK w \in Made :
         /\ withdrawal[w].status \in FilterOf(status) /\ Sees(u, W!Owner(w))
         /\ row = [id |-> w, amount |-> withdrawal[w].amount, status |-> withdrawal[w].status]
    BY DEF WithdrawalsPage
<1>2. PICK old : old = withdrawal[w]
    OBVIOUS
<1>3. /\ w \in W!Request /\ old.status # "none" /\ W!Owner(w) = u
      /\ row.id = w /\ row.amount = old.amount /\ row.status = old.status
    BY <1>1, <1>2, CommissionConstants DEF Made, Sees
<1>4. /\ WithdrawalPage(w).amount = old.amount /\ WithdrawalPage(w).timeline = old.history
    BY <1>2 DEF WithdrawalPage
<1>5. old.history[1] = "PENDING" /\ old.history[Len(old.history)] = old.status
    BY <1>2, <1>3 DEF PagesInv, Timeline
<1>6. PICK rows : rows = W!FinalizeRows(w)
    OBVIOUS
<1>7. rows = {r \in ledger : r.key = [kind |-> "finalize", id |-> w]}
    BY <1>3, <1>6 DEF PagesInv, Fate, FinalizeKey
<1>8. /\ old.status = "COMPLETED" => rows = {Row(u, FinalizeKey(w), 0, -old.amount)}
      /\ old.status \in {"REJECTED", "FAILED"} =>
            rows = {Row(u, FinalizeKey(w), old.amount, -old.amount)}
      /\ old.status \in Open \cup {"none"} => rows = {}
    BY <1>2, <1>3, <1>6, FateOf
<1>9. \/ status = "UNSUCCESSFUL" /\ old.status \in {"REJECTED", "FAILED"}
      \/ status = "COMPLETED" /\ old.status = "COMPLETED"
      \/ status \in {"PENDING", "PROCESSING"} /\ old.status \in Open \cup {"none"}
    BY <1>1, <1>2 DEF FilterOf, Open
<1>10. \A r \in rows : r.user = u
    BY <1>8, <1>9 DEF Row
<1>11. Given(u, "finalize", w) = {r.available : r \in rows}
    BY <1>7, <1>10, GivenIs
<1>12. {r.available : r \in rows} =
          CASE status = "UNSUCCESSFUL" -> {old.amount}
            [] status = "COMPLETED"    -> {0}
            [] OTHER                   -> {}
    BY <1>8, <1>9, AvailableOf
<1> QED  BY <1>3, <1>4, <1>5, <1>11, <1>12

-----------------------------------------------------------------------------
\* The wallets of all users hold what the whole ledger adds up to.
LEMMA BalancedHealth == PagesInv => HealthBalanced
<1> SUFFICES ASSUME PagesInv PROVE HealthBalanced
    OBVIOUS
<1>0. /\ IsFiniteSet(ledger) /\ ledger \subseteq Rows
      /\ \A u \in User : /\ wallet[u].available = Amounts(RowsOf(ledger, u))
                        /\ wallet[u].reserved = Reserves(RowsOf(ledger, u))
    BY DEF PagesInv, FinanceInv, Accounts
<1>1. PICK f, g : f = [row \in ledger |-> row.available] /\ g = [row \in ledger |-> row.reserved]
    OBVIOUS
<1>2. PICK free, held : /\ free = [u \in User |-> wallet[u].available]
                        /\ held = [u \in User |-> wallet[u].reserved]
    OBVIOUS
<1>3. \A row \in ledger : f[row] \in Int /\ g[row] \in Int /\ row.user \in User
    BY <1>0, <1>1 DEF Rows, RowOf
<1>4. PICK h : h = [row \in ledger |-> row.user]
    OBVIOUS
<1>5. ASSUME NEW u \in User
      PROVE  free[u] = SumOf(f, Slice(h, ledger, u)) /\ held[u] = SumOf(g, Slice(h, ledger, u))
    <2>1. PICK part : part = RowsOf(ledger, u)
        OBVIOUS
    <2>2. Slice(h, ledger, u) = part /\ part \subseteq ledger /\ IsFiniteSet(part)
        BY <1>0, <1>4, <2>1, FS_Subset DEF Slice, RowsOf
    <2>3. PICK fp, gp : /\ fp = [row \in part |-> row.available]
                        /\ gp = [row \in part |-> row.reserved]
        OBVIOUS
    <2>4. \A row \in part : f[row] = fp[row] /\ g[row] = gp[row]
        BY <1>1, <2>2, <2>3
    <2>5. SumOf(f, part) = SumOf(fp, part) /\ SumOf(g, part) = SumOf(gp, part)
        BY <2>2, <2>4, SumSame
    <2>6. Amounts(part) = SumOf(fp, part) /\ Reserves(part) = SumOf(gp, part)
        BY <2>3 DEF Amounts, Reserves
    <2> QED  BY <1>0, <1>2, <2>1, <2>2, <2>5, <2>6
<1>6. \A row \in ledger : h[row] \in User
    BY <1>3, <1>4
<1>7. SumOf(f, ledger) = SumOf(free, User)
    BY <1>0, <1>3, <1>5, <1>6, PagesConstants, SumParts
<1>8. SumOf(g, ledger) = SumOf(held, User)
    BY <1>0, <1>3, <1>5, <1>6, PagesConstants, SumParts
<1>9. {u \in User : Sees(Nobody, u)} = User
    BY DEF Sees
<1>10. /\ Dashboard(Nobody).available = Total(free, User)
       /\ Dashboard(Nobody).reserved = Total(held, User)
    BY <1>2, <1>9 DEF Dashboard
<1>11. /\ Total([row \in ledger |-> row.available], ledger) = SumOf(f, ledger)
       /\ Total([row \in ledger |-> row.reserved], ledger) = SumOf(g, ledger)
       /\ Total(free, User) = SumOf(free, User) /\ Total(held, User) = SumOf(held, User)
    BY <1>1, TotalSum
<1> QED  BY <1>7, <1>8, <1>10, <1>11 DEF HealthBalanced

\* The sum over some users' commissions is the sum over the users of the sums
\* that their own dashboards show.
LEMMA UsersAdd ==
    ASSUME PagesInv, NEW S, S \subseteq KnownCheckouts,
           \A c \in S : commission[c].user # Nobody,
           NEW f, \A c \in S : f[c] \in Int,
           NEW g, g = [u \in User |-> g[u]],
           \A u \in User : g[u] = SumOf(f, {c \in S : Sees(u, commission[c].user)})
    PROVE  SumOf(f, S) = SumOf(g, User)
<1>1. /\ S \subseteq Checkout /\ IsFiniteSet(S)
      /\ \A c \in S : commission[c].user \in User
    BY CommissionConstants, FS_Subset DEF KnownCheckouts, PagesInv, FinanceInv, Tables, CommissionRow
<1>2. PICK h : h = [c \in S |-> commission[c].user]
    OBVIOUS
<1>3. \A c \in S : h[c] \in User
    BY <1>1, <1>2
<1>4. ASSUME NEW u \in User PROVE g[u] = SumOf(f, Slice(h, S, u))
    <2>1. {c \in S : Sees(u, commission[c].user)} = Slice(h, S, u)
        BY <1>2, CommissionConstants DEF Slice, Sees
    <2> QED  BY <2>1
<1> QED  BY <1>1, <1>3, <1>4, PagesConstants, SumParts

\* The orders of the users and those that are nobody's are all orders.
LEMMA OrdersAdd ==
    ASSUME PagesInv
    PROVE  Dashboard(Nobody).orders
              = Cardinality({c \in KnownCheckouts : commission[c].user = Nobody})
                   + Total([u \in User |-> Dashboard(u).orders], User)
<1>1. PICK S, T : /\ S = {c \in KnownCheckouts : commission[c].user # Nobody}
                  /\ T = {c \in KnownCheckouts : commission[c].user = Nobody}
    OBVIOUS
<1>2. KnownCheckouts \subseteq Checkout /\ IsFiniteSet(KnownCheckouts)
    BY CommissionConstants, FS_Subset DEF KnownCheckouts
<1>3. /\ IsFiniteSet(S) /\ IsFiniteSet(T) /\ S \cap T = {} /\ S \cup T = KnownCheckouts
      /\ \A c \in S : commission[c].user \in User
    <2>1. S \subseteq KnownCheckouts /\ T \subseteq KnownCheckouts
        BY <1>1
    <2>2. IsFiniteSet(S) /\ IsFiniteSet(T)
        BY <1>2, <2>1, FS_Subset
    <2> QED  BY <1>1, <1>2, <2>2 DEF PagesInv, FinanceInv, Tables, CommissionRow
<1>4. Cardinality(S \cup T) = Cardinality(S) + Cardinality(T)
    <2>1. Cardinality(S \cup T) = Cardinality(S) + Cardinality(T) - Cardinality({})
        BY <1>3, FS_Union
    <2>2. Cardinality({}) = 0 /\ Cardinality(S) \in Nat /\ Cardinality(T) \in Nat
        BY <1>3, FS_EmptySet, FS_CardinalityType
    <2> QED  BY <2>1, <2>2
<1>5. PICK h : h = [c \in S |-> commission[c].user]
    OBVIOUS
<1>6. PICK g : g = [u \in User |-> Dashboard(u).orders]
    OBVIOUS
<1>7. ASSUME NEW u \in User PROVE g[u] = Cardinality(Slice(h, S, u))
    <2>1. Dashboard(u).orders = Cardinality({c \in KnownCheckouts : Sees(u, commission[c].user)})
        BY DEF Dashboard
    <2>2. {c \in KnownCheckouts : Sees(u, commission[c].user)} = Slice(h, S, u)
        BY <1>1, <1>5, CommissionConstants DEF Slice, Sees
    <2> QED  BY <1>6, <2>1, <2>2
<1>8. Cardinality(S) = SumOf(g, User)
    <2>1. \A c \in S : h[c] \in User
        BY <1>3, <1>5
    <2> QED  BY <1>3, <1>7, <2>1, PagesConstants, CountParts
<1>9. {c \in KnownCheckouts : Sees(Nobody, commission[c].user)} = KnownCheckouts
    BY DEF Sees
<1>10. Dashboard(Nobody).orders = Cardinality(S \cup T)
    BY <1>3, <1>9 DEF Dashboard
<1>11. Total([u \in User |-> Dashboard(u).orders], User) = SumOf(g, User)
    BY <1>6, TotalSum
<1>12. Cardinality(S) \in Nat /\ Cardinality(T) \in Nat
    BY <1>3, FS_CardinalityType
<1> QED  BY <1>1, <1>4, <1>8, <1>10, <1>11, <1>12

\* The cashbacks of one state on the users' dashboards are those on the admin's.
LEMMA CashbacksAdd ==
    ASSUME PagesInv, NEW state \in CashbackState
    PROVE  Dashboard(Nobody).cashback[state]
              = Total([u \in User |-> Dashboard(u).cashback[state]], User)
<1>1. PICK S : S = {c \in KnownCheckouts : cashback[c].state = state}
    OBVIOUS
<1>2. PICK f : f = [c \in Checkout |-> cashback[c].user]
    OBVIOUS
<1>3. /\ S \subseteq KnownCheckouts /\ S \subseteq Checkout
      /\ \A c \in S : commission[c].user # Nobody /\ f[c] \in Int
    BY <1>1, <1>2 DEF KnownCheckouts, PagesInv, Paired, FinanceInv, Tables, CashbackRow, CashbackState
<1>4. ASSUME NEW part, part \subseteq S
      PROVE  Total([c \in part |-> cashback[c].user], part) = SumOf(f, part)
    <2>1. IsFiniteSet(part)
        BY <1>3, <1>4, CommissionConstants, FS_Subset
    <2>2. PICK p : p = [c \in part |-> cashback[c].user]
        OBVIOUS
    <2>3. \A c \in part : p[c] = f[c]
        BY <1>2, <1>3, <1>4, <2>2
    <2>4. SumOf(p, part) = SumOf(f, part)
        BY <2>1, <2>3, SumSame
    <2> QED  BY <2>2, <2>4, TotalSum
<1>5. ASSUME NEW viewer
      PROVE  Dashboard(viewer).cashback[state] =
                SumOf(f, {c \in S : Sees(viewer, commission[c].user)})
    <2>1. PICK part : part = {c \in S : Sees(viewer, commission[c].user)}
        OBVIOUS
    <2>2. part = {c \in {c \in KnownCheckouts : Sees(viewer, commission[c].user)} :
                     cashback[c].state = state}
        BY <1>1, <2>1
    <2>3. Dashboard(viewer).cashback[state] = Total([c \in part |-> cashback[c].user], part)
        BY <2>2 DEF Dashboard
    <2> QED  BY <1>4, <2>1, <2>3
<1>6. PICK g : g = [u \in User |-> Dashboard(u).cashback[state]]
    OBVIOUS
<1>7. \A u \in User : g[u] = SumOf(f, {c \in S : Sees(u, commission[c].user)})
    BY <1>5, <1>6
<1>8. SumOf(f, S) = SumOf(g, User)
    BY <1>3, <1>6, <1>7, UsersAdd
<1>9. {c \in S : Sees(Nobody, commission[c].user)} = S
    BY DEF Sees
<1>10. Dashboard(Nobody).cashback[state] = SumOf(f, S)
    BY <1>5, <1>9
<1>11. Total([u \in User |-> Dashboard(u).cashback[state]], User) = SumOf(g, User)
    BY <1>6, TotalSum
<1> QED  BY <1>8, <1>10, <1>11

\* ... and so are the estimates of the commissions that were paid.
LEMMA EstimatesAdd ==
    ASSUME PagesInv, NEW state \in {"PAID", "REVERSED"}
    PROVE  Dashboard(Nobody).commissions[state].estimated
              = Total([u \in User |-> Dashboard(u).commissions[state].estimated], User)
<1>1. PICK S : S = {c \in KnownCheckouts : commission[c].state = state}
    OBVIOUS
<1>2. PICK f : f = [c \in Checkout |-> commission[c].estimated]
    OBVIOUS
<1>3. /\ S \subseteq KnownCheckouts /\ S \subseteq Checkout
      /\ \A c \in S : commission[c].user # Nobody /\ f[c] \in Int
    BY <1>1, <1>2 DEF KnownCheckouts, PagesInv, FinanceInv, Tables, CommissionRow, Settled
<1>4. ASSUME NEW part, part \subseteq S
      PROVE  Total([c \in part |-> commission[c].estimated], part) = SumOf(f, part)
    <2>1. IsFiniteSet(part)
        BY <1>3, <1>4, CommissionConstants, FS_Subset
    <2>2. PICK p : p = [c \in part |-> commission[c].estimated]
        OBVIOUS
    <2>3. \A c \in part : p[c] = f[c]
        BY <1>2, <1>3, <1>4, <2>2
    <2>4. SumOf(p, part) = SumOf(f, part)
        BY <2>1, <2>3, SumSame
    <2> QED  BY <2>2, <2>4, TotalSum
<1>5. ASSUME NEW viewer
      PROVE  Dashboard(viewer).commissions[state].estimated =
                SumOf(f, {c \in S : Sees(viewer, commission[c].user)})
    <2>1. PICK part : part = {c \in S : Sees(viewer, commission[c].user)}
        OBVIOUS
    <2>2. part = {c \in {c \in KnownCheckouts : Sees(viewer, commission[c].user)} :
                     commission[c].state = state}
        BY <1>1, <2>1
    <2>3. state \in CommissionState
        BY DEF CommissionState
    <2>4. Dashboard(viewer).commissions[state].estimated =
             Total([c \in part |-> commission[c].estimated], part)
        BY <2>2, <2>3 DEF Dashboard
    <2> QED  BY <1>4, <2>1, <2>4
<1>6. PICK g : g = [u \in User |-> Dashboard(u).commissions[state].estimated]
    OBVIOUS
<1>7. \A u \in User : g[u] = SumOf(f, {c \in S : Sees(u, commission[c].user)})
    BY <1>5, <1>6
<1>8. SumOf(f, S) = SumOf(g, User)
    BY <1>3, <1>6, <1>7, UsersAdd
<1>9. {c \in S : Sees(Nobody, commission[c].user)} = S
    BY DEF Sees
<1>10. Dashboard(Nobody).commissions[state].estimated = SumOf(f, S)
    BY <1>5, <1>9
<1>11. Total([u \in User |-> Dashboard(u).commissions[state].estimated], User) = SumOf(g, User)
    BY <1>6, TotalSum
<1> QED  BY <1>8, <1>10, <1>11

\* The admin's lists hold as many rows as the dashboard says wait.
LEMMA WaitingCounted ==
    ASSUME PagesInv
    PROVE  /\ Cardinality(WithdrawalsPage(Nobody, "PENDING")) = Operations.pendingWithdrawals
           /\ Cardinality(BankAccountsPage(Nobody, "PENDING")) = Operations.pendingBanks
<1>1. PICK S, T : /\ S = {w \in Made : withdrawal[w].status = "PENDING"}
                  /\ T = {b \in Bank : W!Live(b) /\ bank[b].status = "PENDING"}
    OBVIOUS
<1>2. IsFiniteSet(S) /\ IsFiniteSet(T)
    <2>1. S \subseteq {w \in W!Request : withdrawal[w].status # "none"}
        BY <1>1 DEF Made
    <2>2. T \subseteq {b \in Bank : bank[b].status # "none"}
        BY <1>1
    <2> QED  BY <2>1, <2>2, FS_Subset DEF PagesInv, FinanceInv, Requests, Banks
<1>3. PICK row : row = [w \in S |-> [id |-> w, amount |-> withdrawal[w].amount,
                                    status |-> withdrawal[w].status]]
    OBVIOUS
<1>4. PICK line : line = [b \in T |-> [id |-> b, status |-> bank[b].status, user |-> bank[b].user]]
    OBVIOUS
<1>5. /\ \A w \in S : row[w].id = w
      /\ \A b \in T : line[b].id = b
    BY <1>3, <1>4
<1>6. /\ row = [w \in S |-> row[w]] /\ line = [b \in T |-> line[b]]
      /\ \A v, w \in S : row[v] = row[w] => v = w
      /\ \A b, d \in T : line[b] = line[d] => b = d
    BY <1>3, <1>4, <1>5
<1>7. Cardinality({row[w] : w \in S}) = Cardinality(S)
    BY <1>2, <1>6, CountPage
<1>8. Cardinality({line[b] : b \in T}) = Cardinality(T)
    BY <1>2, <1>6, CountPage
<1>9. WithdrawalsPage(Nobody, "PENDING") = {row[w] : w \in S}
    <2>1. {w \in Made : /\ withdrawal[w].status \in FilterOf("PENDING")
                        /\ Sees(Nobody, W!Owner(w))} = S
        BY <1>1 DEF FilterOf, Sees
    <2>2. WithdrawalsPage(Nobody, "PENDING") =
             {[id |-> w, amount |-> withdrawal[w].amount, status |-> withdrawal[w].status] : w \in S}
        BY <2>1 DEF WithdrawalsPage
    <2> QED  BY <1>3, <2>2
<1>10. BankAccountsPage(Nobody, "PENDING") = {line[b] : b \in T}
    <2>1. {b \in Bank : /\ W!Live(b) /\ bank[b].status = "PENDING"
                        /\ Sees(Nobody, bank[b].user)} = T
        BY <1>1 DEF Sees
    <2>2. BankAccountsPage(Nobody, "PENDING") =
             {[id |-> b, status |-> bank[b].status, user |-> bank[b].user] : b \in T}
        BY <2>1 DEF BankAccountsPage
    <2> QED  BY <1>4, <2>2
<1> QED  BY <1>1, <1>7, <1>8, <1>9, <1>10 DEF Operations

\* Together they are what the dashboards promise.
LEMMA AddedDashboards == PagesInv => DashboardsAdd
BY OrdersAdd, CashbacksAdd, EstimatesAdd, WaitingCounted DEF DashboardsAdd

\* The pages of FinanceQueryService agree with each other and with the books
\* after every step, for any number of users, orders and withdrawals: a user
\* finds the source of every movement, the cashbacks and withdrawals he sees
\* are those his transactions show, the dashboards add up, and health reports
\* balance.
THEOREM PagesAlwaysAgree == FinanceSpec => []PagesAgree
<1>1. PagesInv => PagesAgree
    BY FoundSources, ShownCredits, ShownWithdrawals, AddedDashboards, BalancedHealth DEF PagesAgree
<1> QED  BY <1>1, PagesAlways, PTL
=============================================================================
