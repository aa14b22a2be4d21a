-------------------------------- MODULE Pages --------------------------------
(***************************************************************************)
(* What FinanceQueryService shows a user and an admin of the money: every  *)
(* page is a query of its own over the tables that Finance changes, and    *)
(* joins them its own way.  A page is what it would show now; viewer is a  *)
(* user, or Nobody for an admin, who sees the rows of all.                 *)
(***************************************************************************)
EXTENDS Finance

\* Nobody is the absence of an order and of a withdrawal; the users and the
\* bank rows that the migration found can be counted.
ASSUME PagesConstants ==
    /\ Nobody \notin Checkout \cup W!Request
    /\ IsFiniteSet(User) /\ IsFiniteSet(LegacyBank)

Sees(viewer, u) == viewer \in {Nobody, u}

\* list('orders') and the page of one order; a checkout stands for its rows in
\* provider_orders, one for each order_sn, here and where orders are counted.
OrdersPage(viewer) ==
    {[order |-> c, state |-> commission[c].state,
      estimated |-> commission[c].estimated, settled |-> commission[c].settled,
      cashback |-> [state |-> cashback[c].state, amount |-> cashback[c].user]] :
        c \in {c \in KnownCheckouts : Sees(viewer, commission[c].user)}}

\* list('cashbacks'): the user is looked up through the commission.
CashbacksPage(viewer) ==
    {[order |-> c, state |-> cashback[c].state, amount |-> cashback[c].user] :
        c \in {c \in KnownCheckouts : /\ cashback[c].state # "none"
                               /\ Sees(viewer, commission[c].user)}}

Made == {w \in W!Request : withdrawal[w].status # "none"}

\* list('withdrawals') with a status filter; UNSUCCESSFUL stands for two.
FilterOf(status) == IF status = "UNSUCCESSFUL" THEN {"REJECTED", "FAILED"} ELSE {status}

WithdrawalsPage(viewer, status) ==
    {[id |-> w, amount |-> withdrawal[w].amount, status |-> withdrawal[w].status] :
        w \in {w \in Made : /\ withdrawal[w].status \in FilterOf(status)
                            /\ Sees(viewer, W!Owner(w))}}

\* The page of one withdrawal: its history is the timeline, and the bank is
\* the one it was requested with.
WithdrawalPage(w) ==
    [amount |-> withdrawal[w].amount, status |-> withdrawal[w].status,
     bank |-> withdrawal[w].bank, timeline |-> withdrawal[w].history]

\* list('bank-accounts'): replaced and removed rows are gone.
BankAccountsPage(viewer, status) ==
    {[id |-> b, status |-> bank[b].status, user |-> bank[b].user] :
        b \in {b \in Bank : /\ W!Live(b) /\ bank[b].status = status
                            /\ Sees(viewer, bank[b].user)}}

\* Mutant of SourceOf: the references of a page are looked up as withdrawals only.
SourceAmongWithdrawals(viewer, row) ==
    IF row.key.id \in {w \in Made : Sees(viewer, W!Owner(w))} THEN row.key.id ELSE Nobody

\* What a wallet transaction refers to, looked up among the rows the viewer
\* may see; an adjustment has no source.
SourceOf(viewer, row) ==
    LET orders      == {c \in KnownCheckouts : Sees(viewer, commission[c].user)}
        withdrawals == {w \in Made : Sees(viewer, W!Owner(w))}
    IN CASE row.key.kind \in {"settlement", "reversal"} ->
              IF row.key.id \in orders THEN row.key.id ELSE Nobody
         [] row.key.kind \in {"reserve", "finalize"} ->
              IF row.key.id \in withdrawals THEN row.key.id ELSE Nobody
         [] OTHER -> Nobody

\* list('transactions')
TransactionsPage(viewer) ==
    {[kind |-> row.key.kind, available |-> row.available, reserved |-> row.reserved,
      source |-> SourceOf(viewer, row)] :
        row \in {row \in ledger : Sees(viewer, row.user)}}

\* GET dashboard; an admin also gets the work that waits.
Dashboard(viewer) ==
    LET seen == {c \in KnownCheckouts : Sees(viewer, commission[c].user)}
        users == {u \in User : Sees(viewer, u)}
    IN [orders |-> Cardinality(seen),
        commissions |-> [state \in CommissionState |->
            LET cs == {c \in seen : commission[c].state = state}
            IN [count |-> Cardinality(cs),
                estimated |-> Total([c \in cs |-> commission[c].estimated], cs)]],
        available |-> Total([u \in users |-> wallet[u].available], users),
        reserved |-> Total([u \in users |-> wallet[u].reserved], users),
        cashback |-> [state \in CashbackState |->
            LET cs == {c \in seen : cashback[c].state = state}
            IN Total([c \in cs |-> cashback[c].user], cs)]]

Operations ==
    [pendingWithdrawals |-> Cardinality({w \in Made : withdrawal[w].status = "PENDING"}),
     pendingBanks |-> Cardinality({b \in Bank : W!Live(b) /\ bank[b].status = "PENDING"}),
     openIssues |-> Cardinality(openIssues)]

\* GET health: whether the sums of the whole ledger and of all wallets agree.
HealthBalanced ==
    /\ Total([row \in ledger |-> row.available], ledger) = Dashboard(Nobody).available
    /\ Total([row \in ledger |-> row.reserved], ledger) = Dashboard(Nobody).reserved

-----------------------------------------------------------------------------
\* Nothing on the transactions page of a user is unexplained: what is not an
\* adjustment leads to an order or a withdrawal of his own.
SourcesFound ==
    \A viewer \in User \cup {Nobody} : \A row \in TransactionsPage(viewer) :
        row.kind = "adjustment" \/ row.source # Nobody

\* The amounts of one kind that the transactions page of u gives for a source.
Given(u, kind, source) ==
    {row.available : row \in {row \in TransactionsPage(u) : /\ row.kind = kind
                                                           /\ row.source = source}}

\* The cashbacks page and the transactions page tell one story: a cashback is
\* AVAILABLE exactly when its credit is there and no reversal, and REVERSED
\* exactly when both are, of the amount shown.
CreditsShown ==
    \A u \in User : \A order \in CashbacksPage(u) :
        /\ Given(u, "settlement", order.order) =
              IF order.state \in {"AVAILABLE", "REVERSED"} THEN {order.amount} ELSE {}
        /\ Given(u, "reversal", order.order) =
              IF order.state = "REVERSED" THEN {-order.amount} ELSE {}
        /\ \E row \in OrdersPage(u) :
              /\ row.order = order.order
              /\ row.cashback = [state |-> order.state, amount |-> order.amount]
              /\ row.state = "PAID" <=> order.state = "AVAILABLE"

\* A withdrawal among the UNSUCCESSFUL ones gave its money back in one movement,
\* a completed one ended with a movement that gave nothing, and any other shows
\* none; its page ends its timeline with the status of the list.
WithdrawalsShown ==
    \A u \in User : \A status \in {"PENDING", "PROCESSING", "COMPLETED", "UNSUCCESSFUL"} :
        \A row \in WithdrawalsPage(u, status) :
            LET page == WithdrawalPage(row.id) IN
            /\ page.amount = row.amount
            /\ page.timeline[1] = "PENDING"
            /\ page.timeline[Len(page.timeline)] = row.status
            /\ Given(u, "finalize", row.id) =
                  CASE status = "UNSUCCESSFUL" -> {row.amount}
                    [] status = "COMPLETED"    -> {0}
                    [] OTHER                   -> {}

\* The users' dashboards and the orders that are nobody's add up to the
\* admin's, and the lists hold as many rows as the dashboard says wait.
DashboardsAdd ==
    LET all == Dashboard(Nobody)
        nobodys == {c \in KnownCheckouts : commission[c].user = Nobody}
    IN /\ all.orders = Cardinality(nobodys)
                         + Total([u \in User |-> Dashboard(u).orders], User)
       /\ \A state \in CashbackState :
             all.cashback[state]
                = Total([u \in User |-> Dashboard(u).cashback[state]], User)
       /\ \A state \in {"PAID", "REVERSED"} :
             all.commissions[state].estimated =
                Total([u \in User |-> Dashboard(u).commissions[state].estimated], User)
       /\ Cardinality(WithdrawalsPage(Nobody, "PENDING")) = Operations.pendingWithdrawals
       /\ Cardinality(BankAccountsPage(Nobody, "PENDING")) = Operations.pendingBanks

\* The pages agree with each other and with the books, whatever transaction
\* ran last: every movement a user sees is explained by something else he
\* sees, the totals are the sums of the parts, and health reports balance.
PagesAgree ==
    /\ SourcesFound
    /\ CreditsShown
    /\ WithdrawalsShown
    /\ DashboardsAdd
    /\ HealthBalanced
=============================================================================
