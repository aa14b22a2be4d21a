----------------------------- MODULE Settlement -----------------------------
(***************************************************************************)
(* SettlementService: an admin drafts a settlement over validated          *)
(* commissions, dividing what the provider really paid, and a later        *)
(* confirmation credits the users.  Between the two the commissions go on  *)
(* living in Commission: they are reported again, reviewed, and reported   *)
(* by other providers.                                                     *)
(***************************************************************************)
EXTENDS Commission

CONSTANTS
    Batch,              \* settlement batches (one per reference)
    Deduction,          \* amounts the provider keeps
    SettlementEnabled   \* SETTLEMENT_ENABLED of the deployment

ASSUME SettlementConstants ==
    /\ Deduction \subseteq Nat
    /\ SettlementEnabled \in BOOLEAN

VARIABLE batch          \* batch[b]: the settlement and its items

settlementVars == <<wallet, ledger, checkout, commission, cashback, openIssues,
                    credential, userBps, deletedLink, batch>>

\* items[c] is the settlement item of commission c, for the members of the batch.
SettlementItem == [raw : Nat, revision : 0..MaxRevision, net : Int]
BatchRow == [status : {"none", "DRAFT", "CONFIRMED", "CANCELLED"},
             gross : Nat, net : Nat, members : SUBSET Checkout,
             items : [Checkout -> SettlementItem]]

SettlementTypeOK == CommissionTypeOK /\ batch \in [Batch -> BatchRow]

NoItem  == [raw |-> 0, revision |-> 0, net |-> 0]
NoItems == [c \in Checkout |-> NoItem]

SettlementInit ==
    /\ CommissionInit
    /\ batch = [b \in Batch |-> [status |-> "none", gross |-> 0, net |-> 0,
                                 members |-> {}, items |-> NoItems]]

-----------------------------------------------------------------------------
InSettlement(c) == \E b \in Batch : c \in batch[b].members

\* providerSettlementBlockers finds nothing.
Payable(c) ==
    /\ PaymentBlockers(checkout[c].snapshot) = {}
    /\ CredentialReady(c[1])
    /\ \A i \in openIssues : i.checkout # c
    /\ ~DuplicateAlive(c)

\* commissionSettlementBlockers finds nothing.
Eligible(c) ==
    /\ commission[c].state = "VALIDATED"
    /\ commission[c].user # Nobody
    /\ ~InSettlement(c)

Gross(cs) == Total([c \in cs |-> commission[c].estimated], cs)

\* create: the last commission, in the order of their random ids, takes the
\* remainder.
CreateSettlement(b, cs, deduction, last) ==
    /\ batch[b].status = "none"
    /\ last \in cs
    /\ \A c \in cs : Eligible(c) /\ Payable(c)
    /\ Gross(cs) > 0
    /\ deduction <= Gross(cs)
    /\ LET net   == Gross(cs) - deduction
           share == AllocateNet(net, [c \in cs |-> commission[c].estimated], last)
       IN batch' = [batch EXCEPT ![b] =
             [status |-> "DRAFT", gross |-> Gross(cs), net |-> net, members |-> cs,
              items |-> [c \in Checkout |->
                 IF c \in cs THEN [raw      |-> commission[c].raw,
                                   revision |-> checkout[c].revision,
                                   net      |-> share[c]]
                 ELSE NoItem]]]
    /\ UNCHANGED commissionVars

\* Mutant of Unchanged: only the reported amount is compared.
UnchangedAmount(c, item) ==
    /\ commission[c].state = "VALIDATED"
    /\ commission[c].user # Nobody
    /\ cashback[c].state # "none"
    /\ commission[c].raw = item.raw

\* The commission is still what it was when the item was drafted.
Unchanged(c, item) ==
    /\ checkout[c].revision = item.revision
    /\ commission[c].state = "VALIDATED"
    /\ commission[c].user # Nobody
    /\ cashback[c].state # "none"
    /\ commission[c].raw = item.raw

ItemSplit(c, item) == SplitCashback(item.net, cashback[c].bps)

\* Mutant of CreditRow: the key of another movement.
CreditUnderReserveKey(c, item) ==
    Row(commission[c].user, ReserveKey(c), ItemSplit(c, item).user, 0)

CreditRow(c, item) ==
    Row(commission[c].user, SettlementKey(c), ItemSplit(c, item).user, 0)

(***************************************************************************)
(* confirm: everything is checked again, then every item is paid out.      *)
(* Confirming a CONFIRMED settlement again changes nothing.                *)
(***************************************************************************)
ConfirmSettlement(b) ==
    LET items == batch[b].items
        cs    == batch[b].members
    IN /\ SettlementEnabled
       /\ batch[b].status = "DRAFT"
       /\ Total([c \in cs |-> items[c].net], cs) = batch[b].net
       /\ \A c \in cs : Payable(c) /\ Unchanged(c, items[c])
       /\ commission' = [c \in Checkout |->
             IF c \in cs THEN [commission[c] EXCEPT !.state = "PAID",
                                                    !.settled = items[c].net]
             ELSE commission[c]]
       /\ cashback' = [c \in Checkout |->
             IF c \in cs
             THEN [state |-> "AVAILABLE", bps |-> cashback[c].bps,
                   user |-> ItemSplit(c, items[c]).user,
                   platform |-> ItemSplit(c, items[c]).platform]
             ELSE cashback[c]]
       /\ PostAll({CreditRow(c, items[c]) : c \in cs})
       /\ batch' = [batch EXCEPT ![b].status = "CONFIRMED"]
       /\ UNCHANGED <<checkout, openIssues, credential, userBps, deletedLink>>

\* cancel: the items are deleted, so the commissions can be drafted again.
CancelSettlement(b) ==
    /\ batch[b].status = "DRAFT"
    /\ batch' = [batch EXCEPT ![b].status = "CANCELLED",
                               ![b].members = {}, ![b].items = NoItems]
    /\ UNCHANGED commissionVars

SettlementNext ==
    \/ CommissionNext /\ UNCHANGED batch
    \/ \E b \in Batch, cs \in SUBSET Checkout \ {{}}, deduction \in Deduction :
          \E last \in cs : CreateSettlement(b, cs, deduction, last)
    \/ \E b \in Batch : ConfirmSettlement(b)
    \/ \E b \in Batch : CancelSettlement(b)

SettlementSpec == SettlementInit /\ [][SettlementNext]_settlementVars

-----------------------------------------------------------------------------
RowsWith(key) == {row \in ledger : row.key = key}

\* The ledger tells the fate of every commission: exactly one credit, of the
\* user's part and to the user of the commission, once it is paid; exactly one
\* reversal, of the same amount, once it is reversed; nothing otherwise.
LedgerTellsCommission ==
    \A c \in Checkout :
        /\ RowsWith(SettlementKey(c)) =
              IF commission[c].state \in {"PAID", "REVERSED"}
              THEN {Row(commission[c].user, SettlementKey(c), cashback[c].user, 0)}
              ELSE {}
        /\ RowsWith(ReversalKey(c)) =
              IF commission[c].state = "REVERSED"
              THEN {Row(commission[c].user, ReversalKey(c), -cashback[c].user, 0)}
              ELSE {}

\* An order reported through two provider accounts is paid through one of them
\* at most, in whatever order they report, are reviewed and are settled.
OneProviderPaid ==
    \A c, d \in Checkout : Same(c, d) =>
        ~({commission[c].state, commission[d].state} \subseteq {"PAID", "REVERSED"})

\* An unpaid commission waits for a review exactly when an issue is OPEN that
\* the review can answer: none is stuck in MANUAL_REVIEW without an issue, none
\* can be settled behind an open one, and no issue is about an old snapshot.
ReviewHasIssue ==
    /\ \A i \in openIssues : i.snapshot = checkout[i.checkout].snapshot
    /\ \A c \in Checkout : commission[c].state \notin {"PAID", "REVERSED"} =>
          (commission[c].state = "MANUAL_REVIEW" <=> \E i \in openIssues : i.checkout = c)

\* A commission that is ready to be settled has a user, a cashback and a proof
\* of payment in its current snapshot, and no more is promised than reported.
ValidatedIsProven ==
    \A c \in Checkout : commission[c].state = "VALIDATED" =>
        /\ commission[c].user # Nobody
        /\ cashback[c].state = "VALIDATED"
        /\ PaymentBlockers(checkout[c].snapshot) = {}
        /\ commission[c].estimated <= NetRaw(checkout[c].snapshot)

\* The money of a confirmed settlement is all accounted for: what its items
\* got is what came in, and every item is divided without loss between the
\* user and the platform.
SettledInFull ==
    \A b \in Batch : batch[b].status = "CONFIRMED" =>
        LET cs == batch[b].members IN
        /\ Total([c \in cs |-> commission[c].settled], cs) = batch[b].net
        /\ \A c \in cs : /\ commission[c].state \in {"PAID", "REVERSED"}
                         /\ cashback[c].user + cashback[c].platform = commission[c].settled

\* A confirmation pays the amounts the admin saw: when it happens the gross of
\* the draft is still the sum of the accepted amounts of its commissions.
PaysWhatWasDrafted ==
    [][\A b \in Batch :
          batch[b].status = "DRAFT" /\ batch'[b].status = "CONFIRMED" =>
              batch[b].gross = Gross(batch[b].members)]_settlementVars

\* The terms of a cashback never change: once a commission has a user and a
\* rate, reports, reviews, policy changes and settlements keep both.
TermsKept ==
    [][\A c \in Checkout :
          /\ commission[c].user # Nobody => commission'[c].user = commission[c].user
          /\ cashback[c].state # "none" => cashback'[c].bps = cashback[c].bps]_settlementVars
=============================================================================
