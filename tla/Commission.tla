----------------------------- MODULE Commission -----------------------------
(***************************************************************************)
(* What AddLiveTag reports about orders and what the backend makes of it:  *)
(* AddLiveTagEngine (publish, review), CredentialService, the cashback     *)
(* rate of FinanceAdminController.updatePolicy and the deletion of         *)
(* affiliate links.  Every action is one committed Serializable            *)
(* transaction; a request that throws changes nothing and is disabled.     *)
(*                                                                         *)
(* A checkout is a pair <<account, order>>: provider 'ADDLIVETAG:account'  *)
(* and the provider's checkout id.  Its commission and cashback rows are   *)
(* unique per checkout and have its name.  The rows reported for a         *)
(* checkout are a snapshot, which stands for its own sourceHash.           *)
(***************************************************************************)
EXTENDS Wallet, Money, SequencesExt

CONSTANTS
    Checkout,       \* the checkouts the provider may report
    Snapshot,       \* what it may report about one
    Affiliate,      \* affiliate names an admin may expect
    Link,           \* affiliate links
    LinkOwner,      \* the user a link belongs to (immutable once generated)
    Bps,            \* cashback rates an admin may set
    DefaultBps,     \* the rate before that
    Accepted,       \* amounts a reviewer may accept
    MaxRevision,    \* bound: revisions of one checkout
    Nobody          \* no user, no link, no account, no snapshot

Account == {c[1] : c \in Checkout}

\* One reported item.  label is commissionPaymentState of commission_status;
\* two codes stand for the status codes nothing recognises.
Recognised == {"completed", "paid", "cancelled"}
Item == [code : Recognised \cup {"other", "another"},
         label : {"PENDING", "REJECTED", "PAID", "UNKNOWN"},
         commission : Nat, affiliate : Affiliate]

\* The issues that depend on fields nothing else reads.
DataIssue == {"MCN_FEE_REVIEW", "INVALID_ITEM_REFERENCE", "AMBIGUOUS_ITEM_IDENTITY"}

NetRaw(s) == Total([i \in DOMAIN s.items |-> s.items[i].commission], DOMAIN s.items)

ASSUME CommissionConstants ==
    /\ IsFiniteSet(Checkout)
    /\ \A s \in Snapshot : /\ s.items \in Seq(Item) /\ s.items # <<>>
                           /\ s.link \in Link \cup {Nobody}
                           /\ s.data \subseteq DataIssue
                           /\ NetRaw(s) \in Nat
    /\ LinkOwner \in [Link -> User]
    /\ Bps \subseteq BasisPoints
    /\ DefaultBps \in BasisPoints
    /\ Accepted \subseteq Nat
    /\ MaxRevision \in Nat
    /\ Nobody \notin User \cup Link \cup Account \cup Affiliate \cup Snapshot

VARIABLES
    checkout,       \* checkout[c]: the last snapshot and its revision
    commission,     \* commission[c]: the commission row
    cashback,       \* cashback[c]: the cashback allocation row
    openIssues,     \* the reconciliation issues that are OPEN
    credential,     \* the provider account the backend reads from
    userBps,        \* policy.userBps
    deletedLink     \* links with deleteAt

commissionVars == <<wallet, ledger, checkout, commission, cashback, openIssues,
                    credential, userBps, deletedLink>>

CommissionState == {"ESTIMATED", "VALIDATED", "REJECTED", "MANUAL_REVIEW",
                    "PAID", "REVERSED"}
CashbackState   == {"PENDING", "VALIDATED", "REJECTED", "AVAILABLE", "REVERSED"}

IssueType == DataIssue \cup
    {"UNKNOWN_COMMISSION_STATUS", "PARTIAL_CHECKOUT_REVIEW",
     "UNKNOWN_PROVIDER_STATUS", "CANCELLED_WITH_COMMISSION",
     "AFFILIATE_ACCOUNT_MISMATCH", "CROSS_PROVIDER_DUPLICATE",
     "INVALID_ATTRIBUTION", "ATTRIBUTION_CHANGED", "PAID_COMMISSION_CHANGED"}

Issue == [checkout : Checkout, type : IssueType, snapshot : Snapshot]

CommissionRow == [state : CommissionState \cup {"none"}, user : User \cup {Nobody},
                  raw : Nat, estimated : Nat, settled : Int]
CashbackRow   == [state : CashbackState \cup {"none"}, bps : BasisPoints,
                  user : Int, platform : Int]
Credential    == [status : {"none", "UNVERIFIED", "ACTIVE", "EXPIRED"},
                  verified : BOOLEAN, account : Account \cup {Nobody},
                  affiliate : Affiliate \cup {Nobody}]

\* Money moved for commissions.
CreditKey == [kind : {"settlement", "reversal"}, id : Checkout]

CommissionTypeOK ==
    /\ wallet \in [User -> Balance]
    /\ ledger \subseteq RowOf(CreditKey)
    /\ checkout \in [Checkout -> [snapshot : Snapshot \cup {Nobody},
                                  revision : 0..MaxRevision]]
    /\ commission \in [Checkout -> CommissionRow]
    /\ cashback \in [Checkout -> CashbackRow]
    /\ openIssues \subseteq Issue
    /\ credential \in Credential
    /\ userBps \in BasisPoints
    /\ deletedLink \subseteq Link

NoCommission == [state |-> "none", user |-> Nobody, raw |-> 0, estimated |-> 0,
                 settled |-> 0]
NoCashback   == [state |-> "none", bps |-> 0, user |-> 0, platform |-> 0]

CommissionInit ==
    /\ WalletInit
    /\ checkout = [c \in Checkout |-> [snapshot |-> Nobody, revision |-> 0]]
    /\ commission = [c \in Checkout |-> NoCommission]
    /\ cashback = [c \in Checkout |-> NoCashback]
    /\ openIssues = {}
    /\ credential = [status |-> "none", verified |-> FALSE,
                     account |-> Nobody, affiliate |-> Nobody]
    /\ userBps = DefaultBps
    /\ deletedLink = {}

Same(c, d) == c[2] = d[2] /\ c[1] # d[1]    \* one order, two providers

-----------------------------------------------------------------------------
\* What a snapshot says: inspectCheckout and paymentBlockers.
Completed(item) == item.code \in {"completed", "paid"}

Conversion(s) ==
    LET codes == {item.code : item \in ToSet(s.items)} IN
    CASE Cardinality(codes) > 1                      -> "PARTIALLY_VALIDATED"
      [] codes \in {{"completed"}, {"paid"}}         -> "VALIDATED"
      [] codes = {"cancelled"}                       -> "REJECTED"
      [] OTHER                                       -> "MANUAL_REVIEW"

When(condition, name) == IF condition THEN {name} ELSE {}

SnapshotIssues(s) ==
    LET items == ToSet(s.items) IN
    s.data
    \cup When(\E i \in items : Completed(i) /\ i.label = "UNKNOWN",
              "UNKNOWN_COMMISSION_STATUS")
    \cup When(Conversion(s) = "PARTIALLY_VALIDATED", "PARTIAL_CHECKOUT_REVIEW")
    \cup When(\E i \in items : i.code \notin Recognised, "UNKNOWN_PROVIDER_STATUS")
    \cup When(\E i \in items : i.code = "cancelled" /\ i.commission # 0,
              "CANCELLED_WITH_COMMISSION")

\* Why the commission of a snapshot is not proved paid; a label stands for
\* PROVIDER_COMMISSION_<label>.
PaymentBlockers(s) ==
    LET items == ToSet(s.items) IN
    {i.label : i \in {i \in items : Completed(i) /\ i.label # "PAID"}}
    \cup When(\E i \in items : i.code = "cancelled" /\ i.commission # 0,
              "CANCELLED_WITH_COMMISSION")
    \cup When(\E i \in items : i.code \notin Recognised, "UNKNOWN_PROVIDER_STATUS")
    \cup When(\A i \in items : ~Completed(i), "NO_COMPLETED_ITEMS")

\* The user whose link the order came through, if the link is still there.
Attributed(s) ==
    IF s.link \in Link \ deletedLink THEN LinkOwner[s.link] ELSE Nobody

-----------------------------------------------------------------------------
\* AddLiveTagEngine.publish, for one checkout c and its reported snapshot s.
Known(c)   == checkout[c].snapshot # Nobody

KnownCheckouts == {c \in Checkout : Known(c)}      \* the checkouts that have rows

\* Mutant of Settled: a reversed commission starts over.
SettledUntilReversed(c) == commission[c].state = "PAID"

Settled(c) == commission[c].state \in {"PAID", "REVERSED"}

PublishedUser(c, s) ==
    IF commission[c].user # Nobody THEN commission[c].user ELSE Attributed(s)

FoundIssues(c, s) ==
    SnapshotIssues(s)
    \cup When(\E i \in ToSet(s.items) : i.affiliate # credential.affiliate,
              "AFFILIATE_ACCOUNT_MISMATCH")
    \cup When(\E d \in Checkout : Same(c, d) /\ Known(d), "CROSS_PROVIDER_DUPLICATE")
    \cup When(Attributed(s) = Nobody, "INVALID_ATTRIBUTION")
    \cup When(commission[c].user # Nobody /\ Attributed(s) # commission[c].user,
              "ATTRIBUTION_CHANGED")
    \cup When(Settled(c), "PAID_COMMISSION_CHANGED")

PublishedState(c, s) ==
    IF FoundIssues(c, s) # {} THEN "MANUAL_REVIEW"
    ELSE IF \/ Conversion(s) = "REJECTED"
            \/ \A i \in ToSet(s.items) : i.label = "REJECTED" THEN "REJECTED"
    ELSE IF PaymentBlockers(s) # {} THEN "ESTIMATED"
    ELSE "VALIDATED"

PublishedCommission(c, s) ==
    [state |-> PublishedState(c, s), user |-> PublishedUser(c, s),
     raw |-> NetRaw(s), estimated |-> NetRaw(s), settled |-> 0]

\* Mutant of CashbackFor: the rate of the day replaces the promised one.
CashbackAtCurrentRate(c, amount, state) ==
    LET split == SplitCashback(amount, userBps)
    IN [state |-> state, bps |-> userBps,
        user |-> split.user, platform |-> split.platform]

\* cashback: the rate of the first allocation stays; the parts follow the amount.
CashbackFor(c, amount, state) ==
    LET bps   == IF cashback[c].state = "none" THEN userBps ELSE cashback[c].bps
        split == SplitCashback(amount, bps)
    IN [state |-> state, bps |-> bps,
        user |-> split.user, platform |-> split.platform]

PublishedCashback(c, s) ==
    IF PublishedUser(c, s) = Nobody THEN cashback[c]
    ELSE CashbackFor(c, NetRaw(s),
             IF PublishedState(c, s) \in {"VALIDATED", "REJECTED"}
             THEN PublishedState(c, s) ELSE "PENDING")

\* A paid commission is taken back when the whole order is cancelled and
\* nothing else is wrong with the report.
Reverses(c, s) ==
    /\ commission[c].state = "PAID"
    /\ Conversion(s) = "REJECTED"
    /\ FoundIssues(c, s) = {"PAID_COMMISSION_CHANGED"}

\* Mutant of ReversalRow: the whole cashback is taken back, the platform's part too.
ReversalOfBothParts(c) ==
    Row(commission[c].user, ReversalKey(c), -(cashback[c].user + cashback[c].platform), 0)

ReversalRow(c) == Row(commission[c].user, ReversalKey(c), -cashback[c].user, 0)

\* Mutant of CurrentIssues: the issues of older snapshots stay open.
AllIssues(new, report) == openIssues

\* The open issues that the new snapshots do not supersede.
CurrentIssues(new, report) ==
    {i \in openIssues : i.checkout \in new => i.snapshot = report[i.checkout]}

(***************************************************************************)
(* publish: one transaction for a whole batch; report maps the checkouts   *)
(* of the batch to their snapshots.  A checkout whose snapshot is known is *)
(* skipped.  ReconciliationService.run publishes only after it marked this *)
(* version of the credential ACTIVE, which verifies it: issue              *)
(* ACCOUNT_UNIT_UNVERIFIED cannot arise.                                   *)
(***************************************************************************)
Publish(report) ==
    LET new      == {c \in DOMAIN report : report[c] # checkout[c].snapshot}
        unpaid   == {c \in new : ~Settled(c)}
        reversed == {c \in new : Reverses(c, report[c])}
    IN /\ credential.verified
       /\ \A c \in DOMAIN report : c[1] = credential.account
       /\ \A c \in new : checkout[c].revision < MaxRevision
       /\ checkout' = [c \in Checkout |->
             IF c \in new THEN [snapshot |-> report[c],
                                revision |-> checkout[c].revision + 1]
             ELSE checkout[c]]
       /\ commission' = [c \in Checkout |->
             IF c \in unpaid THEN PublishedCommission(c, report[c])
             ELSE IF c \in reversed THEN [commission[c] EXCEPT !.state = "REVERSED"]
             ELSE commission[c]]
       /\ cashback' = [c \in Checkout |->
             IF c \in unpaid THEN PublishedCashback(c, report[c])
             ELSE IF c \in reversed THEN [cashback[c] EXCEPT !.state = "REVERSED"]
             ELSE cashback[c]]
       /\ openIssues' =
             CurrentIssues(new, report)
             \cup UNION {[checkout : {c}, type : FoundIssues(c, report[c]),
                          snapshot : {report[c]}] : c \in new}
       /\ PostAll({ReversalRow(c) : c \in reversed})
       /\ UNCHANGED <<credential, userBps, deletedLink>>

-----------------------------------------------------------------------------
\* AddLiveTagEngine.review
\* The reviewer answers an OPEN issue about the revision that is current.
Reviewable(c) ==
    /\ \E i \in openIssues : i.checkout = c /\ i.snapshot = checkout[c].snapshot
    /\ ~Settled(c)

CloseReview(c) ==
    /\ checkout[c].revision < MaxRevision
    /\ checkout' = [checkout EXCEPT ![c].revision = @ + 1]
    /\ openIssues' = {i \in openIssues : i.checkout # c}
    /\ UNCHANGED <<wallet, ledger, credential, userBps, deletedLink>>

Exclude(c) ==
    /\ Reviewable(c)
    /\ commission' = [commission EXCEPT ![c].state = "REJECTED"]
    /\ cashback' = IF cashback[c].state = "none" THEN cashback
                   ELSE [cashback EXCEPT ![c].state = "REJECTED"]
    /\ CloseReview(c)

CredentialReady(account) ==
    /\ credential.verified /\ credential.status = "ACTIVE"
    /\ credential.account = account

\* Mutant of DuplicateAlive: a reversed duplicate does not count.
DuplicateUnreversed(c) ==
    \E d \in Checkout :
        Same(c, d) /\ commission[d].state \notin {"none", "REJECTED", "REVERSED"}

\* Another provider reported the same order and may still be paid for it.
DuplicateAlive(c) ==
    \E d \in Checkout : Same(c, d) /\ commission[d].state \notin {"none", "REJECTED"}

Approvable(c, s) ==
    /\ Conversion(s) \in {"VALIDATED", "PARTIALLY_VALIDATED"}
    /\ \A i \in ToSet(s.items) : /\ i.affiliate = credential.affiliate
                                 /\ i.code \in {"completed", "cancelled"}
    /\ PaymentBlockers(s) \subseteq {"PENDING"}

\* Mutant of ApprovedState: the review makes pending money payable.
ApprovedAlways(s) == "VALIDATED"

\* A review must not turn pending provider money into payable money.
ApprovedState(s) == IF PaymentBlockers(s) = {} THEN "VALIDATED" ELSE "ESTIMATED"

Approve(c, link, amount) ==
    LET s     == checkout[c].snapshot
        state == ApprovedState(s)
    IN /\ Reviewable(c)
       /\ CredentialReady(c[1])
       /\ Approvable(c, s)
       /\ ~DuplicateAlive(c)
       /\ link \notin deletedLink
       /\ commission[c].user \in {Nobody, LinkOwner[link]}
       /\ amount <= NetRaw(s)
       /\ commission' = [commission EXCEPT ![c].state = state,
                                           ![c].user = LinkOwner[link],
                                           ![c].estimated = amount]
       /\ cashback' = [cashback EXCEPT ![c] =
             CashbackFor(c, amount, IF state = "VALIDATED" THEN state ELSE "PENDING")]
       /\ CloseReview(c)

-----------------------------------------------------------------------------
\* CredentialService; version is modelled with the runs that compare it.
SetCredential(new) ==
    /\ credential' = new
    /\ UNCHANGED <<wallet, ledger, checkout, commission, cashback, openIssues,
                   userBps, deletedLink>>

Rotate(account, affiliate) ==
    SetCredential([status |-> "UNVERIFIED", verified |-> FALSE,
                   account |-> account, affiliate |-> affiliate])

Verify ==
    /\ credential.status = "ACTIVE"
    /\ SetCredential([credential EXCEPT !.verified = TRUE])

\* A run reached the provider with this version, or its key was refused.
MarkActive ==
    /\ credential.status # "none"
    /\ SetCredential([credential EXCEPT !.status = "ACTIVE", !.verified = TRUE])

MarkExpired ==
    /\ credential.status # "none"
    /\ SetCredential([credential EXCEPT !.status = "EXPIRED"])

UpdateRate(bps) ==
    /\ userBps' = bps
    /\ UNCHANGED <<wallet, ledger, checkout, commission, cashback, openIssues,
                   credential, deletedLink>>

DeleteLink(link) ==
    /\ deletedLink' = deletedLink \cup {link}
    /\ UNCHANGED <<wallet, ledger, checkout, commission, cashback, openIssues,
                   credential, userBps>>

\* A batch reports some checkouts of one account.
Report == UNION {[cs -> Snapshot] : cs \in SUBSET Checkout}

CommissionNext ==
    \/ \E report \in Report : Publish(report)
    \/ \E c \in Checkout : Exclude(c)
    \/ \E c \in Checkout, link \in Link, amount \in Accepted : Approve(c, link, amount)
    \/ \E account \in Account, affiliate \in Affiliate : Rotate(account, affiliate)
    \/ Verify
    \/ MarkActive
    \/ MarkExpired
    \/ \E bps \in Bps : UpdateRate(bps)
    \/ \E link \in Link : DeleteLink(link)
=============================================================================
