-------------------------- MODULE SettlementProofs --------------------------
(***************************************************************************)
(* Proofs about Commission and Settlement, and about what the admin pages  *)
(* of Eligibility say of them, for every set of checkouts, users,          *)
(* snapshots and batches, and for every bound on revisions.                *)
(***************************************************************************)
EXTENDS Eligibility, Sums

\* Rows have the fields of their tables, and revisions are numbers.  The
\* amounts are left open: what moves when does not depend on them.  Tables,
\* further down, adds their types.
CommissionShape(row) == row \in [state : {row.state}, user : {row.user},
                                 raw : {row.raw}, estimated : {row.estimated},
                                 settled : {row.settled}]
CashbackShape(row)   == row \in [state : {row.state}, bps : {row.bps},
                                 user : {row.user}, platform : {row.platform}]
BatchShape(row)      == row \in [status : {row.status}, gross : {row.gross},
                                 net : {row.net}, members : SUBSET Checkout,
                                 items : {row.items}]

Shaped ==
    /\ commission = [c \in Checkout |-> commission[c]]
    /\ \A c \in Checkout : CommissionShape(commission[c])
    /\ cashback = [c \in Checkout |-> cashback[c]]
    /\ \A c \in Checkout : CashbackShape(cashback[c])
    /\ checkout \in [Checkout -> [snapshot : Snapshot \cup {Nobody}, revision : Nat]]
    /\ \A i \in openIssues : i.checkout \in Checkout /\ i.snapshot \in Snapshot
    /\ batch = [b \in Batch |-> batch[b]]
    /\ \A b \in Batch : BatchShape(batch[b])

-----------------------------------------------------------------------------
\* Most steps of the system are one of six; the others touch neither the
\* ledger nor any commission, cashback, checkout, issue or settlement.
Quiet == UNCHANGED <<ledger, checkout, commission, cashback, openIssues, batch>>

\* A step is a publication, a review, a step of a settlement, or quiet
\* (SettlementNext).
LEMMA StepKinds ==
    [SettlementNext]_settlementVars =>
        \/ \E report \in Report : Publish(report) /\ UNCHANGED batch
        \/ \E c \in Checkout : Exclude(c) /\ UNCHANGED batch
        \/ \E c \in Checkout, link \in Link, amount \in Accepted :
              Approve(c, link, amount) /\ UNCHANGED batch
        \/ \E b \in Batch, cs \in SUBSET Checkout, deduction \in Deduction :
              \E last \in cs : CreateSettlement(b, cs, deduction, last)
        \/ \E b \in Batch : ConfirmSettlement(b)
        \/ \E b \in Batch : CancelSettlement(b)
        \/ Quiet
<1> SUFFICES ASSUME [SettlementNext]_settlementVars,
                    ~Quiet,
                    ~\E b \in Batch, cs \in SUBSET Checkout, deduction \in Deduction :
                        \E last \in cs : CreateSettlement(b, cs, deduction, last),
                    ~\E b \in Batch : ConfirmSettlement(b),
                    ~\E b \in Batch : CancelSettlement(b)
             PROVE  \/ \E report \in Report : Publish(report) /\ UNCHANGED batch
                    \/ \E c \in Checkout : Exclude(c) /\ UNCHANGED batch
                    \/ \E c \in Checkout, link \in Link, amount \in Accepted :
                          Approve(c, link, amount) /\ UNCHANGED batch
  OBVIOUS
<1>1. ~UNCHANGED settlementVars
  BY DEF settlementVars, Quiet
<1>2. CommissionNext /\ UNCHANGED batch
  BY <1>1 DEF SettlementNext
<1>3. ASSUME NEW new, SetCredential(new) PROVE FALSE
  BY <1>2, <1>3 DEF SetCredential, Quiet
<1>4. ASSUME NEW bps \in Bps, UpdateRate(bps) PROVE FALSE
  BY <1>2, <1>4 DEF UpdateRate, Quiet
<1>5. ASSUME NEW link \in Link, DeleteLink(link) PROVE FALSE
  BY <1>2, <1>5 DEF DeleteLink, Quiet
<1>6. QED
  BY <1>2, <1>3, <1>4, <1>5
     DEF CommissionNext, Rotate, Verify, MarkActive, MarkExpired

-----------------------------------------------------------------------------
\* The tables start empty and well formed (CommissionInit, SettlementInit).
LEMMA ShapedInit == SettlementInit => Shaped
BY DEF SettlementInit, CommissionInit, Shaped, CommissionShape, CashbackShape,
       BatchShape, NoCommission, NoCashback

\* Every row a publication writes is well formed (AddLiveTagEngine.publish).
LEMMA ShapedPublish ==
    ASSUME Shaped, NEW report \in Report, Publish(report), UNCHANGED batch
    PROVE  Shaped'
<1>1. ASSUME NEW c \in Checkout
      PROVE  CommissionShape(commission'[c])
  BY <1>1 DEF Shaped, Publish, CommissionShape, PublishedCommission
<1>2. ASSUME NEW c \in Checkout
      PROVE  CashbackShape(cashback'[c])
  BY <1>2 DEF Shaped, Publish, CashbackShape, PublishedCashback, CashbackFor
<1>3. checkout' \in [Checkout -> [snapshot : Snapshot \cup {Nobody}, revision : Nat]]
  <2>1. \A c \in DOMAIN report : report[c] \in Snapshot
    BY DEF Report
  <2>2. ASSUME NEW c \in Checkout
        PROVE  checkout'[c] \in [snapshot : Snapshot \cup {Nobody}, revision : Nat]
    <3>1. checkout[c] \in [snapshot : Snapshot \cup {Nobody}, revision : Nat]
      BY DEF Shaped
    <3>2. \/ checkout'[c] = checkout[c]
          \/ /\ c \in DOMAIN report
             /\ checkout'[c] = [snapshot |-> report[c], revision |-> checkout[c].revision + 1]
      BY Zenon DEF Publish
    <3>3. QED
      BY <2>1, <3>1, <3>2
  <2>3. checkout' = [c \in Checkout |-> checkout'[c]]
    BY DEF Publish
  <2>4. QED
    BY <2>2, <2>3
<1>4. /\ commission' = [c \in Checkout |-> commission'[c]]
      /\ cashback' = [c \in Checkout |-> cashback'[c]]
  BY DEF Publish
<1>5. \A i \in openIssues' : i.checkout \in Checkout /\ i.snapshot \in Snapshot
  BY DEF Shaped, Publish, CurrentIssues, Report
<1>6. QED
  BY <1>1, <1>2, <1>3, <1>4, <1>5 DEF Shaped

\* Every row a review writes is well formed (AddLiveTagEngine.review).
LEMMA ShapedReview ==
    ASSUME Shaped, NEW c \in Checkout, UNCHANGED batch,
           \/ Exclude(c)
           \/ \E link \in Link, amount \in Accepted : Approve(c, link, amount)
    PROVE  Shaped'
<1>1. /\ checkout' \in [Checkout -> [snapshot : Snapshot \cup {Nobody}, revision : Nat]]
      /\ \A i \in openIssues' : i.checkout \in Checkout /\ i.snapshot \in Snapshot
  <2>1. CloseReview(c)
    BY DEF Exclude, Approve
  <2>2. QED
    BY <2>1 DEF Shaped, CloseReview
<1>2. CASE Exclude(c)
  <2>1. cashback' = [d \in Checkout |-> cashback'[d]] /\ \A d \in Checkout : CashbackShape(cashback'[d])
    BY <1>2 DEF Shaped, Exclude, CashbackShape
  <2>2. commission' = [d \in Checkout |-> commission'[d]] /\ \A d \in Checkout : CommissionShape(commission'[d])
    BY <1>2 DEF Shaped, Exclude, CommissionShape
  <2>3. QED
    BY <1>1, <2>1, <2>2 DEF Shaped
<1>3. ASSUME NEW link \in Link, NEW amount \in Accepted, Approve(c, link, amount)
      PROVE  Shaped'
  <2>1. ASSUME NEW state PROVE CashbackShape(CashbackFor(c, amount, state))
    BY DEF CashbackShape, CashbackFor
  <2>2. cashback' = [d \in Checkout |-> cashback'[d]] /\ \A d \in Checkout : CashbackShape(cashback'[d])
    BY <1>3, <2>1 DEF Shaped, Approve
  <2>3. commission' = [d \in Checkout |-> commission'[d]] /\ \A d \in Checkout : CommissionShape(commission'[d])
    BY <1>3 DEF Shaped, Approve, CommissionShape
  <2>4. QED
    BY <1>1, <2>2, <2>3 DEF Shaped
<1>4. QED
  BY <1>2, <1>3

\* Every row a settlement writes is well formed (SettlementService).
LEMMA ShapedSettlement ==
    ASSUME Shaped, NEW b \in Batch,
           \/ \E cs \in SUBSET Checkout, deduction \in Deduction :
                 \E last \in cs : CreateSettlement(b, cs, deduction, last)
           \/ ConfirmSettlement(b)
           \/ CancelSettlement(b)
    PROVE  Shaped'
<1>1. CASE ConfirmSettlement(b)
  <2>1. commission' = [c \in Checkout |-> commission'[c]] /\ \A c \in Checkout : CommissionShape(commission'[c])
    BY <1>1 DEF Shaped, ConfirmSettlement, CommissionShape
  <2>2. cashback' = [c \in Checkout |-> cashback'[c]] /\ \A c \in Checkout : CashbackShape(cashback'[c])
    BY <1>1 DEF Shaped, ConfirmSettlement, CashbackShape
  <2>3. batch' = [a \in Batch |-> batch'[a]] /\ \A a \in Batch : BatchShape(batch'[a])
    BY <1>1 DEF Shaped, ConfirmSettlement, BatchShape
  <2>4. UNCHANGED <<checkout, openIssues>>
    BY <1>1 DEF ConfirmSettlement
  <2>5. QED
    BY <2>1, <2>2, <2>3, <2>4 DEF Shaped
<1>2. CASE CancelSettlement(b)
  BY <1>2 DEF Shaped, CancelSettlement, commissionVars, BatchShape
<1>3. ASSUME NEW cs \in SUBSET Checkout, NEW deduction \in Deduction, NEW last \in cs,
             CreateSettlement(b, cs, deduction, last)
      PROVE  Shaped'
  BY <1>3 DEF Shaped, CreateSettlement, commissionVars, BatchShape
<1>4. QED
  BY <1>1, <1>2, <1>3

\* Rows stay well formed in every step.
LEMMA ShapedStep == Shaped /\ [SettlementNext]_settlementVars => Shaped'
<1> SUFFICES ASSUME Shaped, [SettlementNext]_settlementVars PROVE Shaped'
  OBVIOUS
<1>1. CASE Quiet
  BY <1>1 DEF Quiet, Shaped
<1>2. QED
  BY <1>1, StepKinds, ShapedPublish, ShapedReview, ShapedSettlement

\* Rows are well formed in every reachable state of SettlementSpec.
LEMMA ShapedAlways == SettlementSpec => []Shaped
BY ShapedInit, ShapedStep, PTL DEF SettlementSpec

-----------------------------------------------------------------------------
\* The terms of a cashback never change: publish and review go through
\* PublishedUser and cashback, which keep a user and a rate once they are
\* there, and no other step writes either.
THEOREM TermsAlwaysKept == SettlementSpec => TermsKept
<1> DEFINE UserKept(c) == commission[c].user # Nobody => commission'[c].user = commission[c].user
           RateKept(c) == cashback[c].state # "none" => cashback'[c].bps = cashback[c].bps
<1>1. ASSUME Shaped, [SettlementNext]_settlementVars, NEW c \in Checkout
      PROVE  UserKept(c) /\ RateKept(c)
  <2>1. CASE Quiet
    BY <2>1 DEF Quiet
  <2>2. ASSUME NEW report \in Report, Publish(report)
        PROVE  UserKept(c) /\ RateKept(c)
    <3>1. UserKept(c)
      BY <1>1, <2>2 DEF Shaped, CommissionShape, Publish, PublishedCommission, PublishedUser
    <3>2. RateKept(c)
      BY <1>1, <2>2 DEF Shaped, CashbackShape, Publish, PublishedCashback, CashbackFor
    <3>3. QED
      BY <3>1, <3>2
  <2>3. ASSUME NEW d \in Checkout, Exclude(d)
        PROVE  UserKept(c) /\ RateKept(c)
    BY <1>1, <2>3 DEF Shaped, CommissionShape, CashbackShape, Exclude
  <2>4. ASSUME NEW d \in Checkout, NEW link \in Link, NEW amount \in Accepted,
               Approve(d, link, amount)
        PROVE  UserKept(c) /\ RateKept(c)
    <3>1. UserKept(c)
      BY <1>1, <2>4 DEF Shaped, CommissionShape, Approve
    <3>2. RateKept(c)
      BY <1>1, <2>4 DEF Shaped, CashbackShape, Approve, CashbackFor
    <3>3. QED
      BY <3>1, <3>2
  <2>5. ASSUME NEW b \in Batch, ConfirmSettlement(b)
        PROVE  UserKept(c) /\ RateKept(c)
    BY <1>1, <2>5 DEF Shaped, CommissionShape, ConfirmSettlement
  <2>6. ASSUME UNCHANGED commissionVars
        PROVE  UserKept(c) /\ RateKept(c)
    BY <2>6 DEF commissionVars
  <2>7. QED
    BY <1>1, <2>1, <2>2, <2>3, <2>4, <2>5, <2>6, StepKinds
       DEF CreateSettlement, CancelSettlement
<1>2. Shaped /\ [SettlementNext]_settlementVars =>
        \A c \in Checkout :
          /\ commission[c].user # Nobody => commission'[c].user = commission[c].user
          /\ cashback[c].state # "none" => cashback'[c].bps = cashback[c].bps
  BY <1>1
<1> HIDE DEF UserKept, RateKept
<1>3. QED
  BY <1>2, ShapedAlways, PTL DEF SettlementSpec, TermsKept

-----------------------------------------------------------------------------
\* PAID and REVERSED are entered by a confirmation only, and never left.
PaidSet == {c \in Checkout : commission[c].state \in {"PAID", "REVERSED"}}

\* Publishing an order never makes it paid (AddLiveTagEngine.publish).
LEMMA PublishedNotPaid ==
    ASSUME NEW c \in Checkout, NEW s \in Snapshot
    PROVE  PublishedCommission(c, s).state \in {"MANUAL_REVIEW", "REJECTED", "ESTIMATED", "VALIDATED"}
BY DEF PublishedCommission, PublishedState

\* The paid set of commissions only grows when a settlement is confirmed.
LEMMA PaidSetStep ==
    ASSUME Shaped, [SettlementNext]_settlementVars,
           ~\E b \in Batch : ConfirmSettlement(b)
    PROVE  PaidSet' = PaidSet
<1>1. CASE Quiet
  BY <1>1 DEF Quiet, PaidSet
<1>2. ASSUME NEW report \in Report, Publish(report)
      PROVE  PaidSet' = PaidSet
  <2>1. ASSUME NEW c \in Checkout
        PROVE  c \in PaidSet' <=> c \in PaidSet
    <3>1. \A d \in DOMAIN report : report[d] \in Snapshot
      BY DEF Report
    <3>2. \/ commission'[c] = commission[c]
          \/ /\ ~Settled(c)
             /\ c \in DOMAIN report
             /\ commission'[c] = PublishedCommission(c, report[c])
          \/ /\ commission[c].state = "PAID"
             /\ commission'[c] = [commission[c] EXCEPT !.state = "REVERSED"]
      BY <1>2, Zenon DEF Publish, Reverses
    <3>3. CommissionShape(commission[c])
      BY DEF Shaped
    <3>4. QED
      BY <3>1, <3>2, <3>3, PublishedNotPaid DEF PaidSet, Settled, CommissionShape
  <2>2. QED
    BY <2>1 DEF PaidSet
<1>3. ASSUME NEW c \in Checkout, Exclude(c)
      PROVE  PaidSet' = PaidSet
  BY <1>3 DEF Shaped, CommissionShape, Exclude, PaidSet, Reviewable, Settled
<1>4. ASSUME NEW c \in Checkout, NEW link \in Link, NEW amount \in Accepted,
             Approve(c, link, amount)
      PROVE  PaidSet' = PaidSet
  BY <1>4 DEF Shaped, CommissionShape, Approve, PaidSet, Reviewable, Settled, ApprovedState
<1>5. ASSUME UNCHANGED commissionVars
      PROVE  PaidSet' = PaidSet
  BY <1>5 DEF commissionVars, PaidSet
<1>6. QED
  BY <1>1, <1>2, <1>3, <1>4, <1>5, StepKinds DEF CreateSettlement, CancelSettlement

\* A confirmation pays the members of its batch, which were all VALIDATED and
\* without a live duplicate.
LEMMA PaidSetConfirm ==
    ASSUME Shaped, NEW b \in Batch, ConfirmSettlement(b)
    PROVE  /\ PaidSet' = PaidSet \cup batch[b].members
           /\ \A c \in batch[b].members :
                 /\ c \in Checkout
                 /\ commission[c].state = "VALIDATED"
                 /\ ~DuplicateAlive(c)
<1>1. batch[b].members \subseteq Checkout
  BY DEF Shaped, BatchShape
<1>2. \A c \in batch[b].members : commission[c].state = "VALIDATED" /\ ~DuplicateAlive(c)
  BY DEF ConfirmSettlement, Payable, Unchanged
<1>3. PaidSet' = PaidSet \cup batch[b].members
  BY <1>1 DEF Shaped, CommissionShape, ConfirmSettlement, PaidSet
<1>4. QED
  BY <1>1, <1>2, <1>3

\* An order reported through two provider accounts is paid through one of them
\* at most: a confirmation refuses a commission whose duplicate is neither
\* unknown nor rejected (checkProvider), and a paid one is neither.
THEOREM OneProviderAlwaysPaid == SettlementSpec => []OneProviderPaid
<1> DEFINE Alone == \A c, d \in PaidSet : ~Same(c, d)
<1>1. Alone <=> OneProviderPaid
  BY DEF OneProviderPaid, PaidSet
<1>2. SettlementInit => Alone
  BY DEF SettlementInit, CommissionInit, NoCommission, PaidSet
<1>3. ASSUME Shaped, Alone, [SettlementNext]_settlementVars
      PROVE  Alone'
  <2>1. CASE \E b \in Batch : ConfirmSettlement(b)
    <3>1. PICK b \in Batch : ConfirmSettlement(b)
      BY <2>1
    <3>2. ASSUME NEW c \in PaidSet', NEW d \in PaidSet', Same(c, d) PROVE FALSE
      <4>1. Same(d, c)
        BY <3>2 DEF Same
      <4>2. CASE c \in PaidSet /\ d \in PaidSet
        BY <1>3, <3>2, <4>2
      <4>3. CASE c \in batch[b].members
        BY <1>3, <3>1, <3>2, <4>3, PaidSetConfirm DEF DuplicateAlive, PaidSet
      <4>4. CASE d \in batch[b].members
        BY <1>3, <3>1, <4>1, <4>4, PaidSetConfirm DEF DuplicateAlive, PaidSet
      <4>5. QED
        BY <1>3, <3>1, <4>2, <4>3, <4>4, PaidSetConfirm
    <3>3. QED
      BY <3>2 DEF Same
  <2>2. CASE ~\E b \in Batch : ConfirmSettlement(b)
    BY <1>3, <2>2, PaidSetStep DEF Same
  <2>3. QED
    BY <2>1, <2>2
<1>4. SettlementSpec => []Alone
  BY <1>2, <1>3, ShapedAlways, PTL DEF SettlementSpec
<1>5. QED
  BY <1>1, <1>4, PTL

-----------------------------------------------------------------------------
\* What publish leaves in the rows of one checkout: what it was, a reversal,
\* or the rows made from the newly reported snapshot.
Recorded(c, s) ==
    /\ ~Settled(c)
    /\ s \in Snapshot /\ s # checkout[c].snapshot
    /\ checkout'[c] = [snapshot |-> s, revision |-> checkout[c].revision + 1]
    /\ commission'[c] = PublishedCommission(c, s)
    /\ cashback'[c] = PublishedCashback(c, s)

ReRecorded(c) ==
    /\ Settled(c)
    /\ \/ commission'[c] = commission[c] /\ cashback'[c] = cashback[c]
       \/ /\ commission[c].state = "PAID"
          /\ commission'[c] = [commission[c] EXCEPT !.state = "REVERSED"]
          /\ cashback'[c] = [cashback[c] EXCEPT !.state = "REVERSED"]

Skipped(c) ==
    /\ checkout'[c] = checkout[c]
    /\ commission'[c] = commission[c]
    /\ cashback'[c] = cashback[c]

\* Publishing does one of the three to every checkout (AddLiveTagEngine.publish).
LEMMA PublishCases ==
    ASSUME Shaped, NEW report \in Report, Publish(report), NEW c \in Checkout
    PROVE  \/ c \in DOMAIN report /\ Recorded(c, report[c])
           \/ ReRecorded(c)
           \/ Skipped(c) /\ (c \in DOMAIN report => report[c] = checkout[c].snapshot)
<1>1. \A d \in DOMAIN report : report[d] \in Snapshot
  BY DEF Report
<1>2. CASE c \in DOMAIN report /\ report[c] # checkout[c].snapshot /\ ~Settled(c)
  BY <1>1, <1>2 DEF Publish, Recorded
<1>3. CASE c \in DOMAIN report /\ report[c] # checkout[c].snapshot /\ Settled(c)
  BY <1>3, Zenon DEF Publish, ReRecorded, Reverses
<1>4. CASE ~(c \in DOMAIN report /\ report[c] # checkout[c].snapshot)
  BY <1>4, Zenon DEF Publish, Skipped
<1>5. QED
  BY <1>2, <1>3, <1>4

\* A commission that publish makes VALIDATED has a user, the user's cashback
\* follows it, the snapshot proves the payment and nothing was found.
LEMMA PublishedValidated ==
    ASSUME NEW c \in Checkout, NEW s \in Snapshot,
           PublishedCommission(c, s).state = "VALIDATED"
    PROVE  /\ PublishedCommission(c, s).user # Nobody
           /\ PublishedCashback(c, s).state = "VALIDATED"
           /\ PaymentBlockers(s) = {}
           /\ PublishedCommission(c, s).estimated = NetRaw(s)
<1>1. PublishedState(c, s) = "VALIDATED"
  BY DEF PublishedCommission
<1>2. FoundIssues(c, s) = {} /\ PaymentBlockers(s) = {}
  BY <1>1 DEF PublishedState
<1>3. Attributed(s) # Nobody
  BY <1>2 DEF FoundIssues, When
<1>4. PublishedUser(c, s) # Nobody
  BY <1>3 DEF PublishedUser
<1>5. QED
  BY <1>1, <1>2, <1>4 DEF PublishedCommission, PublishedCashback, CashbackFor

\* The part of ValidatedIsProven about one checkout.
Proven(c) ==
    commission[c].state = "VALIDATED" =>
        /\ commission[c].user # Nobody
        /\ cashback[c].state = "VALIDATED"
        /\ PaymentBlockers(checkout[c].snapshot) = {}
        /\ checkout[c].snapshot \in Snapshot
        /\ commission[c].estimated <= NetRaw(checkout[c].snapshot)

\* A commission that is ready to be settled has a user, a cashback and a proof
\* of payment in its current snapshot, and no more is promised than reported:
\* publish makes it VALIDATED only without issues or blockers, review only
\* without blockers and for at most the reported amount, and every other step
\* that touches such a commission takes it out of VALIDATED.
THEOREM ValidatedAlwaysProven == SettlementSpec => []ValidatedIsProven
<1> DEFINE AllProven == \A c \in Checkout : Proven(c)
<1>1. SettlementInit => AllProven
  BY DEF SettlementInit, CommissionInit, NoCommission, Proven
<1>2. ASSUME Shaped, AllProven, [SettlementNext]_settlementVars, NEW c \in Checkout
      PROVE  Proven(c)'
  <2> /\ Proven(c)
      /\ CommissionShape(commission[c])
      /\ CashbackShape(cashback[c])
    BY <1>2 DEF Shaped
  <2>1. CASE UNCHANGED <<checkout[c], commission[c], cashback[c]>>
    BY <2>1 DEF Proven
  <2>2. ASSUME NEW report \in Report, Publish(report)
        PROVE  Proven(c)'
    <3>1. ASSUME NEW s \in Snapshot, Recorded(c, s)
          PROVE  Proven(c)'
      <4>1. NetRaw(s) \in Nat
        BY CommissionConstants
      <4>2. checkout'[c].snapshot = s
        BY <3>1 DEF Recorded
      <4>3. QED
        BY <3>1, <4>1, <4>2, PublishedValidated DEF Recorded, Proven
    <3>2. CASE ReRecorded(c)
      BY <3>2 DEF ReRecorded, Settled, Proven, CommissionShape
    <3>3. CASE Skipped(c)
      BY <3>3, <2>1 DEF Skipped
    <3>4. QED
      BY <1>2, <2>2, <3>1, <3>2, <3>3, PublishCases DEF Recorded
  <2>3. ASSUME NEW d \in Checkout, Exclude(d)
        PROVE  Proven(c)'
    <3>1. CASE c = d
      BY <1>2, <2>3, <3>1 DEF Shaped, Exclude, CommissionShape, Proven
    <3>2. CASE c # d
      BY <1>2, <2>1, <2>3, <3>2 DEF Shaped, Exclude, CloseReview
    <3>3. QED
      BY <3>1, <3>2
  <2>4. ASSUME NEW d \in Checkout, NEW link \in Link, NEW amount \in Accepted,
               Approve(d, link, amount)
        PROVE  Proven(c)'
    <3>1. CASE c = d
      <4>1. checkout'[c].snapshot = checkout[c].snapshot
        BY <1>2, <2>4, <3>1 DEF Shaped, Approve, CloseReview
      <4>2. checkout[c].snapshot \in Snapshot
        BY <1>2, <2>4, <3>1 DEF Shaped, Approve, Reviewable
      <4>3. /\ ApprovedState(checkout[c].snapshot) = "VALIDATED" =>
                  PaymentBlockers(checkout[c].snapshot) = {}
            /\ ApprovedState(checkout[c].snapshot) \in {"VALIDATED", "ESTIMATED"}
        BY DEF ApprovedState
      <4>4. /\ commission'[c].state = ApprovedState(checkout[c].snapshot)
            /\ commission'[c].user = LinkOwner[link]
            /\ commission'[c].estimated = amount
            /\ amount <= NetRaw(checkout[c].snapshot)
        BY <1>2, <2>4, <3>1 DEF Shaped, Approve, CommissionShape
      <4>5. commission'[c].state = "VALIDATED" => cashback'[c].state = "VALIDATED"
        BY <1>2, <2>4, <3>1, <4>4 DEF Shaped, Approve, CashbackFor
      <4>6. LinkOwner[link] # Nobody
        BY CommissionConstants
      <4>7. QED
        BY <4>1, <4>2, <4>3, <4>4, <4>5, <4>6 DEF Proven
    <3>2. CASE c # d
      BY <1>2, <2>1, <2>4, <3>2 DEF Shaped, Approve, CloseReview
    <3>3. QED
      BY <3>1, <3>2
  <2>5. ASSUME NEW b \in Batch, ConfirmSettlement(b)
        PROVE  Proven(c)'
    <3>1. CASE c \in batch[b].members
      BY <2>5, <3>1 DEF ConfirmSettlement, CommissionShape, Proven
    <3>2. CASE c \notin batch[b].members
      BY <2>1, <2>5, <3>2 DEF ConfirmSettlement
    <3>3. QED
      BY <3>1, <3>2
  <2>6. QED
    BY <1>2, <2>1, <2>2, <2>3, <2>4, <2>5, StepKinds
       DEF CreateSettlement, CancelSettlement, commissionVars, Quiet
<1>3. AllProven => ValidatedIsProven
  BY DEF ValidatedIsProven, Proven
<1>4. SettlementSpec => []AllProven
  <2>1. Shaped /\ AllProven /\ [SettlementNext]_settlementVars => AllProven'
    BY <1>2
  <2> HIDE DEF AllProven
  <2>2. QED
    BY <1>1, <2>1, ShapedAlways, PTL DEF SettlementSpec
<1>5. QED
  BY <1>3, <1>4, PTL

-----------------------------------------------------------------------------
\* The parts of ReviewHasIssue: open issues are about current snapshots, and a
\* commission that can still be reviewed waits exactly when it has one.
IssuesCurrent == \A i \in openIssues : i.snapshot = checkout[i.checkout].snapshot

\* A checkout with an open issue, and one that waits exactly then.
HasIssue(c) == \E i \in openIssues : i.checkout = c

Waits(c) == ~Settled(c) => (commission[c].state = "MANUAL_REVIEW" <=> HasIssue(c))

\* After publish the issues of a recorded checkout are the ones it found, and
\* those of every other checkout are the ones it had.
LEMMA PublishedIssues ==
    ASSUME Shaped, IssuesCurrent, NEW report \in Report, Publish(report)
    PROVE  /\ IssuesCurrent'
           /\ \A c \in Checkout :
                /\ Recorded(c, report[c]) /\ c \in DOMAIN report =>
                      (HasIssue(c)' <=> FoundIssues(c, report[c]) # {})
                /\ Skipped(c) /\ (c \in DOMAIN report => report[c] = checkout[c].snapshot)
                      => (HasIssue(c)' <=> HasIssue(c))
<1> DEFINE new   == {c \in DOMAIN report : report[c] # checkout[c].snapshot}
           found == UNION {[checkout : {c}, type : FoundIssues(c, report[c]),
                            snapshot : {report[c]}] : c \in new}
           kept  == {i \in openIssues : i.checkout \in new => i.snapshot = report[i.checkout]}
<1>1. openIssues' = kept \cup found
  BY DEF Publish, CurrentIssues
<1>2. \A c \in Checkout : c \in new => checkout'[c].snapshot = report[c]
  BY DEF Publish
<1>3. \A c \in Checkout : c \notin new => checkout'[c] = checkout[c]
  BY DEF Publish
<1>4. new \subseteq Checkout
  BY DEF Report
<1>5. \A i \in found :
         /\ i.checkout \in new
         /\ i.snapshot = report[i.checkout]
         /\ i.type \in FoundIssues(i.checkout, report[i.checkout])
  OBVIOUS
<1>6. \A i \in kept : i.checkout \in Checkout \ new
  BY DEF Shaped, IssuesCurrent
<1>7. \A c \in new : \A t \in FoundIssues(c, report[c]) :
         [checkout |-> c, type |-> t, snapshot |-> report[c]] \in found
  OBVIOUS
<1>8. \A i \in openIssues : i.checkout \notin new => i \in kept
  OBVIOUS
<1> HIDE DEF new, found, kept
<1>9. IssuesCurrent'
  BY <1>1, <1>2, <1>3, <1>4, <1>5, <1>6 DEF IssuesCurrent, kept
<1>10. ASSUME NEW c \in Checkout, Recorded(c, report[c]), c \in DOMAIN report
       PROVE  HasIssue(c)' <=> FoundIssues(c, report[c]) # {}
  <2>1. c \in new
    BY <1>10 DEF Recorded, new
  <2>2. HasIssue(c)' <=> \E i \in found : i.checkout = c
    BY <1>1, <1>6, <2>1 DEF HasIssue
  <2>3. ASSUME NEW t \in FoundIssues(c, report[c]) PROVE \E i \in found : i.checkout = c
    BY <1>7, <2>1
  <2>4. QED
    BY <1>5, <2>2, <2>3
<1>11. ASSUME NEW c \in Checkout, c \notin new
       PROVE  HasIssue(c)' <=> HasIssue(c)
  BY <1>1, <1>5, <1>8, <1>11 DEF HasIssue, kept
<1>12. QED
  BY <1>9, <1>10, <1>11 DEF new

\* A commission that publish records waits for a review exactly when publish
\* found something.
LEMMA PublishedWaits ==
    ASSUME NEW c \in Checkout, NEW s \in Snapshot
    PROVE  PublishedCommission(c, s).state = "MANUAL_REVIEW" <=> FoundIssues(c, s) # {}
BY DEF PublishedCommission, PublishedState

\* A review answers all the issues of its checkout and of no other.
LEMMA ClosedIssues ==
    ASSUME Shaped, IssuesCurrent, NEW c \in Checkout, CloseReview(c)
    PROVE  /\ IssuesCurrent'
           /\ ~HasIssue(c)'
           /\ \A d \in Checkout \ {c} : HasIssue(d)' <=> HasIssue(d)
<1>1. \A d \in Checkout : checkout'[d].snapshot = checkout[d].snapshot
  BY DEF Shaped, CloseReview
<1>2. IssuesCurrent'
  BY <1>1 DEF Shaped, IssuesCurrent, CloseReview
<1>3. QED
  BY <1>2 DEF CloseReview, HasIssue

\* An unpaid commission waits for a review exactly when an issue is OPEN that
\* the review can answer: publish opens the issues of a snapshot in the step
\* that sets MANUAL_REVIEW and supersedes those of older snapshots, a review
\* closes all of them in the step that decides, and a checkout reported again
\* with the same hash keeps both as they are.
THEOREM ReviewAlwaysHasIssue == SettlementSpec => []ReviewHasIssue
<1> DEFINE Inv == IssuesCurrent /\ \A c \in Checkout : Waits(c)
<1>1. SettlementInit => Inv
  BY DEF SettlementInit, CommissionInit, NoCommission, IssuesCurrent, Waits, HasIssue
<1>2. ASSUME Shaped, Inv, [SettlementNext]_settlementVars
      PROVE  Inv'
  <2> USE <1>2
  <2>1. CASE UNCHANGED <<checkout, commission, openIssues>>
    BY <2>1 DEF IssuesCurrent, Waits, HasIssue, Settled
  <2>2. ASSUME NEW report \in Report, Publish(report)
        PROVE  Inv'
    <3>1. ASSUME NEW c \in Checkout PROVE Waits(c)'
      <4>1. ASSUME c \in DOMAIN report, Recorded(c, report[c]) PROVE Waits(c)'
        BY <2>2, <4>1, PublishedIssues, PublishedWaits DEF Recorded, Waits
      <4>2. CASE ReRecorded(c)
        BY <4>2 DEF ReRecorded, Settled, Waits, Shaped, CommissionShape
      <4>3. ASSUME Skipped(c), c \in DOMAIN report => report[c] = checkout[c].snapshot
            PROVE  Waits(c)'
        BY <2>2, <4>3, PublishedIssues DEF Skipped, Waits, Settled
      <4>4. QED
        BY <2>2, <4>1, <4>2, <4>3, PublishCases
    <3>2. QED
      BY <2>2, <3>1, PublishedIssues
  <2>3. ASSUME NEW c \in Checkout, CloseReview(c), commission'[c].state # "MANUAL_REVIEW",
               \A d \in Checkout \ {c} : commission'[d] = commission[d]
        PROVE  Inv'
    BY <2>3, ClosedIssues DEF Waits, Settled
  <2>4. ASSUME NEW c \in Checkout, Exclude(c)
        PROVE  Inv'
    BY <2>3, <2>4 DEF Shaped, CommissionShape, Exclude
  <2>5. ASSUME NEW c \in Checkout, NEW link \in Link, NEW amount \in Accepted,
               Approve(c, link, amount)
        PROVE  Inv'
    BY <2>3, <2>5 DEF Shaped, CommissionShape, Approve, ApprovedState
  <2>6. ASSUME NEW b \in Batch, ConfirmSettlement(b)
        PROVE  Inv'
    <3>1. UNCHANGED <<checkout, openIssues>>
      BY <2>6 DEF ConfirmSettlement
    <3>2. ASSUME NEW c \in Checkout PROVE Waits(c)'
      <4>1. CASE c \in batch[b].members
        BY <2>6, <4>1 DEF ConfirmSettlement, Shaped, CommissionShape, Waits, Settled
      <4>2. CASE c \notin batch[b].members
        BY <2>6, <3>1, <4>2 DEF ConfirmSettlement, Waits, HasIssue, Settled
      <4>3. QED
        BY <4>1, <4>2
    <3>3. QED
      BY <3>1, <3>2 DEF IssuesCurrent
  <2>7. QED
    BY <2>1, <2>2, <2>4, <2>5, <2>6, StepKinds
       DEF CreateSettlement, CancelSettlement, commissionVars, Quiet
<1>3. Inv => ReviewHasIssue
  BY DEF ReviewHasIssue, IssuesCurrent, Waits, HasIssue, Settled
<1>4. SettlementSpec => []Inv
  <2>1. Shaped /\ Inv /\ [SettlementNext]_settlementVars => Inv'
    BY <1>2
  <2> HIDE DEF Inv
  <2>2. QED
    BY <1>1, <2>1, ShapedAlways, PTL DEF SettlementSpec
<1>5. QED
  BY <1>3, <1>4, PTL

-----------------------------------------------------------------------------
\* The rows the ledger should hold about a commission.
Credits(c) ==
    IF Settled(c)
    THEN {Row(commission[c].user, SettlementKey(c), cashback[c].user, 0)} ELSE {}
Reversals(c) ==
    IF commission[c].state = "REVERSED"
    THEN {Row(commission[c].user, ReversalKey(c), -cashback[c].user, 0)} ELSE {}

Told(c) == RowsWith(SettlementKey(c)) = Credits(c) /\ RowsWith(ReversalKey(c)) = Reversals(c)

\* The two keys of a commission belong to it and to one movement each.
LEMMA CreditKeysDiffer ==
    \A c, d : /\ SettlementKey(c) # ReversalKey(d)
              /\ SettlementKey(c) = SettlementKey(d) <=> c = d
              /\ ReversalKey(c) = ReversalKey(d) <=> c = d
BY DEF SettlementKey, ReversalKey

\* The keys do not depend on the state.
LEMMA RowsWithPrimed ==
    \A c : /\ RowsWith(SettlementKey(c))' = {row \in ledger' : row.key = SettlementKey(c)}
          /\ RowsWith(ReversalKey(c))' = {row \in ledger' : row.key = ReversalKey(c)}
BY DEF RowsWith, SettlementKey, ReversalKey

\* What is told of an unpaid commission is nothing, whatever its other fields.
LEMMA ToldUnpaid ==
    ASSUME NEW c \in Checkout, Told(c), ~Settled(c), ~Settled(c)', UNCHANGED ledger
    PROVE  Told(c)'
BY DEF Told, Credits, Reversals, Settled, RowsWith

\* A step that reverses some paid commissions and leaves the other paid ones
\* alone keeps the ledger telling (AddLiveTagEngine.publish).
LEMMA ToldPublish ==
    ASSUME Shaped, \A c \in Checkout : Told(c), NEW report \in Report, Publish(report)
    PROVE  \A c \in Checkout : Told(c)'
<1> DEFINE reversed == {d \in DOMAIN report : /\ report[d] # checkout[d].snapshot
                                              /\ Reverses(d, report[d])}
<1>1. ledger' = ledger \cup {ReversalRow(d) : d \in reversed}
  BY DEF Publish, PostAll
<1>2. SUFFICES ASSUME NEW c \in Checkout PROVE Told(c)'
  OBVIOUS
<1>3. \A d : ReversalRow(d).key = ReversalKey(d)
  BY DEF ReversalRow, Row
<1>4. RowsWith(SettlementKey(c))' = RowsWith(SettlementKey(c))
  BY <1>1, <1>3, CreditKeysDiffer, RowsWithPrimed DEF RowsWith
<1>5. RowsWith(ReversalKey(c))' = RowsWith(ReversalKey(c)) \cup {ReversalRow(d) : d \in reversed \cap {c}}
  BY <1>1, <1>3, CreditKeysDiffer, RowsWithPrimed DEF RowsWith
<1>6. CASE c \in reversed
  <2>1. /\ commission[c].state = "PAID"
        /\ commission'[c] = [commission[c] EXCEPT !.state = "REVERSED"]
        /\ cashback'[c] = [cashback[c] EXCEPT !.state = "REVERSED"]
    BY <1>6 DEF Publish, Reverses, Settled
  <2>2. /\ commission'[c].state = "REVERSED"
        /\ commission'[c].user = commission[c].user
        /\ cashback'[c].user = cashback[c].user
    BY <2>1 DEF Shaped, CommissionShape, CashbackShape
  <2>3. Credits(c)' = Credits(c) /\ Reversals(c) = {} /\ Reversals(c)' = {ReversalRow(c)}
    BY <2>1, <2>2 DEF Credits, Reversals, Settled, ReversalRow
  <2>4. reversed \cap {c} = {c}
    BY <1>6
  <2>5. QED
    BY <1>4, <1>5, <2>3, <2>4 DEF Told, SettlementKey, ReversalKey
<1>7. CASE c \notin reversed
  <2>1. RowsWith(ReversalKey(c))' = RowsWith(ReversalKey(c))
    BY <1>5, <1>7
  <2>2. Credits(c)' = Credits(c) /\ Reversals(c)' = Reversals(c)
    <3>1. ASSUME c \in DOMAIN report, Recorded(c, report[c])
          PROVE  ~Settled(c) /\ ~Settled(c)'
      BY <3>1, PublishedNotPaid DEF Recorded, Settled
    <3>2. CASE ~Settled(c) /\ ~Settled(c)'
      BY <3>2 DEF Credits, Reversals, Settled
    <3>3. CASE UNCHANGED <<commission[c], cashback[c]>>
      BY <3>3 DEF Credits, Reversals, Settled, SettlementKey, ReversalKey
    <3>4. CASE Settled(c)
      BY <1>7, <3>3, <3>4, Zenon DEF Publish
    <3>5. QED
      BY <3>1, <3>2, <3>3, <3>4, PublishCases DEF ReRecorded, Skipped
  <2>3. QED
    BY <1>4, <2>1, <2>2 DEF Told, SettlementKey, ReversalKey
<1>8. QED
  BY <1>6, <1>7

\* A confirmation credits commissions that had no credit, with the amounts it
\* writes into their cashbacks (SettlementService.confirm).
LEMMA ToldConfirm ==
    ASSUME Shaped, \A c \in Checkout : Told(c), NEW b \in Batch, ConfirmSettlement(b)
    PROVE  \A c \in Checkout : Told(c)'
<1> DEFINE cs == batch[b].members
           credit(c) == CreditRow(c, batch[b].items[c])
<1>1. ledger' = ledger \cup {credit(d) : d \in cs}
  BY DEF ConfirmSettlement, PostAll
<1>2. SUFFICES ASSUME NEW c \in Checkout PROVE Told(c)'
  OBVIOUS
<1>3. \A d : credit(d).key = SettlementKey(d)
  BY DEF CreditRow, Row
<1> HIDE DEF credit
<1>4. RowsWith(ReversalKey(c))' = RowsWith(ReversalKey(c))
  BY <1>1, <1>3, CreditKeysDiffer, RowsWithPrimed DEF RowsWith
<1>5. RowsWith(SettlementKey(c))' = RowsWith(SettlementKey(c)) \cup {credit(d) : d \in cs \cap {c}}
  BY <1>1, <1>3, CreditKeysDiffer, RowsWithPrimed DEF RowsWith
<1>6. CASE c \in cs
  <2>1. commission[c].state = "VALIDATED"
    BY <1>6, PaidSetConfirm
  <2>2. /\ commission'[c].state = "PAID"
        /\ commission'[c].user = commission[c].user
        /\ cashback'[c].user = ItemSplit(c, batch[b].items[c]).user
    BY <1>6 DEF ConfirmSettlement, Shaped, CommissionShape
  <2>3. /\ Credits(c) = {} /\ Credits(c)' = {credit(c)}
        /\ Reversals(c) = {} /\ Reversals(c)' = {}
    BY <2>1, <2>2 DEF Credits, Reversals, Settled, credit, CreditRow, SettlementKey
  <2>4. cs \cap {c} = {c}
    BY <1>6
  <2>5. QED
    BY <1>4, <1>5, <2>3, <2>4 DEF Told, SettlementKey, ReversalKey
<1>7. CASE c \notin cs
  <2>1. RowsWith(SettlementKey(c))' = RowsWith(SettlementKey(c))
    BY <1>5, <1>7
  <2>2. UNCHANGED <<commission[c], cashback[c]>>
    BY <1>7 DEF ConfirmSettlement
  <2>3. Credits(c)' = Credits(c) /\ Reversals(c)' = Reversals(c)
    BY <2>2 DEF Credits, Reversals, Settled, SettlementKey, ReversalKey
  <2>4. QED
    BY <1>4, <2>1, <2>3 DEF Told, SettlementKey, ReversalKey
<1>8. QED
  BY <1>6, <1>7

\* A commission tells its rows in every step: a credit appears when it becomes
\* PAID, a reversal when it becomes REVERSED.
LEMMA ToldStep ==
    ASSUME Shaped, \A c \in Checkout : Told(c), [SettlementNext]_settlementVars
    PROVE  \A c \in Checkout : Told(c)'
<1> DEFINE AllTold == \A c \in Checkout : Told(c)
<1>1. CASE UNCHANGED <<ledger, commission, cashback>>
  BY <1>1 DEF Told, Credits, Reversals, Settled, RowsWith, SettlementKey, ReversalKey
<1>2. ASSUME NEW c \in Checkout, ~Settled(c), ~Settled(c)', UNCHANGED ledger,
             \A d \in Checkout \ {c} : UNCHANGED <<commission[d], cashback[d]>>
      PROVE  AllTold'
  <2>1. ASSUME NEW d \in Checkout \ {c} PROVE Told(d)'
    BY <1>2, <2>1 DEF Told, Credits, Reversals, Settled, RowsWith, SettlementKey, ReversalKey
  <2>2. QED
    BY <1>2, <2>1, ToldUnpaid
<1>3. ASSUME NEW c \in Checkout, Exclude(c)
      PROVE  AllTold'
  BY <1>2, <1>3 DEF Shaped, CommissionShape, Exclude, CloseReview, Reviewable, Settled
<1>4. ASSUME NEW c \in Checkout, NEW link \in Link, NEW amount \in Accepted,
             Approve(c, link, amount)
      PROVE  AllTold'
  <2>1. commission'[c].state \in {"VALIDATED", "ESTIMATED"}
    BY <1>4 DEF Shaped, CommissionShape, Approve, ApprovedState
  <2>2. QED
    BY <1>2, <1>4, <2>1 DEF Shaped, Approve, CloseReview, Reviewable, Settled
<1>5. QED
  BY <1>1, <1>3, <1>4, ToldPublish, ToldConfirm, StepKinds
     DEF CreateSettlement, CancelSettlement, commissionVars, Quiet

\* The ledger tells the fate of every commission: a credit appears in the step
\* that makes it PAID and a reversal in the step that makes it REVERSED, with
\* the amounts of its cashback, and no later step changes the state, the user
\* or the cashback of a paid commission without the row that says so.
THEOREM LedgerAlwaysTellsCommission == SettlementSpec => []LedgerTellsCommission
<1> DEFINE AllTold == \A c \in Checkout : Told(c)
<1>1. SettlementInit => AllTold
  BY DEF SettlementInit, CommissionInit, WalletInit, NoCommission, Told, Credits,
         Reversals, Settled, RowsWith
<1>2. ASSUME Shaped, AllTold, [SettlementNext]_settlementVars
      PROVE  AllTold'
  BY <1>2, ToldStep
<1>3. AllTold => LedgerTellsCommission
  BY DEF LedgerTellsCommission, Told, Credits, Reversals, Settled
<1>4. SettlementSpec => []AllTold
  <2>1. Shaped /\ AllTold /\ [SettlementNext]_settlementVars => AllTold'
    BY <1>2
  <2> HIDE DEF AllTold
  <2>2. QED
    BY <1>1, <2>1, ShapedAlways, PTL DEF SettlementSpec
<1>5. QED
  BY <1>3, <1>4, PTL

-----------------------------------------------------------------------------
\* Revisions count up, and an accepted amount changes only with a new one:
\* publish and review raise the revision in the step that writes the amount.
LEMMA RevisionStep ==
    ASSUME Shaped, [SettlementNext]_settlementVars, NEW c \in Checkout
    PROVE  /\ checkout'[c].revision >= checkout[c].revision
           /\ checkout'[c].revision = checkout[c].revision =>
                 commission'[c].estimated = commission[c].estimated
<1> DEFINE Goal == /\ checkout'[c].revision >= checkout[c].revision
                   /\ checkout'[c].revision = checkout[c].revision =>
                         commission'[c].estimated = commission[c].estimated
<1> /\ checkout[c] \in [snapshot : Snapshot \cup {Nobody}, revision : Nat]
    /\ CommissionShape(commission[c])
  BY DEF Shaped
<1>1. ASSUME UNCHANGED <<checkout[c], commission[c]>> PROVE Goal
  BY <1>1
<1>2. ASSUME NEW report \in Report, Publish(report)
      PROVE  Goal
  <2>1. \/ UNCHANGED <<checkout[c], commission[c]>>
        \/ checkout'[c] = [snapshot |-> report[c], revision |-> checkout[c].revision + 1]
    BY <1>2, Zenon DEF Publish
  <2>2. QED
    BY <1>1, <2>1
<1>3. ASSUME NEW d \in Checkout, CloseReview(d),
             c # d => UNCHANGED commission[c]
      PROVE  Goal
  BY <1>3 DEF Shaped, CloseReview
<1>4. ASSUME NEW b \in Batch, ConfirmSettlement(b)
      PROVE  Goal
  <2>1. UNCHANGED checkout
    BY <1>4 DEF ConfirmSettlement
  <2>2. \/ commission'[c] = commission[c]
        \/ commission'[c] = [commission[c] EXCEPT !.state = "PAID",
                                                  !.settled = batch[b].items[c].net]
    BY <1>4, Zenon DEF ConfirmSettlement
  <2>3. commission'[c].estimated = commission[c].estimated
    BY <2>2 DEF CommissionShape
  <2>4. QED
    BY <2>1, <2>3
<1>5. ASSUME NEW d \in Checkout, Exclude(d)
      PROVE  Goal
  BY <1>3, <1>5 DEF Exclude, Shaped
<1>6. ASSUME NEW d \in Checkout, NEW link \in Link, NEW amount \in Accepted,
             Approve(d, link, amount)
      PROVE  Goal
  BY <1>3, <1>6 DEF Approve, Shaped
<1>7. UNCHANGED commissionVars \/ Quiet => Goal
  BY <1>1 DEF commissionVars, Quiet
<1> HIDE DEF Goal
<1>8. Goal
  BY <1>2, <1>4, <1>5, <1>6, <1>7, StepKinds DEF CreateSettlement, CancelSettlement
<1>9. QED
  BY <1>8 DEF Goal

\* The items of a draft carry revisions that were current, and while all of
\* them still are the gross of the draft is the sum of the accepted amounts.
Current(b) == \A c \in batch[b].members : batch[b].items[c].revision = checkout[c].revision

\* A draft shows what its members are worth, unless one was recorded again.
Drafted(b) ==
    batch[b].status = "DRAFT" =>
        /\ \A c \in batch[b].members : /\ batch[b].items[c].revision \in Nat
                                       /\ batch[b].items[c].revision <= checkout[c].revision
        /\ Current(b) => batch[b].gross = Gross(batch[b].members)

\* A draft that a step leaves alone stays drafted, whatever it does elsewhere.
LEMMA DraftedKept ==
    ASSUME Shaped, [SettlementNext]_settlementVars, NEW b \in Batch,
           Drafted(b), batch'[b] = batch[b]
    PROVE  Drafted(b)'
<1> DEFINE cs == batch[b].members
<1>1. SUFFICES ASSUME batch[b].status = "DRAFT" PROVE Drafted(b)'
  BY DEF Drafted
<1>2. cs \subseteq Checkout
  BY DEF Shaped, BatchShape
<1>3. \A c \in cs : /\ checkout[c].revision \in Nat /\ checkout'[c].revision \in Nat
                    /\ checkout'[c].revision >= checkout[c].revision
  BY <1>2, ShapedStep, RevisionStep DEF Shaped
<1>4. \A c \in cs : /\ batch[b].items[c].revision \in Nat
                    /\ batch[b].items[c].revision <= checkout'[c].revision
  BY <1>1, <1>3 DEF Drafted
<1>5. ASSUME Current(b)' PROVE batch[b].gross = Gross(cs)'
  <2>1. \A c \in cs : /\ checkout'[c].revision = checkout[c].revision
                      /\ batch[b].items[c].revision = checkout[c].revision
    BY <1>1, <1>3, <1>5 DEF Drafted, Current
  <2>2. \A c \in cs : commission'[c].estimated = commission[c].estimated
    BY <1>2, <2>1, RevisionStep
  <2>3. [c \in cs |-> commission'[c].estimated] = [c \in cs |-> commission[c].estimated]
    BY <2>2
  <2>4. batch[b].gross = Gross(cs)
    BY <1>1, <2>1 DEF Drafted, Current
  <2>5. Gross(cs)' = Gross(cs)
    BY <2>3 DEF Gross
  <2>6. QED
    BY <2>4, <2>5
<1>6. QED
  BY <1>4, <1>5 DEF Drafted

\* Drafts are drafted from current revisions (SettlementService.create), and a
\* confirmed or cancelled settlement is no draft.
LEMMA DraftedStep ==
    ASSUME Shaped, \A b \in Batch : Drafted(b), [SettlementNext]_settlementVars
    PROVE  \A b \in Batch : Drafted(b)'
<1>1. SUFFICES ASSUME NEW b \in Batch, batch'[b] # batch[b] PROVE Drafted(b)'
  BY DraftedKept
<1>2. CASE \E a \in Batch : ConfirmSettlement(a) \/ CancelSettlement(a)
  <2>1. PICK a \in Batch : ConfirmSettlement(a) \/ CancelSettlement(a)
    BY <1>2
  <2>2. a = b
    BY <1>1, <2>1 DEF Shaped, ConfirmSettlement, CancelSettlement
  <2>3. BatchShape(batch[b])
    BY DEF Shaped
  <2>4. ConfirmSettlement(b) => batch'[b].status = "CONFIRMED"
    BY <2>3 DEF Shaped, BatchShape, ConfirmSettlement
  <2>5. CancelSettlement(b) => batch'[b].status = "CANCELLED"
    BY <2>3 DEF Shaped, BatchShape, CancelSettlement
  <2>6. QED
    BY <2>1, <2>2, <2>4, <2>5 DEF Drafted
<1>3. ASSUME NEW a \in Batch, NEW cs \in SUBSET Checkout, NEW deduction \in Deduction,
             NEW last \in cs, CreateSettlement(a, cs, deduction, last)
      PROVE  Drafted(b)'
  <2>1. a = b
    BY <1>1, <1>3 DEF Shaped, CreateSettlement
  <2>2. UNCHANGED <<checkout, commission>>
    BY <1>3 DEF CreateSettlement, commissionVars
  <2>3. /\ batch'[b].members = cs
        /\ batch'[b].gross = Gross(cs)
        /\ \A c \in cs : batch'[b].items[c].revision = checkout[c].revision
    BY <1>3, <2>1 DEF Shaped, CreateSettlement
  <2>4. \A c \in cs : checkout[c].revision \in Nat
    BY DEF Shaped
  <2>5. Gross(cs)' = Gross(cs)
    BY <2>2 DEF Gross
  <2>6. QED
    BY <2>2, <2>3, <2>4, <2>5 DEF Drafted
<1>4. QED
  BY <1>1, <1>2, <1>3, StepKinds DEF Quiet

\* A confirmation pays the amounts the admin saw: it refuses a batch with an
\* item whose revision is not current, and while the revisions are current the
\* accepted amounts are those the gross of the draft was computed from.
THEOREM AlwaysPaysWhatWasDrafted == SettlementSpec => PaysWhatWasDrafted
<1> DEFINE AllDrafted == \A b \in Batch : Drafted(b)
<1>1. SettlementInit => AllDrafted
  BY DEF SettlementInit, Drafted
<1>2. Shaped /\ AllDrafted /\ [SettlementNext]_settlementVars =>
        \A b \in Batch :
          batch[b].status = "DRAFT" /\ batch'[b].status = "CONFIRMED" =>
              batch[b].gross = Gross(batch[b].members)
  <2>1. SUFFICES ASSUME Shaped, AllDrafted, [SettlementNext]_settlementVars, NEW b \in Batch,
                        batch[b].status = "DRAFT", batch'[b].status = "CONFIRMED"
                 PROVE  batch[b].gross = Gross(batch[b].members)
    OBVIOUS
  <2>2. ASSUME NEW a \in Batch, CancelSettlement(a) PROVE FALSE
    BY <2>1, <2>2 DEF Shaped, BatchShape, CancelSettlement
  <2>3. ASSUME NEW a \in Batch, NEW cs \in SUBSET Checkout, NEW deduction \in Deduction,
               NEW last \in cs, CreateSettlement(a, cs, deduction, last)
        PROVE FALSE
    BY <2>1, <2>3 DEF Shaped, CreateSettlement
  <2>4. PICK a \in Batch : ConfirmSettlement(a)
    BY <2>1, <2>2, <2>3, StepKinds DEF Quiet
  <2>5. a = b
    BY <2>1, <2>4 DEF Shaped, ConfirmSettlement
  <2>6. Current(b)
    BY <2>4, <2>5 DEF ConfirmSettlement, Unchanged, Current
  <2>7. QED
    BY <2>1, <2>6 DEF Drafted
<1>3. Shaped /\ AllDrafted /\ [SettlementNext]_settlementVars => AllDrafted'
  BY DraftedStep
<1> HIDE DEF AllDrafted
<1>4. SettlementSpec => []AllDrafted
  BY <1>1, <1>3, ShapedAlways, PTL DEF SettlementSpec
<1>5. QED
  BY <1>2, <1>4, ShapedAlways, PTL DEF SettlementSpec, PaysWhatWasDrafted
-----------------------------------------------------------------------------
\* The types of all tables but the wallet and its ledger; what is paid is paid
\* to somebody.
Tables ==
    /\ checkout \in [Checkout -> [snapshot : Snapshot \cup {Nobody},
                                  revision : 0..MaxRevision]]
    /\ commission \in [Checkout -> CommissionRow]
    /\ cashback \in [Checkout -> CashbackRow]
    /\ openIssues \subseteq Issue
    /\ credential \in Credential
    /\ userBps \in BasisPoints
    /\ deletedLink \subseteq Link
    /\ batch \in [Batch -> BatchRow]
    /\ \A c \in Checkout : Settled(c) => commission[c].user # Nobody

\* Both parts of a split are integers and make the whole (splitCashback).
LEMMA SplitParts ==
    ASSUME NEW net \in Int, NEW bps \in BasisPoints
    PROVE  /\ SplitCashback(net, bps).user \in Int
           /\ SplitCashback(net, bps).platform \in Int
           /\ SplitCashback(net, bps).user + SplitCashback(net, bps).platform = net
<1>1. (net * bps) \div 10000 \in Int
    BY DEF BasisPoints
<1> QED  BY <1>1 DEF SplitCashback

\* An order is attributed to a user or to nobody, ...
LEMMA AttributedUser == \A s \in Snapshot : Attributed(s) \in User \cup {Nobody}
BY CommissionConstants DEF Attributed

\* ... and the issues found in it are of the known types.
LEMMA FoundTypes ==
    ASSUME NEW c \in Checkout, NEW s \in Snapshot
    PROVE  FoundIssues(c, s) \subseteq IssueType
<1>1. SnapshotIssues(s) \subseteq IssueType
    BY CommissionConstants DEF SnapshotIssues, When, IssueType
<1>2. /\ \A condition \in BOOLEAN : When(condition, "AFFILIATE_ACCOUNT_MISMATCH") \subseteq IssueType
      /\ \A condition \in BOOLEAN : When(condition, "CROSS_PROVIDER_DUPLICATE") \subseteq IssueType
      /\ \A condition \in BOOLEAN : When(condition, "INVALID_ATTRIBUTION") \subseteq IssueType
      /\ \A condition \in BOOLEAN : When(condition, "ATTRIBUTION_CHANGED") \subseteq IssueType
      /\ \A condition \in BOOLEAN : When(condition, "PAID_COMMISSION_CHANGED") \subseteq IssueType
    BY DEF When, IssueType
<1> QED  BY <1>1, <1>2 DEF FoundIssues, Settled, When, IssueType

\* What a publication writes (AddLiveTagEngine.publish).
LEMMA PublishedRows ==
    ASSUME Tables, NEW c \in Checkout, NEW s \in Snapshot
    PROVE  /\ PublishedCommission(c, s) \in CommissionRow
           /\ PublishedCashback(c, s) \in CashbackRow
<1>1. /\ NetRaw(s) \in Nat
      /\ PublishedUser(c, s) \in User \cup {Nobody}
      /\ PublishedState(c, s) \in CommissionState
    BY CommissionConstants, AttributedUser
       DEF Tables, PublishedUser, PublishedState, CommissionState, CommissionRow
<1>2. PublishedCommission(c, s) \in CommissionRow
    BY <1>1 DEF PublishedCommission, CommissionRow
<1>3. PublishedCashback(c, s) \in CashbackRow
    <2> DEFINE state == IF PublishedState(c, s) \in {"VALIDATED", "REJECTED"}
                        THEN PublishedState(c, s) ELSE "PENDING"
               bps == IF cashback[c].state = "none" THEN userBps ELSE cashback[c].bps
    <2>1. state \in CashbackState \cup {"none"} /\ bps \in BasisPoints
          /\ cashback[c] \in CashbackRow
        BY DEF Tables, CashbackRow, CashbackState
    <2>2. CashbackFor(c, NetRaw(s), state) \in CashbackRow
        <3> HIDE DEF state
        <3> QED  BY <1>1, <2>1, SplitParts DEF CashbackFor, CashbackRow
    <2> QED  BY <2>1, <2>2 DEF PublishedCashback
<1> QED  BY <1>2, <1>3

\* A publication writes rows of the right types (AddLiveTagEngine.publish).
LEMMA PublishTables ==
    ASSUME Tables, NEW report \in Report, Publish(report), UNCHANGED batch
    PROVE  Tables'
<1> DEFINE new == {c \in DOMAIN report : report[c] # checkout[c].snapshot}
           unpaid == {c \in new : ~Settled(c)}
           reversed == {c \in new : Reverses(c, report[c])}
<1>1. DOMAIN report \subseteq Checkout /\ \A c \in DOMAIN report : report[c] \in Snapshot
    BY DEF Report
<1>2. checkout' \in [Checkout -> [snapshot : Snapshot \cup {Nobody}, revision : 0..MaxRevision]]
    <2>1. ASSUME NEW c \in new PROVE checkout[c].revision + 1 \in 0..MaxRevision
        BY <1>1, CommissionConstants DEF Publish, Tables
    <2> QED  BY <1>1, <2>1 DEF Publish, Tables
<1>3. commission' = [c \in Checkout |->
             IF c \in unpaid THEN PublishedCommission(c, report[c])
             ELSE IF c \in reversed THEN [commission[c] EXCEPT !.state = "REVERSED"]
             ELSE commission[c]]
      /\ cashback' = [c \in Checkout |->
             IF c \in unpaid THEN PublishedCashback(c, report[c])
             ELSE IF c \in reversed THEN [cashback[c] EXCEPT !.state = "REVERSED"]
             ELSE cashback[c]]
    BY DEF Publish
<1>4. ASSUME NEW c \in Checkout
      PROVE  /\ commission'[c] \in CommissionRow /\ cashback'[c] \in CashbackRow
             /\ Settled(c)' => commission'[c].user # Nobody
    <2> commission[c] \in CommissionRow /\ cashback[c] \in CashbackRow
        /\ (Settled(c) => commission[c].user # Nobody)
        BY DEF Tables
    <2>1. CASE c \in unpaid
        <3>1. report[c] \in Snapshot
            BY <1>1, <2>1
        <3>2. commission'[c] = PublishedCommission(c, report[c])
              /\ cashback'[c] = PublishedCashback(c, report[c])
            BY <1>3, <2>1
        <3>3. commission'[c].state \notin {"PAID", "REVERSED"}
            BY <3>1, <3>2, PublishedNotPaid
        <3> QED  BY <3>1, <3>2, <3>3, PublishedRows DEF Settled
    <2>2. CASE c \notin unpaid /\ c \in reversed
        <3>1. commission'[c] = [commission[c] EXCEPT !.state = "REVERSED"]
              /\ cashback'[c] = [cashback[c] EXCEPT !.state = "REVERSED"]
              /\ Settled(c)
            BY <1>3, <2>2 DEF Reverses, Settled
        <3> QED  BY <3>1 DEF CommissionRow, CashbackRow, CommissionState, CashbackState
    <2>3. CASE c \notin unpaid /\ c \notin reversed
        BY <1>3, <2>3 DEF Settled
    <2> QED  BY <2>1, <2>2, <2>3
<1>5. commission' \in [Checkout -> CommissionRow] /\ cashback' \in [Checkout -> CashbackRow]
    BY <1>3, <1>4
<1>6. openIssues' \subseteq Issue
    <2>1. ASSUME NEW c \in new
          PROVE  [checkout : {c}, type : FoundIssues(c, report[c]), snapshot : {report[c]}]
                    \subseteq Issue
        BY <1>1, FoundTypes DEF Issue
    <2>2. CurrentIssues(new, report) \subseteq Issue
        BY DEF CurrentIssues, Tables
    <2>3. openIssues' = CurrentIssues(new, report)
             \cup UNION {[checkout : {c}, type : FoundIssues(c, report[c]),
                          snapshot : {report[c]}] : c \in new}
        BY DEF Publish
    <2> QED  BY <2>1, <2>2, <2>3
<1>7. \A c \in Checkout : (Settled(c) => commission[c].user # Nobody)'
    BY <1>4
<1> QED  BY <1>2, <1>5, <1>6, <1>7 DEF Tables, Publish

\* Every part of a net amount is an integer (allocateNet).
LEMMA AllocatedParts ==
    ASSUME NEW cs, IsFiniteSet(cs), NEW net \in Nat, NEW weight \in [cs -> Nat],
           Total(weight, cs) > 0, NEW last \in cs
    PROVE  \A c \in cs : AllocateNet(net, weight, last)[c] \in Int
<1>0. Total(weight, cs) \in Nat
    BY TotalNat
<1>1. ASSUME NEW c \in cs PROVE Share(net, weight, c) \in Int
    <2>1. net * weight[c] \in Nat
        OBVIOUS
    <2>2. (net * weight[c]) \div Total(weight, cs) \in Int
        BY <1>0, <2>1
    <2> QED  BY <2>2 DEF Share
<1> DEFINE rest == cs \ {last}
           f == [c \in rest |-> Share(net, weight, c)]
<1>2. MapThenSumSet(LAMBDA y : Share(net, weight, y), rest) = SumOf(f, rest)
    <2>1. \A x \in rest : f[x] = Share(net, weight, x)
        OBVIOUS
    <2> HIDE DEF f, rest
    <2> QED  BY <2>1, ShareSum
<1>3. SumOf(f, rest) \in Int
    <2>1. IsFiniteSet(rest)
        BY FS_Subset
    <2>2. \A x \in rest : f[x] \in Int
        BY <1>1
    <2> HIDE DEF f, rest
    <2> QED  BY <2>1, <2>2, SumInt
<1>4. ASSUME NEW c \in cs PROVE AllocateNet(net, weight, last)[c] \in Int
    <2>1. AllocateNet(net, weight, last)[c] =
             IF c = last THEN net - MapThenSumSet(LAMBDA y : Share(net, weight, y), rest)
             ELSE Share(net, weight, c)
        BY DEF AllocateNet
    <2> QED  BY <1>1, <1>2, <1>3, <2>1
<1> QED  BY <1>4

-----------------------------------------------------------------------------
\* What a review writes (AddLiveTagEngine.review).
LEMMA ClosedTables ==
    ASSUME Tables, NEW c \in Checkout, CloseReview(c), UNCHANGED batch
    PROVE  /\ checkout' \in [Checkout -> [snapshot : Snapshot \cup {Nobody},
                                          revision : 0..MaxRevision]]
           /\ openIssues' \subseteq Issue
           /\ UNCHANGED <<credential, userBps, deletedLink, batch>>
<1>1. ASSUME NEW d \in Checkout
      PROVE  checkout'[d] \in [snapshot : Snapshot \cup {Nobody}, revision : 0..MaxRevision]
    <2>1. checkout[d] \in [snapshot : Snapshot \cup {Nobody}, revision : 0..MaxRevision]
        BY DEF Tables
    <2>2. CASE d # c
        <3>1. checkout'[d] = checkout[d]
            BY <2>2 DEF CloseReview, Tables
        <3> QED  BY <2>1, <3>1
    <2>3. CASE d = c
        <3>1. PICK row : row = checkout[c]
            OBVIOUS
        <3>2. checkout'[c] = [row EXCEPT !.revision = row.revision + 1]
            BY <3>1 DEF CloseReview, Tables
        <3>3. row.revision < MaxRevision
            BY <3>1 DEF CloseReview
        <3> QED  BY <2>1, <2>3, <3>1, <3>2, <3>3, CommissionConstants
    <2> QED  BY <2>2, <2>3
<1> QED  BY <1>1 DEF CloseReview, Tables

\* So does a review (AddLiveTagEngine.review).
LEMMA ReviewTables ==
    ASSUME Tables, NEW c \in Checkout, UNCHANGED batch,
           \/ Exclude(c)
           \/ \E link \in Link, amount \in Accepted : Approve(c, link, amount)
    PROVE  Tables'
<1>0. CloseReview(c)
    BY DEF Exclude, Approve
<1>1. ASSUME commission' \in [Checkout -> CommissionRow], cashback' \in [Checkout -> CashbackRow],
             \A d \in Checkout : Settled(d)' => commission'[d].user # Nobody
      PROVE  Tables'
    BY <1>0, <1>1, ClosedTables DEF Tables
<1>2. CASE Exclude(c)
    <2>1. commission' = [commission EXCEPT ![c].state = "REJECTED"]
          /\ cashback' = IF cashback[c].state = "none" THEN cashback
                         ELSE [cashback EXCEPT ![c].state = "REJECTED"]
        BY <1>2 DEF Exclude
    <2>2. commission' \in [Checkout -> CommissionRow]
        BY <2>1 DEF Tables, CommissionRow, CommissionState
    <2>3. cashback' \in [Checkout -> CashbackRow]
        BY <2>1 DEF Tables, CashbackRow, CashbackState
    <2>4. \A d \in Checkout : Settled(d)' => commission'[d].user # Nobody
        BY <2>1 DEF Tables, Settled, CommissionRow
    <2> QED  BY <1>1, <2>2, <2>3, <2>4
<1>3. ASSUME NEW link \in Link, NEW amount \in Accepted, Approve(c, link, amount)
      PROVE  Tables'
    <2> DEFINE s == checkout[c].snapshot
    <2>1. PICK row : row = [commission[c] EXCEPT !.state = ApprovedState(s),
                                                 !.user = LinkOwner[link],
                                                 !.estimated = amount]
        OBVIOUS
    <2>2. commission' = [commission EXCEPT ![c] = row]
        BY <1>3, <2>1 DEF Approve, Tables
    <2>3. row \in CommissionRow /\ row.user # Nobody
        <3>1. amount \in Nat /\ LinkOwner[link] \in User /\ LinkOwner[link] # Nobody
              /\ ApprovedState(s) \in CommissionState
            BY CommissionConstants DEF ApprovedState, CommissionState
        <3>2. commission[c] \in CommissionRow
            BY DEF Tables
        <3> HIDE DEF s
        <3> QED  BY <2>1, <3>1, <3>2 DEF CommissionRow
    <2>4. PICK split : split = CashbackFor(c, amount, IF ApprovedState(s) = "VALIDATED"
                                                      THEN ApprovedState(s) ELSE "PENDING")
        OBVIOUS
    <2>5. cashback' = [cashback EXCEPT ![c] = split]
        BY <1>3, <2>4 DEF Approve
    <2>6. split \in CashbackRow
        <3> DEFINE bps == IF cashback[c].state = "none" THEN userBps ELSE cashback[c].bps
                   state == IF ApprovedState(s) = "VALIDATED" THEN ApprovedState(s) ELSE "PENDING"
        <3>1. bps \in BasisPoints /\ amount \in Int /\ state \in CashbackState
            BY CommissionConstants DEF Tables, CashbackRow, CashbackState
        <3>2. split = [state |-> state, bps |-> bps, user |-> SplitCashback(amount, bps).user,
                       platform |-> SplitCashback(amount, bps).platform]
            BY <2>4 DEF CashbackFor
        <3> HIDE DEF bps, state
        <3> QED  BY <3>1, <3>2, SplitParts DEF CashbackRow
    <2>7. commission' \in [Checkout -> CommissionRow] /\ cashback' \in [Checkout -> CashbackRow]
        BY <2>2, <2>3, <2>5, <2>6 DEF Tables
    <2>8. \A d \in Checkout : Settled(d)' => commission'[d].user # Nobody
        BY <2>2, <2>3 DEF Tables, Settled
    <2> QED  BY <1>1, <2>7, <2>8
<1> QED  BY <1>2, <1>3

-----------------------------------------------------------------------------
\* What a settlement writes (SettlementService).
LEMMA CreateTables ==
    ASSUME Tables, NEW b \in Batch, NEW cs \in SUBSET Checkout, NEW deduction \in Deduction,
           NEW last \in cs, CreateSettlement(b, cs, deduction, last)
    PROVE  /\ Tables'
           /\ Gross(cs) - deduction \in Nat
<1> DEFINE weight == [c \in cs |-> commission[c].estimated]
           net == Gross(cs) - deduction
           share == AllocateNet(net, weight, last)
           items == [c \in Checkout |->
                       IF c \in cs THEN [raw |-> commission[c].raw,
                                         revision |-> checkout[c].revision,
                                         net |-> share[c]]
                       ELSE NoItem]
<1>1. IsFiniteSet(cs) /\ weight \in [cs -> Nat]
    BY CommissionConstants, FS_Subset DEF Tables, CommissionRow
<1>2. Gross(cs) = Total(weight, cs)
    BY DEF Gross
<1>3. Gross(cs) \in Nat /\ Gross(cs) > 0
    <2>1. \A x \in cs : weight[x] \in Nat
        BY <1>1
    <2> HIDE DEF weight
    <2> QED  BY <1>1, <1>2, <2>1, TotalNat DEF CreateSettlement
<1>4. net \in Nat
    BY <1>3, SettlementConstants DEF CreateSettlement
<1>5. \A c \in cs : share[c] \in Int
    <2> HIDE DEF weight, net
    <2> QED  BY <1>1, <1>2, <1>3, <1>4, AllocatedParts
<1>6. batch' = [batch EXCEPT ![b] = [status |-> "DRAFT", gross |-> Gross(cs), net |-> net,
                                     members |-> cs, items |-> items]]
    BY DEF CreateSettlement
<1>7. items \in [Checkout -> SettlementItem]
    <2> HIDE DEF share
    <2>1. ASSUME NEW c \in Checkout PROVE items[c] \in SettlementItem
        BY <1>5, CommissionConstants DEF Tables, CommissionRow, SettlementItem, NoItem
    <2> QED  BY <2>1
<1>8. batch' \in [Batch -> BatchRow]
    <2> HIDE DEF items, net
    <2> QED  BY <1>3, <1>4, <1>6, <1>7 DEF Tables, BatchRow
<1>9. Tables'
    BY <1>8 DEF Tables, CreateSettlement, commissionVars, Settled
<1> QED  BY <1>4, <1>9

\* A confirmation pays typed rows, ...
LEMMA ConfirmTables ==
    ASSUME Tables, NEW b \in Batch, ConfirmSettlement(b)
    PROVE  Tables'
<1> DEFINE cs == batch[b].members
           items == batch[b].items
<1>1. batch[b] \in BatchRow
    BY DEF Tables
<1>2. cs \in SUBSET Checkout /\ \A c \in Checkout : items[c].net \in Int
    BY <1>1 DEF BatchRow, SettlementItem
<1>3. commission' = [c \in Checkout |->
             IF c \in cs THEN [commission[c] EXCEPT !.state = "PAID",
                                                    !.settled = items[c].net]
             ELSE commission[c]]
      /\ cashback' = [c \in Checkout |->
             IF c \in cs
             THEN [state |-> "AVAILABLE", bps |-> cashback[c].bps,
                   user |-> ItemSplit(c, items[c]).user,
                   platform |-> ItemSplit(c, items[c]).platform]
             ELSE cashback[c]]
    BY DEF ConfirmSettlement
<1>4. ASSUME NEW c \in Checkout
      PROVE  /\ commission'[c] \in CommissionRow /\ cashback'[c] \in CashbackRow
             /\ Settled(c)' => commission'[c].user # Nobody
    <2>1. commission[c] \in CommissionRow /\ cashback[c] \in CashbackRow
          /\ (Settled(c) => commission[c].user # Nobody)
        BY DEF Tables
    <2>2. CASE c \notin cs
        BY <1>3, <2>1, <2>2 DEF Settled
    <2>3. CASE c \in cs
        <3>1. PICK row : row = [commission[c] EXCEPT !.state = "PAID", !.settled = items[c].net]
            OBVIOUS
        <3>2. row \in CommissionRow /\ row.user = commission[c].user
            BY <1>2, <2>1, <3>1 DEF CommissionRow, CommissionState
        <3>3. commission'[c] = row
            BY <1>3, <2>3, <3>1
        <3>4. commission[c].user # Nobody
            BY <2>3 DEF ConfirmSettlement, Unchanged
        <3>5. ItemSplit(c, items[c]).user \in Int /\ ItemSplit(c, items[c]).platform \in Int
              /\ cashback[c].bps \in BasisPoints
            BY <1>2, <2>1, SplitParts DEF ItemSplit, CashbackRow
        <3>6. cashback'[c] \in CashbackRow
            BY <1>3, <2>3, <3>5 DEF CashbackRow, CashbackState
        <3> QED  BY <3>2, <3>3, <3>4, <3>6
    <2> QED  BY <2>2, <2>3
<1>5. commission' \in [Checkout -> CommissionRow] /\ cashback' \in [Checkout -> CashbackRow]
    BY <1>3, <1>4
<1>6. batch' \in [Batch -> BatchRow]
    BY <1>1 DEF Tables, ConfirmSettlement, BatchRow
<1>7. \A c \in Checkout : (Settled(c) => commission[c].user # Nobody)'
    BY <1>4
<1> QED  BY <1>5, <1>6, <1>7 DEF Tables, ConfirmSettlement

\* ... and a cancelled batch gives up its members (SettlementService).
LEMMA CancelTables ==
    ASSUME Tables, NEW b \in Batch, CancelSettlement(b)
    PROVE  Tables'
<1>1. NoItems \in [Checkout -> SettlementItem]
    BY CommissionConstants DEF NoItems, NoItem, SettlementItem
<1>2. PICK row : row = [batch[b] EXCEPT !.status = "CANCELLED", !.members = {}, !.items = NoItems]
    OBVIOUS
<1>3. row \in BatchRow
    BY <1>1, <1>2 DEF Tables, BatchRow
<1>4. batch' = [batch EXCEPT ![b] = row]
    BY <1>2 DEF CancelSettlement, Tables
<1> QED  BY <1>3, <1>4 DEF Tables, CancelSettlement, commissionVars, Settled

-----------------------------------------------------------------------------
\* The tables start typed.
LEMMA TablesInit == SettlementInit => Tables
<1> SUFFICES ASSUME SettlementInit PROVE Tables
    OBVIOUS
<1>1. NoItems \in [Checkout -> SettlementItem]
    BY CommissionConstants DEF NoItems, NoItem, SettlementItem
<1>2. batch \in [Batch -> BatchRow]
    BY <1>1 DEF SettlementInit, BatchRow
<1>3. commission \in [Checkout -> CommissionRow] /\ \A c \in Checkout : ~Settled(c)
    BY DEF SettlementInit, CommissionInit, NoCommission, CommissionRow, Settled
<1>4. cashback \in [Checkout -> CashbackRow] /\ userBps \in BasisPoints
    BY CommissionConstants
       DEF SettlementInit, CommissionInit, NoCashback, CashbackRow, BasisPoints
<1>5. credential \in Credential
    BY DEF SettlementInit, CommissionInit, Credential
<1>6. checkout \in [Checkout -> [snapshot : Snapshot \cup {Nobody}, revision : 0..MaxRevision]]
    BY CommissionConstants DEF SettlementInit, CommissionInit
<1>7. openIssues = {} /\ deletedLink = {}
    BY DEF SettlementInit, CommissionInit
<1> QED  BY <1>2, <1>3, <1>4, <1>5, <1>6, <1>7 DEF Tables

\* The steps of CredentialService, the policy and the links.
LEMMA SettingsTables ==
    ASSUME Tables, [CommissionNext]_commissionVars, UNCHANGED batch,
           UNCHANGED <<checkout, commission, cashback, openIssues>>
    PROVE  Tables'
<1>1. UNCHANGED <<credential, userBps, deletedLink>>
         \/ (\E account \in Account, affiliate \in Affiliate : Rotate(account, affiliate))
         \/ Verify \/ MarkActive \/ MarkExpired
         \/ (\E bps \in Bps : UpdateRate(bps))
         \/ (\E link \in Link : DeleteLink(link))
         \/ (\E report \in Report : Publish(report))
         \/ (\E c \in Checkout : CloseReview(c))
    BY DEF CommissionNext, commissionVars, Exclude, Approve
<1>2. credential' \in Credential /\ userBps' \in BasisPoints /\ deletedLink' \subseteq Link
    <2>0. credential \in Credential /\ userBps \in BasisPoints /\ deletedLink \subseteq Link
        BY DEF Tables
    <2>1. ASSUME NEW account \in Account, NEW affiliate \in Affiliate, Rotate(account, affiliate)
          PROVE  credential' \in Credential /\ UNCHANGED <<userBps, deletedLink>>
        BY <2>1 DEF Rotate, SetCredential, Credential
    <2>2. ASSUME Verify \/ MarkActive \/ MarkExpired
          PROVE  credential' \in Credential /\ UNCHANGED <<userBps, deletedLink>>
        BY <2>0, <2>2 DEF Verify, MarkActive, MarkExpired, SetCredential, Credential
    <2>3. ASSUME NEW bps \in Bps, UpdateRate(bps)
          PROVE  userBps' \in BasisPoints /\ UNCHANGED <<credential, deletedLink>>
        BY <2>3, CommissionConstants DEF UpdateRate
    <2>4. ASSUME NEW link \in Link, DeleteLink(link)
          PROVE  deletedLink' \subseteq Link /\ UNCHANGED <<credential, userBps>>
        BY <2>0, <2>4 DEF DeleteLink
    <2>5. ASSUME NEW report \in Report, Publish(report)
          PROVE  UNCHANGED <<credential, userBps, deletedLink>>
        BY <2>5 DEF Publish
    <2>6. ASSUME NEW c \in Checkout, CloseReview(c)
          PROVE  UNCHANGED <<credential, userBps, deletedLink>>
        BY <2>6 DEF CloseReview
    <2> QED  BY <1>1, <2>0, <2>1, <2>2, <2>3, <2>4, <2>5, <2>6
<1> QED  BY <1>2 DEF Tables, Settled

\* What a function makes of a finite set is finite.
LEMMA ImageFinite ==
    ASSUME NEW f, NEW S, IsFiniteSet(S)
    PROVE  IsFiniteSet({f[x] : x \in S})
<1> DEFINE T == {f[x] : x \in S}
           g == [x \in S |-> f[x]]
<1>1. g \in Surjection(S, T)
    BY DEF Surjection
<1> HIDE DEF T, g
<1> QED  BY <1>1, FS_Surjection DEF T

\* Every step keeps the types of the tables.
LEMMA TablesStep ==
    ASSUME Tables, [SettlementNext]_settlementVars
    PROVE  Tables'
<1>1. CASE Quiet
    <2>1. CASE ~[CommissionNext]_commissionVars \/ ~UNCHANGED batch
        <3>1. \/ \E b \in Batch, cs \in SUBSET Checkout \ {{}}, deduction \in Deduction :
                    \E last \in cs : CreateSettlement(b, cs, deduction, last)
              \/ \E b \in Batch : ConfirmSettlement(b)
              \/ \E b \in Batch : CancelSettlement(b)
            BY <2>1 DEF SettlementNext, settlementVars, commissionVars
        <3> QED  BY <3>1, CreateTables, ConfirmTables, CancelTables
    <2> QED  BY <1>1, <2>1, SettingsTables DEF Quiet
<1> QED  BY <1>1, StepKinds, PublishTables, ReviewTables, CreateTables, ConfirmTables, CancelTables

-----------------------------------------------------------------------------
\* Movements and reversals: rows that leave the reserves alone.
Movements(rows) ==
    /\ IsFiniteSet(rows)
    /\ rows \subseteq RowOf(CreditKey)
    /\ \A row \in rows : row.reserved = 0

\* Money moves by one posting of such rows in every step (PostAll), or not at all.
LEMMA StepPosts ==
    ASSUME Tables, [SettlementNext]_settlementVars
    PROVE  UNCHANGED walletVars \/ \E rows : Movements(rows) /\ PostAll(rows)
<1>1. \A c \in Checkout : SettlementKey(c) \in CreditKey /\ ReversalKey(c) \in CreditKey
    BY DEF SettlementKey, ReversalKey, CreditKey
<1>2. ASSUME NEW report \in Report, Publish(report)
      PROVE  \E rows : Movements(rows) /\ PostAll(rows)
    <2> DEFINE new == {c \in DOMAIN report : report[c] # checkout[c].snapshot}
               reversed == {c \in new : Reverses(c, report[c])}
               rows == {ReversalRow(c) : c \in reversed}
    <2>1. reversed \subseteq Checkout /\ IsFiniteSet(reversed)
        BY CommissionConstants, FS_Subset DEF Report
    <2>2. IsFiniteSet(rows)
        <3> DEFINE f == [c \in reversed |-> ReversalRow(c)]
        <3>1. rows = {f[c] : c \in reversed}
            OBVIOUS
        <3> HIDE DEF reversed, rows, f
        <3> QED  BY <2>1, <3>1, ImageFinite
    <2>3. ASSUME NEW c \in reversed
          PROVE  ReversalRow(c) \in RowOf(CreditKey) /\ ReversalRow(c).reserved = 0
        <3>1. commission[c] \in CommissionRow /\ cashback[c] \in CashbackRow /\ Settled(c)
            BY <2>1 DEF Tables, Reverses, Settled
        <3>2. commission[c].user \in User /\ -cashback[c].user \in Int
            BY <2>1, <3>1 DEF Tables, CommissionRow, CashbackRow
        <3> QED  BY <1>1, <2>1, <3>2 DEF ReversalRow, Row, RowOf
    <2>4. Movements(rows)
        BY <2>2, <2>3 DEF Movements
    <2>5. PostAll(rows)
        BY <1>2 DEF Publish
    <2> QED  BY <2>4, <2>5
<1>3. ASSUME NEW b \in Batch, ConfirmSettlement(b)
      PROVE  \E rows : Movements(rows) /\ PostAll(rows)
    <2> DEFINE cs == batch[b].members
               items == batch[b].items
               rows == {CreditRow(c, items[c]) : c \in cs}
    <2>1. cs \subseteq Checkout /\ IsFiniteSet(cs)
        BY CommissionConstants, FS_Subset DEF Tables, BatchRow
    <2>2. IsFiniteSet(rows)
        <3> DEFINE f == [c \in cs |-> CreditRow(c, items[c])]
        <3>1. rows = {f[c] : c \in cs}
            OBVIOUS
        <3> HIDE DEF cs, rows, f
        <3> QED  BY <2>1, <3>1, ImageFinite
    <2>3. ASSUME NEW c \in cs
          PROVE  /\ CreditRow(c, items[c]) \in RowOf(CreditKey)
                 /\ CreditRow(c, items[c]).reserved = 0
        <3>1. /\ commission[c] \in CommissionRow /\ cashback[c] \in CashbackRow
              /\ items[c].net \in Int /\ commission[c].user # Nobody
            BY <1>3, <2>1 DEF Tables, BatchRow, SettlementItem, ConfirmSettlement, Unchanged
        <3>2. commission[c].user \in User /\ ItemSplit(c, items[c]).user \in Int
            BY <3>1, SplitParts DEF ItemSplit, CommissionRow, CashbackRow
        <3> HIDE DEF items
        <3> QED  BY <1>1, <2>1, <3>2 DEF CreditRow, Row, RowOf
    <2>4. Movements(rows)
        BY <2>2, <2>3 DEF Movements
    <2>5. PostAll(rows)
        BY <1>3 DEF ConfirmSettlement
    <2> QED  BY <2>4, <2>5
<1>4. UNCHANGED walletVars \/ (\E report \in Report : Publish(report))
                           \/ (\E b \in Batch : ConfirmSettlement(b))
    BY DEF SettlementNext, CommissionNext, settlementVars, walletVars, Exclude, Approve,
           CloseReview, Rotate, Verify, MarkActive, MarkExpired, SetCredential, UpdateRate,
           DeleteLink, CreateSettlement, CancelSettlement, commissionVars
<1> QED  BY <1>2, <1>3, <1>4

\* The available amounts of some rows, added up.
Amounts(S) == SumOf([row \in S |-> row.available], S)

\* The amounts of typed rows add up to a number, the sum PostAll takes.
LEMMA AmountsInt ==
    ASSUME NEW K, NEW S, IsFiniteSet(S), S \subseteq RowOf(K)
    PROVE  /\ Amounts(S) \in Int
           /\ MapThenSumSet(LAMBDA row : row.available, S) = Amounts(S)
<1> DEFINE f == [row \in S |-> row.available]
<1>1. \A row \in S : f[row] = row.available /\ f[row] \in Int
    BY DEF RowOf
<1>2. MapThenSumSet(LAMBDA x : x.available, S) = SumOf(f, S)
    <2> HIDE DEF f
    <2> QED  BY <1>1, AvailableSum
<1>3. SumOf(f, S) \in Int
    <2> HIDE DEF f
    <2> QED  BY <1>1, SumInt
<1> QED  BY <1>2, <1>3 DEF Amounts

\* One posting keeps the types of wallet and ledger.
LEMMA PostedTypes ==
    ASSUME wallet \in [User -> Balance], ledger \subseteq RowOf(CreditKey),
           NEW rows, Movements(rows), PostAll(rows)
    PROVE  wallet' \in [User -> Balance] /\ ledger' \subseteq RowOf(CreditKey)
<1>1. ASSUME NEW u \in User PROVE wallet'[u] \in Balance
    <2> DEFINE new == {row \in rows \ ledger : row.user = u}
    <2>1. IsFiniteSet(new) /\ new \subseteq RowOf(CreditKey)
        BY FS_Subset DEF Movements
    <2>2. wallet'[u] = [wallet[u] EXCEPT !.available =
                           @ + MapThenSumSet(LAMBDA row : row.available, new)]
        BY DEF PostAll
    <2>3. MapThenSumSet(LAMBDA row : row.available, new) = Amounts(new) /\ Amounts(new) \in Int
        <3> HIDE DEF new
        <3> QED  BY <2>1, AmountsInt
    <2>4. wallet'[u] = [wallet[u] EXCEPT !.available = wallet[u].available + Amounts(new)]
        <3> HIDE DEF new
        <3> QED  BY <2>2, <2>3
    <2> HIDE DEF new
    <2> QED  BY <2>3, <2>4 DEF Balance
<1>2. wallet' \in [User -> Balance]
    BY <1>1 DEF PostAll
<1> QED  BY <1>2 DEF PostAll, Movements

\* The tables have their types (the columns of prisma/schema.prisma): amounts
\* received, paid out and kept are whole numbers, money is only paid to users.
THEOREM SettlementTypeCorrect == SettlementSpec => []SettlementTypeOK
<1> DEFINE Types == /\ Tables
                    /\ wallet \in [User -> Balance]
                    /\ ledger \subseteq RowOf(CreditKey)
<1>1. SettlementInit => Types
    BY TablesInit DEF SettlementInit, CommissionInit, WalletInit, Balance
<1>2. Types /\ [SettlementNext]_settlementVars => Types'
    BY TablesStep, StepPosts, PostedTypes DEF walletVars
<1>3. Types => SettlementTypeOK
    BY DEF Tables, SettlementTypeOK, CommissionTypeOK
<1> HIDE DEF Types
<1> QED  BY <1>1, <1>2, <1>3, PTL DEF SettlementSpec

\* What a commission was settled for, and its division, stay as they are once
\* it is paid: publish and review leave them, and no confirmation takes it again.
LEMMA PaidKept ==
    ASSUME Tables, [SettlementNext]_settlementVars, NEW c \in Checkout, Settled(c)
    PROVE  /\ Settled(c)'
           /\ commission'[c].settled = commission[c].settled
           /\ cashback'[c].user = cashback[c].user
           /\ cashback'[c].platform = cashback[c].platform
<1>0. commission[c] \in CommissionRow /\ cashback[c] \in CashbackRow
    BY DEF Tables
<1>1. CASE UNCHANGED <<commission, cashback>>
    BY <1>1 DEF Settled
<1>2. ASSUME NEW report \in Report, Publish(report)
      PROVE  /\ Settled(c)'
             /\ commission'[c].settled = commission[c].settled
             /\ cashback'[c].user = cashback[c].user
             /\ cashback'[c].platform = cashback[c].platform
    <2>1. \/ commission'[c] = commission[c]
          \/ commission'[c] = [commission[c] EXCEPT !.state = "REVERSED"]
        BY <1>2, Zenon DEF Publish
    <2>2. \/ cashback'[c] = cashback[c]
          \/ cashback'[c] = [cashback[c] EXCEPT !.state = "REVERSED"]
        BY <1>2, Zenon DEF Publish
    <2> QED  BY <1>0, <2>1, <2>2 DEF Settled, CommissionRow, CashbackRow
<1>3. ASSUME NEW d \in Checkout,
             \/ Exclude(d)
             \/ \E link \in Link, amount \in Accepted : Approve(d, link, amount)
      PROVE  commission'[c] = commission[c] /\ cashback'[c] = cashback[c]
    <2>1. d # c
        BY <1>3 DEF Exclude, Approve, Reviewable
    <2> QED  BY <1>3, <2>1 DEF Exclude, Approve, Tables
<1>4. ASSUME NEW b \in Batch, ConfirmSettlement(b)
      PROVE  commission'[c] = commission[c] /\ cashback'[c] = cashback[c]
    <2>1. c \notin batch[b].members
        BY <1>4 DEF ConfirmSettlement, Unchanged, Settled
    <2> QED  BY <1>4, <2>1 DEF ConfirmSettlement
<1> QED  BY <1>1, <1>2, <1>3, <1>4, StepKinds
            DEF Quiet, CreateSettlement, CancelSettlement, commissionVars, Settled

\* What SettledInFull says of one batch.
InFull(b) ==
    batch[b].status = "CONFIRMED" =>
        LET cs == batch[b].members IN
        /\ Total([c \in cs |-> commission[c].settled], cs) = batch[b].net
        /\ \A c \in cs : Settled(c) /\ cashback[c].user + cashback[c].platform = commission[c].settled

\* A confirmed settlement is final.
LEMMA ConfirmedKept ==
    ASSUME Tables, [SettlementNext]_settlementVars, NEW b \in Batch, InFull(b),
           batch'[b] = batch[b]
    PROVE  InFull(b)'
<1> SUFFICES ASSUME batch[b].status = "CONFIRMED" PROVE InFull(b)'
    BY DEF InFull
<1> DEFINE cs == batch[b].members
<1>1. cs \subseteq Checkout
    BY DEF Tables, BatchRow
<1>2. ASSUME NEW c \in cs
      PROVE  /\ Settled(c)'
             /\ commission'[c].settled = commission[c].settled
             /\ cashback'[c].user + cashback'[c].platform = commission'[c].settled
    BY <1>1, PaidKept DEF InFull
<1>3. [c \in cs |-> commission'[c].settled] = [c \in cs |-> commission[c].settled]
    BY <1>2
<1>4. Total([c \in cs |-> commission'[c].settled], cs) = batch[b].net
    BY <1>3 DEF InFull
<1> QED  BY <1>2, <1>4 DEF InFull

\* A confirmation pays every item what it was drafted for, and the items make
\* the whole (SettlementService.confirm).
LEMMA ConfirmedInFull ==
    ASSUME Tables, NEW b \in Batch, ConfirmSettlement(b)
    PROVE  InFull(b)'
<1> DEFINE cs == batch[b].members
           items == batch[b].items
<1>1. batch[b] \in BatchRow
    BY DEF Tables
<1>2. cs \subseteq Checkout /\ \A c \in Checkout : items[c].net \in Int
    BY <1>1 DEF BatchRow, SettlementItem
<1>3. batch'[b].members = cs /\ batch'[b].net = batch[b].net
    BY <1>1 DEF ConfirmSettlement, Tables, BatchRow
<1>4. ASSUME NEW c \in cs
      PROVE  /\ Settled(c)'
             /\ commission'[c].settled = items[c].net
             /\ cashback'[c].user + cashback'[c].platform = commission'[c].settled
    <2>1. PICK row : row = [commission[c] EXCEPT !.state = "PAID", !.settled = items[c].net]
        OBVIOUS
    <2>2. row.state = "PAID" /\ row.settled = items[c].net
        BY <1>2, <2>1 DEF Tables, CommissionRow
    <2>3. commission'[c] = row
        BY <1>2, <2>1 DEF ConfirmSettlement
    <2>4. /\ cashback'[c].user = ItemSplit(c, items[c]).user
          /\ cashback'[c].platform = ItemSplit(c, items[c]).platform
        BY <1>2 DEF ConfirmSettlement
    <2>5. ItemSplit(c, items[c]).user + ItemSplit(c, items[c]).platform = items[c].net
        BY <1>2, SplitParts DEF Tables, CashbackRow, ItemSplit
    <2> QED  BY <2>2, <2>3, <2>4, <2>5 DEF Settled
<1>5. [c \in cs |-> commission'[c].settled] = [c \in cs |-> items[c].net]
    BY <1>4
<1>6. Total([c \in cs |-> commission'[c].settled], cs) = batch[b].net
    BY <1>5 DEF ConfirmSettlement
<1> HIDE DEF cs
<1> QED  BY <1>3, <1>4, <1>6 DEF InFull

\* Every step keeps the confirmed batches settled in full.
LEMMA InFullStep ==
    ASSUME Tables, \A b \in Batch : InFull(b), [SettlementNext]_settlementVars
    PROVE  \A b \in Batch : InFull(b)'
<1> SUFFICES ASSUME NEW b \in Batch, batch'[b] # batch[b] PROVE InFull(b)'
    BY ConfirmedKept
<1>1. ASSUME NEW a \in Batch, ConfirmSettlement(a) PROVE InFull(b)'
    <2>1. a = b
        BY <1>1 DEF ConfirmSettlement, Tables
    <2> QED  BY <1>1, <2>1, ConfirmedInFull
<1>2. ASSUME NEW a \in Batch, CancelSettlement(a) PROVE InFull(b)'
    <2>1. batch'[b].status = "CANCELLED"
        BY <1>2 DEF CancelSettlement, Tables, BatchRow
    <2> QED  BY <2>1 DEF InFull
<1>3. ASSUME NEW a \in Batch, NEW cs \in SUBSET Checkout, NEW deduction \in Deduction,
             NEW last \in cs, CreateSettlement(a, cs, deduction, last)
      PROVE  InFull(b)'
    <2>1. batch'[b].status = "DRAFT"
        BY <1>3 DEF CreateSettlement, Tables
    <2> QED  BY <2>1 DEF InFull
<1> QED  BY <1>1, <1>2, <1>3, StepKinds DEF Quiet

\* The money of a confirmed settlement is all accounted for, whatever becomes
\* of its commissions: confirm demands that the items make the net amount, and
\* splitCashback leaves nothing over.
THEOREM AlwaysSettledInFull == SettlementSpec => []SettledInFull
<1> DEFINE AllInFull == \A b \in Batch : InFull(b)
<1>1. SettlementInit => Tables /\ AllInFull
    BY TablesInit DEF SettlementInit, InFull
<1>2. Tables /\ AllInFull /\ [SettlementNext]_settlementVars => Tables' /\ AllInFull'
    BY TablesStep, InFullStep
<1>3. AllInFull => SettledInFull
    BY DEF InFull, SettledInFull, Settled
<1> HIDE DEF AllInFull
<1> QED  BY <1>1, <1>2, <1>3, PTL DEF SettlementSpec

-----------------------------------------------------------------------------
\* Eligibility adds a column to Settlement: every step of it is a step of
\* Settlement, so what is always true there is true here.
LEMMA EligibilityBelow == EligibilitySpec => SettlementSpec
<1>1. EligibilityInit => SettlementInit
    BY DEF EligibilityInit
<1>2. [EligibilityNext]_eligibilityVars => [SettlementNext]_settlementVars
    BY DEF EligibilityNext, eligibilityVars, settlementVars
<1> QED  BY <1>1, <1>2, PTL DEF EligibilitySpec, SettlementSpec

\* The items of a snapshot have one code when nothing is found in it, and
\* all that publish can then do besides is to reject it (inspectCheckout).
LEMMA CleanSnapshot ==
    ASSUME NEW s \in Snapshot, SnapshotIssues(s) = {}, Conversion(s) # "REJECTED"
    PROVE  Conversion(s) = "VALIDATED"
<1> DEFINE codes == {item.code : item \in ToSet(s.items)}
<1>1. s.items \in Seq(Item) /\ s.items # <<>>
    BY CommissionConstants
<1>2. IsFiniteSet(codes) /\ codes # {}
    <2>1. DOMAIN s.items = 1..Len(s.items) /\ Len(s.items) \in Nat /\ Len(s.items) > 0
        BY <1>1
    <2>2. IsFiniteSet(DOMAIN s.items)
        BY <2>1, FS_Interval
    <2> DEFINE f == [i \in DOMAIN s.items |-> s.items[i].code]
    <2>3. codes = {f[i] : i \in DOMAIN s.items}
        BY DEF ToSet
    <2>4. IsFiniteSet({f[i] : i \in DOMAIN s.items})
        <3> HIDE DEF f
        <3> QED  BY <2>2, ImageFinite
    <2>5. s.items[1].code \in codes
        BY <2>1 DEF ToSet
    <2> QED  BY <2>3, <2>4, <2>5
<1>3. Conversion(s) # "PARTIALLY_VALIDATED"
    BY DEF SnapshotIssues, When
<1>4. \A i \in ToSet(s.items) : i.code \in Recognised
    BY DEF SnapshotIssues, When
<1>5. codes \subseteq Recognised
    BY <1>4
<1>6. Conversion(s) = CASE Cardinality(codes) > 1                -> "PARTIALLY_VALIDATED"
                        [] codes \in {{"completed"}, {"paid"}}   -> "VALIDATED"
                        [] codes = {"cancelled"}                 -> "REJECTED"
                        [] OTHER                                 -> "MANUAL_REVIEW"
    BY DEF Conversion
<1> HIDE DEF codes
<1>7. \A x : codes = {x} => Cardinality(codes) = 1
    BY FS_Singleton
<1>8. Cardinality(codes) = 1
    <2>1. ASSUME Cardinality(codes) > 1 PROVE FALSE
        <3>1. \A x : codes # {x}
            BY <1>7, <2>1
        <3>2. Conversion(s) = "PARTIALLY_VALIDATED"
            BY <1>6, <2>1, <3>1
        <3> QED  BY <1>3, <3>2
    <2> QED  BY <1>2, <2>1, FS_CardinalityType, FS_EmptySet
<1>9. PICK x : codes = {x}
    BY <1>2, <1>8, FS_Singleton
<1>10. x \in {"completed", "paid", "cancelled"}
    BY <1>5, <1>9 DEF Recognised
<1>11. CASE x = "cancelled"
    <2>1. codes = {"cancelled"} /\ codes \notin {{"completed"}, {"paid"}}
        BY <1>9, <1>11
    <2> QED  BY <1>6, <1>8, <2>1
<1>12. CASE x # "cancelled"
    <2>1. codes # {"cancelled"} /\ codes \in {{"completed"}, {"paid"}}
        BY <1>9, <1>10, <1>12
    <2> QED  BY <1>6, <1>8, <2>1
<1> QED  BY <1>11, <1>12

\* The rows of one checkout: it has a commission once it has a snapshot, and
\* the column of a commission that is ready says so too.
Rowed(c) == Known(c) <=> commission[c].state # "none"
Columned(c) == commission[c].state = "VALIDATED" => conversionState[c] = "VALIDATED"

\* A checkout gets its snapshot and its commission together (publish), and
\* loses neither.
LEMMA RowedStep ==
    ASSUME Shaped, [SettlementNext]_settlementVars, NEW c \in Checkout, Rowed(c)
    PROVE  Rowed(c)'
<1>0. CommissionShape(commission[c]) /\ Nobody \notin Snapshot
    BY CommissionConstants DEF Shaped
<1>1. CASE UNCHANGED <<checkout[c], commission[c]>>
    BY <1>1 DEF Rowed, Known
<1>2. ASSUME NEW report \in Report, Publish(report) PROVE Rowed(c)'
    <2>1. \A d \in DOMAIN report : report[d] \in Snapshot
        BY DEF Report
    <2>2. ASSUME NEW s \in Snapshot, Recorded(c, s) PROVE Rowed(c)'
        <3>1. checkout'[c].snapshot = s
            BY <2>2 DEF Recorded
        <3>2. commission'[c].state # "none"
            BY <2>2, PublishedNotPaid DEF Recorded
        <3> QED  BY <1>0, <3>1, <3>2 DEF Rowed, Known
    <2>3. CASE ReRecorded(c)
        <3>1. commission'[c].state # "none" /\ commission[c].state # "none"
            BY <1>0, <2>3 DEF ReRecorded, Settled, CommissionShape
        <3>2. checkout'[c].snapshot = checkout[c].snapshot \/ checkout'[c].snapshot \in Snapshot
            BY <1>2, <2>1 DEF Publish
        <3> QED  BY <1>0, <3>1, <3>2 DEF Rowed, Known
    <2>4. CASE Skipped(c)
        BY <1>1, <2>4 DEF Skipped
    <2> QED  BY <1>2, <2>1, <2>2, <2>3, <2>4, PublishCases
<1>3. ASSUME NEW d \in Checkout, NEW state,
             Reviewable(d), CloseReview(d), state # "none",
             \/ commission' = [commission EXCEPT ![d].state = state]
             \/ \E u, e : commission' = [commission EXCEPT ![d].state = state,
                                         ![d].user = u, ![d].estimated = e]
      PROVE  Rowed(c)'
    <2>1. \A e \in Checkout : checkout'[e].snapshot = checkout[e].snapshot
        <3>1. CloseReview(d)
            BY <1>3
        <3> QED  BY <3>1 DEF Shaped, CloseReview
    <2>2. CASE d # c
        <3>1. commission'[c] = commission[c]
            BY <1>3, <2>2 DEF Shaped
        <3> QED  BY <2>1, <3>1 DEF Rowed, Known
    <2>3. CASE d = c
        <3>1. checkout[c].snapshot \in Snapshot
            BY <1>3, <2>3 DEF Shaped, Reviewable
        <3>2. commission'[c].state = state
            <4>1. commission = [e \in Checkout |-> commission[e]]
                BY DEF Shaped
            <4>2. ASSUME commission' = [commission EXCEPT ![d].state = state]
                  PROVE  commission'[c].state = state
                BY <1>0, <2>3, <4>1, <4>2 DEF CommissionShape
            <4>3. ASSUME NEW u, NEW e, commission' = [commission EXCEPT ![d].state = state,
                                         ![d].user = u, ![d].estimated = e]
                  PROVE  commission'[c].state = state
                BY <1>0, <2>3, <4>1, <4>3 DEF CommissionShape
            <4> QED  BY <1>3, <4>2, <4>3
        <3> QED  BY <1>0, <1>3, <2>1, <3>1, <3>2 DEF Rowed, Known
    <2> QED  BY <2>2, <2>3
<1>4. ASSUME NEW d \in Checkout, Exclude(d) PROVE Rowed(c)'
    BY <1>3, <1>4 DEF Exclude
<1>5. ASSUME NEW d \in Checkout, NEW link \in Link, NEW amount \in Accepted,
             Approve(d, link, amount)
      PROVE  Rowed(c)'
    <2>1. ApprovedState(checkout[d].snapshot) # "none"
        BY DEF ApprovedState
    <2> QED  BY <1>3, <1>5, <2>1 DEF Approve
<1>6. ASSUME NEW b \in Batch, ConfirmSettlement(b) PROVE Rowed(c)'
    <2>1. CASE c \in batch[b].members
        <3>1. commission[c].state = "VALIDATED" /\ checkout' = checkout
            BY <1>6, <2>1 DEF ConfirmSettlement, Unchanged
        <3>2. commission'[c].state = "PAID"
            BY <1>0, <1>6, <2>1 DEF ConfirmSettlement, CommissionShape
        <3> QED  BY <3>1, <3>2 DEF Rowed, Known
    <2>2. CASE c \notin batch[b].members
        BY <1>1, <1>6, <2>2 DEF ConfirmSettlement
    <2> QED  BY <2>1, <2>2
<1> QED  BY <1>1, <1>2, <1>4, <1>5, <1>6, StepKinds
            DEF CreateSettlement, CancelSettlement, commissionVars, Quiet

\* The column follows the commission into VALIDATED: publish writes both from
\* one inspection, a review writes the column with the revision it adds, and
\* no other step writes either.
LEMMA ColumnedStep ==
    ASSUME Shaped, [SettlementNext]_settlementVars, NEW c \in Checkout, Columned(c),
           conversionState'[c] = ConversionAfter(c)
    PROVE  Columned(c)'
<1>0. CommissionShape(commission[c])
    BY DEF Shaped
<1>1. CASE UNCHANGED <<checkout[c], commission[c]>>
    BY <1>1 DEF Columned, ConversionAfter
<1>2. ASSUME NEW report \in Report, Publish(report) PROVE Columned(c)'
    <2>1. ASSUME NEW s \in Snapshot, Recorded(c, s) PROVE Columned(c)'
        <3> SUFFICES ASSUME commission'[c].state = "VALIDATED"
                     PROVE  conversionState'[c] = "VALIDATED"
            BY DEF Columned
        <3>1. PublishedState(c, s) = "VALIDATED"
            BY <2>1 DEF Recorded, PublishedCommission
        <3>2. FoundIssues(c, s) = {} /\ Conversion(s) # "REJECTED"
            BY <3>1 DEF PublishedState
        <3>3. SnapshotIssues(s) = {}
            BY <3>2 DEF FoundIssues
        <3>4. Conversion(s) = "VALIDATED"
            BY <3>2, <3>3, CleanSnapshot
        <3>5. checkout'[c].snapshot = s /\ s # checkout[c].snapshot
            BY <2>1 DEF Recorded
        <3> QED  BY <3>2, <3>4, <3>5 DEF ConversionAfter
    <2>2. CASE ReRecorded(c)
        BY <1>0, <2>2 DEF ReRecorded, Settled, Columned, CommissionShape
    <2>3. CASE Skipped(c)
        BY <1>1, <2>3 DEF Skipped
    <2> QED  BY <1>2, <2>1, <2>2, <2>3, PublishCases DEF Recorded
<1>3. ASSUME NEW d \in Checkout, CloseReview(d), d = c PROVE Columned(c)'
    <2>1. checkout'[c].snapshot = checkout[c].snapshot
        BY <1>3 DEF Shaped, CloseReview
    <2>2. checkout'[c].revision # checkout[c].revision
        BY <1>3 DEF Shaped, CloseReview
    <2> QED  BY <2>1, <2>2 DEF ConversionAfter, Columned
<1>4. ASSUME NEW d \in Checkout, Exclude(d) PROVE Columned(c)'
    <2>1. CASE d # c
        BY <1>1, <1>4, <2>1 DEF Shaped, Exclude, CloseReview
    <2> QED  BY <1>3, <1>4, <2>1 DEF Exclude
<1>5. ASSUME NEW d \in Checkout, NEW link \in Link, NEW amount \in Accepted,
             Approve(d, link, amount)
      PROVE  Columned(c)'
    <2>1. CASE d # c
        BY <1>1, <1>5, <2>1 DEF Shaped, Approve, CloseReview
    <2> QED  BY <1>3, <1>5, <2>1 DEF Approve
<1>6. ASSUME NEW b \in Batch, ConfirmSettlement(b) PROVE Columned(c)'
    <2>1. CASE c \in batch[b].members
        <3>1. commission'[c].state = "PAID"
            BY <1>0, <1>6, <2>1 DEF ConfirmSettlement, CommissionShape
        <3> QED  BY <3>1 DEF Columned
    <2>2. CASE c \notin batch[b].members
        BY <1>1, <1>6, <2>2 DEF ConfirmSettlement
    <2> QED  BY <2>1, <2>2
<1> QED  BY <1>1, <1>2, <1>4, <1>5, <1>6, StepKinds
            DEF CreateSettlement, CancelSettlement, commissionVars, Quiet

\* The three queries of a page of rows find what is true of each row
\* (batchProviderSettlementBlockers).
LEMMA PageFinds ==
    ASSUME \A d \in Checkout : Rowed(d), \A i \in openIssues : i.checkout \in Checkout,
           NEW page \in SUBSET KnownCheckouts, NEW c \in page
    PROVE  CommissionsPage(page)[c] = {} <=> Settleable(c)
<1> DEFINE ids   == {d[2] : d \in page}
           open  == {i.checkout : i \in {i \in openIssues : i.checkout[2] \in ids}}
           alive == {d \in KnownCheckouts : d[2] \in ids /\ commission[d].state # "REJECTED"}
           paid  == When(PaymentBlockers(checkout[c].snapshot) # {}, "PROVIDER_COMMISSION_NOT_PAID")
           ready == When(~CredentialReady(c[1]), "VERIFY_ACCOUNT_AND_VND_FIRST")
           clear == When(c \in open, "OPEN_RECONCILIATION_ISSUES")
           alone == When(\E d \in alive : Same(c, d), "CROSS_PROVIDER_DUPLICATE")
           valid == When(commission[c].state # "VALIDATED", "COMMISSION_NOT_VALIDATED")
           owned == When(commission[c].user = Nobody, "NO_ATTRIBUTED_USER")
           free  == When(InSettlement(c), "ALREADY_IN_SETTLEMENT")
<1>1. BatchBlockers(page)[c] = paid \cup ready \cup clear \cup alone
    BY DEF BatchBlockers
<1>2. CommissionsPage(page)[c] = valid \cup owned \cup free \cup BatchBlockers(page)[c]
    BY DEF CommissionsPage
<1>3. c \in open <=> ~\A i \in openIssues : i.checkout # c
    OBVIOUS
<1>4. (\E d \in alive : Same(c, d)) <=> DuplicateAlive(c)
    BY DEF DuplicateAlive, Same, Rowed, KnownCheckouts
<1>5. /\ paid = {} <=> PaymentBlockers(checkout[c].snapshot) = {}
      /\ ready = {} <=> CredentialReady(c[1])
      /\ clear = {} <=> \A i \in openIssues : i.checkout # c
      /\ alone = {} <=> ~DuplicateAlive(c)
      /\ valid = {} <=> commission[c].state = "VALIDATED"
      /\ owned = {} <=> commission[c].user # Nobody
      /\ free = {} <=> ~InSettlement(c)
    <2> HIDE DEF open, alive
    <2> QED  BY <1>3, <1>4 DEF When
<1> HIDE DEF ids, open, alive, paid, ready, clear, alone, valid, owned, free
<1>6. CommissionsPage(page)[c] = {} <=>
          /\ paid = {} /\ ready = {} /\ clear = {} /\ alone = {}
          /\ valid = {} /\ owned = {} /\ free = {}
    BY <1>1, <1>2
<1> QED  BY <1>5, <1>6 DEF Settleable, Eligible, Payable

\* The page of an order lists the same blockers but two (its own list of them).
LEMMA OrderPageFinds ==
    ASSUME NEW c \in Checkout, Columned(c)
    PROVE  OrderPageBlockers(c) = {} /\ ~InSettlement(c) /\ ~DuplicateAlive(c)
              <=> Settleable(c)
<1> DEFINE types == {i.type : i \in {i \in openIssues : i.checkout = c}}
           ready == When(~CredentialReady(c[1]), "ACCOUNT_UNIT_UNVERIFIED")
           shown == When(conversionState[c] # "VALIDATED", "CONVERSION_STATE")
           valid == When(commission[c].state # "VALIDATED", "COMMISSION_STATE")
           owned == When(commission[c].user = Nobody, "NO_ATTRIBUTED_USER")
<1>1. OrderPageBlockers(c) = PaymentBlockers(checkout[c].snapshot)
                               \cup ready \cup types \cup shown \cup valid \cup owned
    BY DEF OrderPageBlockers
<1>2. types = {} <=> \A i \in openIssues : i.checkout # c
    OBVIOUS
<1>3. /\ ready = {} <=> CredentialReady(c[1])
      /\ shown = {} <=> conversionState[c] = "VALIDATED"
      /\ valid = {} <=> commission[c].state = "VALIDATED"
      /\ owned = {} <=> commission[c].user # Nobody
    BY DEF When
<1> HIDE DEF types, ready, shown, valid, owned
<1>4. OrderPageBlockers(c) = {} <=>
          /\ PaymentBlockers(checkout[c].snapshot) = {}
          /\ ready = {} /\ types = {} /\ shown = {} /\ valid = {} /\ owned = {}
    BY <1>1
<1> QED  BY <1>2, <1>3, <1>4 DEF Settleable, Eligible, Payable, Columned

\* The issues list shows an issue with the revision of its checkout, which is
\* what review compares.
LEMMA IssueShown ==
    ASSUME Shaped, IssuesCurrent, NEW i \in openIssues
    PROVE  \E row \in IssuesPage : /\ row.issue = i
                                   /\ row.revision = checkout[i.checkout].revision
                                   /\ i.snapshot = checkout[i.checkout].snapshot
<1> DEFINE found == {c \in KnownCheckouts : /\ \E j \in openIssues : j.checkout[2] = c[2]
                                            /\ \E j \in openIssues : j.checkout[1] = c[1]}
           rowOf(p) == [issue |-> p[1], revision |-> checkout[p[2]].revision,
                        user |-> commission[p[2]].user]
           pairs == {p \in openIssues \X found : p[1].checkout = p[2]}
           pair  == <<i, i.checkout>>
<1>1. IssuesPage = {rowOf(p) : p \in pairs}
    BY DEF IssuesPage
<1>2. i.snapshot = checkout[i.checkout].snapshot /\ i.checkout \in KnownCheckouts
    BY CommissionConstants DEF Shaped, IssuesCurrent, KnownCheckouts, Known
<1>3. pair \in pairs
    BY <1>2
<1>4. rowOf(pair) \in IssuesPage
    BY <1>1, <1>3
<1> QED  BY <1>2, <1>4

\* An admin is shown as ready exactly what a settlement will take, on every
\* page and however the rows are grouped: the pages read other tables and
\* columns than SettlementService.create, but publish and review write them
\* together.
THEOREM AlwaysShownAsSettled == EligibilitySpec => []ShownAsSettled
<1> DEFINE Inv == \A c \in Checkout : Rowed(c) /\ Columned(c)
<1>1. EligibilityInit => Inv
    BY DEF EligibilityInit, SettlementInit, CommissionInit, NoCommission, Rowed, Known, Columned
<1>2. ASSUME Shaped, IssuesCurrent, Inv, [EligibilityNext]_eligibilityVars PROVE Inv'
    <2>1. [SettlementNext]_settlementVars
        BY <1>2 DEF EligibilityNext, eligibilityVars, settlementVars
    <2>2. ASSUME NEW c \in Checkout PROVE Columned(c)'
        <3>1. CASE conversionState'[c] = ConversionAfter(c)
            BY <1>2, <2>1, <3>1, ColumnedStep
        <3>2. CASE UNCHANGED eligibilityVars
            BY <1>2, <3>2 DEF eligibilityVars, Columned
        <3> QED  BY <1>2, <3>1, <3>2 DEF EligibilityNext
    <2> QED  BY <1>2, <2>1, <2>2, RowedStep
<1>3. Shaped /\ IssuesCurrent /\ Inv => ShownAsSettled
    BY PageFinds, OrderPageFinds, IssueShown DEF ShownAsSettled, Shaped, KnownCheckouts
<1>4. ReviewHasIssue => IssuesCurrent
    BY DEF ReviewHasIssue, IssuesCurrent
<1>5. Shaped /\ IssuesCurrent /\ Inv /\ [EligibilityNext]_eligibilityVars => Inv'
    BY <1>2
<1> HIDE DEF Inv
<1> QED  BY <1>1, <1>3, <1>4, <1>5, EligibilityBelow, ShapedAlways, ReviewAlwaysHasIssue,
            PTL DEF EligibilitySpec
=============================================================================
