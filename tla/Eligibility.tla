----------------------------- MODULE Eligibility -----------------------------
(***************************************************************************)
(* What the admin pages say about settling an order, next to what          *)
(* SettlementService.create will say.  The rules are written three times:  *)
(* in create (Eligible and Payable), in the commissions list, which looks  *)
(* a page of checkouts up at once, and in the page of one order, which has *)
(* its own list of blockers and reads a column nothing else reads.         *)
(***************************************************************************)
EXTENDS Settlement

VARIABLE conversionState    \* provider_checkouts.conversionState, "none" before

eligibilityVars == <<wallet, ledger, checkout, commission, cashback, openIssues,
                     credential, userBps, deletedLink, batch, conversionState>>

EligibilityInit ==
    SettlementInit /\ conversionState = [c \in Checkout |-> "none"]

\* Mutant of ConversionAfter: a review does not write the column.
ConversionAfterPublishOnly(c) ==
    LET new == checkout'[c].snapshot IN
    IF new # checkout[c].snapshot
    THEN IF FoundIssues(c, new) # {} THEN "MANUAL_REVIEW" ELSE Conversion(new)
    ELSE conversionState[c]

\* What a transaction leaves in the column: publish writes it with a new
\* snapshot, a review with the revision it adds.
ConversionAfter(c) ==
    LET new == checkout'[c].snapshot IN
    IF new # checkout[c].snapshot
    THEN IF FoundIssues(c, new) # {} THEN "MANUAL_REVIEW" ELSE Conversion(new)
    ELSE IF checkout'[c].revision # checkout[c].revision
    THEN IF commission'[c].state = "REJECTED" THEN "REJECTED" ELSE "VALIDATED"
    ELSE conversionState[c]

EligibilityNext ==
    /\ SettlementNext
    /\ conversionState' = [c \in Checkout |-> ConversionAfter(c)]

EligibilitySpec == EligibilityInit /\ [][EligibilityNext]_eligibilityVars

-----------------------------------------------------------------------------
\* batchProviderSettlementBlockers: one query per table for the whole page.
BatchBlockers(page) ==
    LET ids   == {c[2] : c \in page}
        open  == {i.checkout : i \in {i \in openIssues : i.checkout[2] \in ids}}
        alive == {d \in KnownCheckouts : d[2] \in ids /\ commission[d].state # "REJECTED"}
    IN [c \in page |->
           When(PaymentBlockers(checkout[c].snapshot) # {}, "PROVIDER_COMMISSION_NOT_PAID")
           \cup When(~CredentialReady(c[1]), "VERIFY_ACCOUNT_AND_VND_FIRST")
           \cup When(c \in open, "OPEN_RECONCILIATION_ISSUES")
           \cup When(\E d \in alive : Same(c, d), "CROSS_PROVIDER_DUPLICATE")]

\* The commissions list: the blockers shown beside every row of a page.
CommissionsPage(page) ==
    LET provider == BatchBlockers(page) IN
    [c \in page |->
        When(commission[c].state # "VALIDATED", "COMMISSION_NOT_VALIDATED")
        \cup When(commission[c].user = Nobody, "NO_ATTRIBUTED_USER")
        \cup When(InSettlement(c), "ALREADY_IN_SETTLEMENT")
        \cup provider[c]]

\* The page of one order, as an admin sees it.  It asks neither for another
\* provider nor for a settlement the commission is already in.
OrderPageBlockers(c) ==
    PaymentBlockers(checkout[c].snapshot)
    \cup When(~CredentialReady(c[1]), "ACCOUNT_UNIT_UNVERIFIED")
    \cup {i.type : i \in {i \in openIssues : i.checkout = c}}
    \cup When(conversionState[c] # "VALIDATED", "CONVERSION_STATE")
    \cup When(commission[c].state # "VALIDATED", "COMMISSION_STATE")
    \cup When(commission[c].user = Nobody, "NO_ATTRIBUTED_USER")

\* The issues list: the checkouts of a page are looked up by their orders and
\* their providers separately, then matched by both.
IssuesPage ==
    LET found == {c \in KnownCheckouts : /\ \E i \in openIssues : i.checkout[2] = c[2]
                                  /\ \E i \in openIssues : i.checkout[1] = c[1]}
    IN {[issue |-> p[1], revision |-> checkout[p[2]].revision,
         user |-> commission[p[2]].user] :
            p \in {p \in openIssues \X found : p[1].checkout = p[2]}}

-----------------------------------------------------------------------------
Settleable(c) == Eligible(c) /\ Payable(c)

\* An admin is shown as ready exactly what a settlement will take.  The
\* commissions list says so of every page of rows, however they are grouped;
\* the page of an order says so too, but for a duplicate at another provider
\* and a settlement the commission is in, which it does not look at; and what
\* the issues list shows of a row is the revision a review has to name.
ShownAsSettled ==
    /\ \A page \in SUBSET KnownCheckouts : \A c \in page :
          CommissionsPage(page)[c] = {} <=> Settleable(c)
    /\ \A c \in KnownCheckouts :
          OrderPageBlockers(c) = {} /\ ~InSettlement(c) /\ ~DuplicateAlive(c)
             <=> Settleable(c)
    /\ \A i \in openIssues : \E row \in IssuesPage :
          /\ row.issue = i
          /\ row.revision = checkout[i.checkout].revision
          /\ i.snapshot = checkout[i.checkout].snapshot
=============================================================================
