# BuyBack backend: TLA+ models, checks and proofs

The backend pays users cashback on orders they place through affiliate links.
It is a NestJS application over PostgreSQL (Prisma). AddLiveTag, an affiliate
network, reports the orders; admins review and settle them; users withdraw the
money to bank accounts that admins approved. These modules model the parts of it
that decide about money and about who may act for an account, as transactions
over tables.

## Inventory

| part | state it keeps | operations | what makes it correct |
|---|---|---|---|
| wallet (`finance/wallet.service.ts`) | `wallets`, `wallet_transactions` | `post` | balances equal the sum of the ledger; a key moves money once |
| withdrawals (`withdrawal.service.ts`) | `withdrawals`, status history | `create`, `transition`, `adjust` | a reserve is backed, released once; histories are legal paths |
| banks (`bank.service.ts`) | `user_banks` | `save`, `remove`, `review` | money goes to an approved account; edits are chains |
| policy (`finance-admin.controller.ts`) | `affiliate_policy` | `updatePolicy` | past promises keep their rate |
| engine (`reconciliation/addlivetag-engine.ts`) | checkouts, commissions, cashbacks, issues | `publish`, `review` | states, issues, cashbacks and ledger agree |
| settlements (`settlement.service.ts`) | batches and items | `create`, `confirm`, `cancel` | paid once, in full, as drafted, for proven commissions |
| credential (`credential.service.ts`) | one row per provider | `rotate`, `verify`, `mark`, `read` | only a reached account is trusted |
| runs (`reconciliation.service.ts`) | batches, pages, leases | `enqueue`, `work`, `run` | at most one publication, in order; every batch ends |
| money (`finance/domain/money.ts`) | none | `allocateNet`, `splitCashback` | no dong is lost or invented |
| sessions (`auth/services/auth.service.ts`) | `auth_sessions`, `users` | `login`, `loginWithClerk`, `refresh`, `logout`, `validateAccessClaims` | a refresh token works once; an ended session stays ended |
| registration (`registration.service.ts`) | `registration_challenges` | `start`, `resend`, `verify` | limits hold under concurrency; an account is made whole, by the standing code |
| password reset (`password-reset.service.ts`) | `password_reset_challenges` | `start`, `confirm` | one reset, of the account that has the address; its sessions end |
| users (`users/`) | `users` | `create`, `update`, `delete` | a disabled or deleted user is let in no more |
| notifications (`notifications/`) | `notifications`, `notification_sends` | `notify`, `notifyAdmins`, `read`, `readAll`, `send` | one notification per event key and user; read stays read |
| push (`infrastructure/firebase/`) | `device_tokens` | `sendToUsers`, `sendToAllUsers` | invalid tokens go, the others stay |
| transactions (`finance/finance.repository.ts`) | none | `transaction` | a body that ran before leaves nothing behind |
| affiliate links (`affiliate/`) | `affiliate_links_history` | `generateAffiliate`, `create`, `update`, `delete` | an address that was handed out keeps earning for its user |
| products (`product/`) | `products` | `create`, `update`, `delete`, `upsertFromProvider` | one row per item; a product with links stays |
| report downloads (`reconciliation.service.ts`, `addlivetag.client.ts`) | pages of a batch | `enqueueRange`, the page loop of `run`, `report` | a range is complete and nothing in it is taken twice |
| read models and health (`finance/finance-query.service.ts`) | none | `list`, `order`, `withdrawal`, `dashboard`, `health` | the pages agree with each other and with the books |
| throttling, crypto, configuration, logging | none | | see *Not modelled* |

How they interact: `ReconciliationService.run` calls `AddLiveTagEngine.publish`
in its last transaction; publish, `SettlementService.confirm` and
`WithdrawalService` call `WalletService.post` in their own; settlements read the
credential, the checkouts and the issues that runs and reviews write; publish
reads the links. Everything goes through `FinanceRepository.transaction`
(Serializable, up to three retries), so what interleaves is committed
transactions, except in `work` and `run`, which make many between which anything
can happen. The services of `auth/` use single statements and plain transactions
instead, each conditional on what an earlier statement read: a request is a chain
of awaits, and the chains interleave. The services of `affiliate/` and `product/` open no transaction at all.
Hard are: drafts that grow stale, replays under an idempotency key,
one order reported by two accounts, rounding, leases that expire under a working
instance, crashes, rotation of the account in the middle of a run, a reversal that meets
an open withdrawal, a report that changes while it is downloaded page by page, a body that
a conflict starts over after its pushes have left, and requests that act on a
code, a session, an address, a link or a product that has been replaced or removed since
they read it.
`PROJECT.json` lists each hazard at its line with the properties that cover it.

## Modelling conventions

* A transaction that commits is one action; a request that throws changes
  nothing and is a disabled action. Fields that only format, log, notify or mail
  are left out.
* Values nothing computes with are model values. A reported checkout is a
  *snapshot* (items with code, payment label, amount and affiliate name; the
  link; the issues of fields nothing else reads) and stands for its own
  `sourceHash`. `label` is what `commissionPaymentState` makes of the text.
* In the modules of `auth/` a request is a row of `request` that says between which
  two awaits it is and what it holds in its locals; it may vanish at any await
  (`RequestEnds`, `RequestLost`: mail that fails, a client or an instance that goes).
  Hashes stand for what was hashed. Times are phases of a row.
* Amounts are integers. The code uses `bigint`, so nothing overflows.
* Names keep those of the code: `requireFunds` is `HasFunds`, the blockers of
  `settlement-eligibility.ts` are `Payable` and `Eligible`, and so on; the map in
  `PROJECT.json` gives the lines of every definition.

## Modules

* `Wallet`: wallets, ledger and `Post`/`PostAll`, conjoined by the callers with
  their own updates. `Post` has the replay branch; `PostAll` is several posts of
  one transaction.
* `Withdrawal` extends it with withdrawals, banks and the minimum. A withdrawal is
  named by `<<user, idempotency key>>`, which is unique in the table. A bank id
  stands for its payment details, which `save` writes once. Legacy rows without
  ciphertext exist from the start, as the migration left them.
* `Finance` puts `Settlement` and `Withdrawal` on one wallet and one ledger: the order of
  a user is paid, withdrawn and cancelled in any order. `Account` is what all of it
  promises, with nothing but free money, entries that change it, and claims that take
  free money, hold it and are paid or returned once; `ImplementsAccount` is the
  refinement (free money is the available balance, a claim is a withdrawal, an entry is
  a row of a settlement, a reversal or an adjustment).
* `Pages` extends it with the pages of `FinanceQueryService`, one operator per query, as
  each joins its tables. The list and the number of orders are per checkout there; the code
  lists and counts `provider_orders`, of which a checkout has one for each `order_sn` it was
  reported with, so its number of orders may be larger. Those rows are left out; the sums of
  money are over commissions and cashbacks, of which a checkout has one, in both. `Eligibility` does the same for `settlement-eligibility.ts`, which
  the pages use, and the stored conversion state, over `Settlement`.
* `Download` is the range as a report: `splitDateRange`, the page loop with its refusals, the
  attempts for a page and the retries, against a provider whose orders move, appear and
  vanish between two requests. A batch that FAILED stays FAILED, whatever becomes of its
  retry, and so may be retried again: `enqueueSingle` gives back the batch of the same days
  that waits or runs, or makes another (`EnqueueSingle`). A batch that was published and is
  marked FAILED later (`FailsLate`, the finding `reconciliation_race`) may be retried, too.
  `accepted` is a history: the reports that were published, each with what was there when
  its download began.
* `Catalog` is products and links. No service there opens a transaction, so a
  call is cut at its awaits and holds what it read. `issued` is a history: the sub ids in
  the address that a user was given.
* `Notification` is notifications, announcements, device tokens and pushes, with the retry
  loop of `FinanceRepository.transaction` around them.
* `Money` holds the arithmetic; `Allocation` is the loop of `allocateNet`,
  compared with the closed form that `Money` states and `Settlement` uses.
* `Commission` extends `Wallet`: `Publish`, `Exclude`/`Approve` (the two branches of
  `review`), the credential, the rate, deletion of links. A checkout is
  `<<account, order>>`. `Publish` is guarded by `credential.verified` because a run
  marks the version ACTIVE before it publishes under it; `Reconciliation` shows that
  (`PublishesVerified`), so `ACCOUNT_UNIT_UNVERIFIED` cannot arise.
* `Settlement` extends `Commission` with drafts, confirmation and cancellation.
  `commissionIds` are sorted by a random id, so which commission takes the
  remainder is a choice.
* `Reconciliation` has the finer grain: `Place` is between which two statements of
  `work` and `run` an instance is. `seen` is the status read before the lease is
  taken; `since` is a history of how much had been published for the account when
  the download began. A lease is live until `LeaseExpires`; renewal is therefore
  the check `Holds`.
* `Challenge` has what the two kinds of challenge rows share, as operators on a row:
  which may be resent (`MayResend`), tried (`MayTry`), and what the conditional
  updates of a failed try (`Failed`) and of a claim (`Claimable`) do to the row the
  table holds by then. `consumedAt` is set and the row deleted in one transaction,
  so nobody reads it set.
* `Registration` is registration for one address (rows of different addresses never
  meet): `start`, `resend`, `verify`, the cleanup, and accounts that appear or leave
  the address by other services. `stored` and `failures` are histories.
* `Session` is users and sessions. A refresh token is its number in the order of
  issue, `issued` remembers which it replaced, and the hash in a session row is the
  number it accepts. `era` is a history: the resets of the user when the session was
  stored. An access token names its user and session for good, so holding one is
  knowing the session; `Admit` is one of the two concurrent reads of
  `validateAccessClaims`. `UsersHandler` is what admins do to accounts meanwhile.
* `PasswordReset` extends `Session` with `start` and `confirm`: the two meet in the
  users and sessions tables, and requests of both kinds are in flight together.
* `MCWithdrawal`, `MCSettlement`, `MCEligibility`, `MCFinance`, `MCRegistration`,
  `MCPasswordReset` give instances and symmetry sets. `MCParts` puts `Allocation`, `Download`,
  `Catalog` and `Notification` side by side: a behaviour is one of any of them.
* `WithdrawalProofs`, `SettlementProofs`, `FinanceProofs`, `RegistrationProofs`,
  `PasswordResetProofs`, `ReconciliationProofs` and `PartsProofs` (of `Catalog`,
  `Notification`, `Allocation` and `Download`) hold the proofs, `Sums` the lemmas about
  sums that those of the money need.

## Runs

| run | instance | shows |
|---|---|---|
| `withdrawal` | 2 users x 2 keys, 3 banks (one legacy), amounts 1 and 3, adjustments -2 and 3, minimum 1 or 2 | types, `ReservedBacked`, `LedgerTellsWithdrawal`, `PaidToApprovedBank`, `BankEditsLinear`, `HistoryIsPath`, `DebtOnlyByAdjustment` |
| `settlement_orders` | 1 account x 2 orders, 2 settlements, 5 snapshots, 2 revisions | types, `ValidatedIsProven`, `SettledInFull`, `TermsKept` |
| `settlement_providers` | 2 accounts x 1 order, 2 settlements, 4 snapshots, 3 revisions | `LedgerTellsCommission`, `OneProviderPaid`, `ReviewHasIssue`, `PaysWhatWasDrafted`, `ShownAsSettled` |
| `finance` | 1 order, 3 snapshots, 3 revisions, 1 settlement, 2 users, 2 requests of 1 or 2, 1 bank, 1 adjustment of -3 or 2 | `BooksAgree`, `ProcessingIsEarned`, `ImplementsAccount`, `PagesAgree` |
| `parts` | lists of up to 4 weights and 7 totals; 5 orders on 3 days, 2 to a page, 2 changes; 2 users, 1 product, 2 links, 2 calls; 2 requests of 5, 2 accounts, 1 device | `DividesFairly`, `OrdersTakenOnce`, `AttributionStands`, `AnnouncedOnce`, `ReadStaysRead` |
| `product_deletion` | 1 product, 1 link, 2 calls | the violation of `IssuedLinksKept` |
| `reconciliation` | 2 instances, 2 accounts, 2 batches, 2 pages, 2 versions, 1 crash | types, `PublishedInDownloadOrder`, `PublishedAtMostOnce`, `VerifiedWasReached`, `PublishesVerified` |
| `reconciliation_progress` | 2 instances, 1 account, 2 batches, 2 pages, 1 crash | `RunsFinish` |
| `reconciliation_race` | 2 instances, 1 batch, no crash | the violation of `FailedPublishedNothing` |
| `registration` | 3 requests, 2 codes, 2 profiles, 2 sends, 2 tries, 2 codes stored | types, `FailuresCounted`, `CreatedByStandingCode`, `VerifyAllOrNothing` |
| `sessions` | 1 user, 2 sessions, 2 requests, 3 tokens, 1 code stored | `RotationIsALine`, `ResetEndsSessions`, `EndedForGood` |
| `password_reset` | 2 users, 2 addresses, 2 requests, 2 codes, 1 send, 1 try, 2 codes stored | types, `ResetOnlyByStandingCode` |

Why the bounds are enough. Amounts 1 and 3 and adjustments -2 and 3 let a balance
cover one request and not two, and let an adjustment put the owner of an open
withdrawal in debt. Three banks make a chain of two edits or an edit beside an
unsealed row. The snapshots are one for each branch of publish and review: paid,
pending, cancelled, without a link, partly cancelled. `MaxRevision` bounds how
often one checkout changes (`Publish` and `CloseReview` are guarded by it): two are
enough for report, review and settlement; three for those and a second report of
the same order after its settlement, which the cancellation of a paid order and
the rivalry of two providers need. The settlement runs share those questions
because both dimensions at once are out of reach of TLC; the theorems cover their
product. Amounts 7 and 4 with rate 8000 and a deduction of 1 do not divide evenly.
In `reconciliation` two batches and two instances are enough for one worker to be
overtaken by another and for a batch to be picked by both; two pages put a
statement between downloads; two versions are one rotation. `MaxRuns` and
`MaxVersion` exhaust, so deadlock is not checked there (the system really would go on
with new batches), nor in `parts`, whose divisions end. In the other runs it is checked.

In `finance` one order of 4 at half the rate is credited 2, two requests of 1 or of 2 take
it or ask for more than there is, and the adjustment of -3 makes a debt while both are open; the
three revisions are report, payment and cancellation. What interleaves there is the
two halves, so one order and one bank do; the halves have runs of their own. In `parts` days 1
and 2 are one report of two pages and day 3 another: two changes put an order on a page that was
read and take one from a page that was not, which is what the totals have to notice. The limits
`MaxDays` 2, `PageSize` 2, `MaxPages` 3 and `Attempts` 2 stand for 90, 50, 10000 and 4;
`MaxChanges` is not in the code; retries are without bound, for what they leave is a set. Two orders
of the first report with different commissions begin the list, the others follow in any order.
`Limit` is the 99 dong of the code, and three of the orders have the same commission, so that a sum
does not tell them apart.
Two calls are a generation
beside an update, a deletion beside a generation; two links are one that was handed out and one
that an admin types the same sub ids into. Two requests for one announcement are a repetition,
and a key that is used for another recipient; `Retries` is the 3 of the code.

In `registration` three requests are the two that invalidate and the one that is
invalidated (a resend and a second verify, two failed tries beside a third). The limits
`MAX_SENDS` 4 and `MAX_ATTEMPTS` 5 become 2: the counters are compared and incremented,
so what happens at a limit happens at 2. `MaxStores` bounds the codes stored and
`MaxTokens` the refresh tokens issued; neither is in the code. Three tokens in two
sessions are a session that is opened and rotated twice, by two requests that hold the
same token, or one beside another. The questions about sessions need one account and
no second address, those about addresses need two accounts and no session, so there
are two runs: `password_reset` has no session ids and no tokens, and one password,
which is also that of an OAuth account (`Unknown`), because nothing there depends on
which password a user has. One send is enough there: a code can be replaced after it
has expired. The theorems have neither restriction.

## Fairness

Only `RunsFinish` needs any, and only its run assumes it. `work` is called every 5 seconds and every call it makes
returns or times out, hence weak fairness of an instance's own step. A lease that is
not renewed expires after 300 seconds and a run renews it finitely often (a page
limit, four attempts of 30 seconds per page), hence weak fairness of `LeaseExpires`.
Taking the lease and marking a failed batch are database transactions that can fail
(`Throw`); that they do not fail every single time is strong fairness of these two
steps. Requests, rotation, faults and crashes are never forced.

## Findings

`reconciliation_race` (`reconciliation.service.ts:159`). `work` reads the oldest active
batch at line 125, takes the lease in the transaction at 131 and decides with the
status it read before. The busy flag orders the calls of one instance only. With
two, the second can read QUEUED, wait while the first publishes, completes and gives
the lease back, then take it and run the completed batch again. `run` sets it to
RUNNING, downloads, and throws on the stored page (unique by batch and page);
the catch excludes only FAILED batches, so the batch is FAILED with everything it
reported published. The comment at line 288 says "Failed batches never partially
credit/update." That the money stays right is what the same unique constraint
ensures: `PublishedAtMostOnce` holds.

`product_deletion` (`product.service.ts:118`). `delete` counts the links of the product and then
deletes the row, in two statements. A link that a user generates between them is saved and
goes with the product: the schema says `onDelete: Cascade` (`schema.prisma:253`). The test at
`product.service.spec.ts:194`, "prevents deleting a product referenced by affiliate
links", runs the calls one after the other. The user has the address by then; orders
through it find no link and are reviewed without a user. `AttributionStands` is what is left:
they never lead to anybody else.

Not findings, because nothing says otherwise, but worth knowing. `OrdersTakenOnce` is about each
report: the same days are published again when a FAILED batch is retried after its retry was
published, or is one that was published itself, and requests for other ranges (the hourly and the
nightly one) overlap; `publish` compares what comes again with what it has
(`ReviewHasIssue`, `LedgerTellsCommission`). A report promises nothing when an order
vanished from under the download: one that vanishes and one of the same
commission that appears meanwhile leave the total and the sum as they were, and an order on the
page that moved up is lost until the range is reported again. An announcement that is
repeated is pushed again, and the pushes of `notify` leave before the transaction
commits, for what may then fail or start over: the rows are written once, the pushes are not.

## Theorems

All are proved for every value of the constants, from the named assumptions
(`WithdrawalConstants`, `CommissionConstants`, `SettlementConstants`, `FinanceConstants`, `PagesConstants`,
`ReconciliationConstants`, `NotificationConstants`, `AllocationConstants`, `DownloadConstants`, `RegistrationConstants`, `ChallengeConstants`, `NothingIsNoRow`, `NothingIsNoSession`,
`MaxTokensNat`, `ChallengeBounds`, `MaxStoresNat`: limits are positive, the value for
"no row" is none of the rows, the key of an announcement is nobody else's, and there are
finitely many checkouts, users and migrated bank rows, which sums and counts over them need), for any sets of users, banks,
checkouts, requests, codes and sessions, and any values of the limits and of the bounds.

`Sums`: the models add up sets with the fold of the community modules, which takes the
elements in an order that a choice gives. That the order does not matter is `SumTake`: the
sum over a finite set is any element's value and the sum over the rest. Induction is out of reach of the prover, so these lemmas argue with a least set for which they
fail (`LeastPart`). `SumMoved` says what becomes of a sum when one element enters, leaves or
changes; `AmountSum` and `UserSum` give the sums of the models that form. `SumParts` and
`CountParts` divide a sum or a count by any key, as the dashboards divide by user.

`WithdrawalProofs`: type correctness (`WithdrawalTypeOK` is inductive; it includes that
reserves are naturals, which is the `INVALID_RESERVED_BALANCE` check), and from it

* `LedgerTellsWithdrawal`, inductive: a post under one key leaves the rows of all
  others alone (`PostRows`, `KeysDiffer`), and each action writes the row of the
  status it sets;
* `HistoryIsPath`, inductive: `Append` along `Allowed` extends a path;
* `PaidToApprovedBank` and `BankEditsLinear` from one strengthening, `BankInv`: a row
  that is not written yet is nobody's predecessor, and a reviewed row is never
  reviewed again;
* `DebtOnlyByAdjustment`, an action property, from the types alone;
* `ReservedBacked`, strengthened to `Backed` (only finitely many withdrawals exist, hence
  the sum is a number): a step writes one withdrawal and moves the reserve of its owner by
  what that withdrawal holds more or less (`Rereserves`), and `SumMoved` does the rest.

`SettlementProofs`: `Shaped` says only that tables are functions and rows have their
fields; `StepKinds` reduces `SettlementNext` to six steps that matter. Then

* `TermsKept`, from `Shaped`;
* `OneProviderPaid`, through `PaidSet`: only a confirmation enlarges it
  (`PaidSetStep`), by commissions without a live duplicate (`PaidSetConfirm`), and a
  paid commission is live for its duplicate;
* `ValidatedIsProven`, strengthened to `Proven` (the snapshot is a real one);
* `ReviewHasIssue`, from `IssuesCurrent` and `Waits` together: that a skipped checkout
  keeps its issues needs that open issues are about the current snapshot;
* `LedgerTellsCommission`, from `Told` per commission, with the keys' injectivity;
* `PaysWhatWasDrafted`, through `Drafted`: the revisions of a draft are never ahead of
  the checkouts', and while all agree the gross is the sum of the accepted
  amounts, because an amount changes only with a new revision (`RevisionStep`).

Two more follow from `Tables`, the types that are inductive:

* `SettlementTypeOK`. That the two parts of a cashback add up is `SplitParts`; that the parts
  of a settlement's deduction do is `AllocatedParts`, by a sum over its members. The balances are integers
  because a step posts finitely many rows (`StepPosts`, `PostedTypes`);
* `SettledInFull`, through `InFull` per batch: a confirmation pays every member its draft
  (`ConfirmedInFull`), and what is paid or confirmed is not written again except by the
  reversal (`PaidKept`, `ConfirmedKept`).

`ShownAsSettled` is about `Eligibility`, whose steps are steps of `SettlementNext`
(`EligibilityBelow`), so every invariant above holds there too. The rules are written three
times over the tables, and two more facts make them agree: a checkout has its commission once
it has a snapshot (`RowedStep`), so the joins find what `create` finds; and a VALIDATED
commission has VALIDATED in the column that only the page of the order reads (`ColumnedStep`).
That one needs `CleanSnapshot`: what the engine finds nothing wrong with and does not reject
has one code, so `Conversion` says VALIDATED.

`FinanceProofs` has one inductive invariant, `FinanceInv`: the types of both halves; `Accounts`
(every balance is the sum of its rows); `Agreed`, the two equations of `BooksAgree` as sums over
the tables; `PaidAvailable`; `Unposted` (no row of a withdrawal comes before its time); and the
`Told` of `SettlementProofs` for every checkout. `Moves` reduces every posting, of one row
(`PostNewMoves`) or of a transaction (`PostAllMoves`), to a set of new rows, and `AgreedStep` says
that the equations survive when both of their sides change alike. There is then one lemma for
each transaction: `ConfirmAgreed`, `PublishAgreed` (a publication takes back what was
available), `CreateKeeps`, `TransitionKeeps`, `AdjustKeeps`. From it

* `BooksAgree`: the equations and `LedgerBalanced`;
* `ProcessingIsEarned`: `startProcessing` finds a balance that is not negative, and by the
  equations that is what was earned and not yet asked for;
* `ImplementsAccount`: the initial state is one of `Account`, and every step maps to entries
  (`MovesEnter`), a hold (`CreateHolds`), the end of one (`TransitionEnds`), or a stutter,
  which replays and `StartProcessing` are.

`PagesAgree` is about `Pages`, which adds no variable to `Finance`, so it rests on the same
steps. Its invariant, `PagesInv`, is `FinanceInv` and what the joins of the pages go through:
a checkout has its commission once it has a snapshot (`Rowed`); a cashback is reversed with
its commission and only an order with a user has one (`Paired`); the ledger holds exactly the
rows of a withdrawal that its status says (`Fate`, also over settlements and adjustments, where
`LedgerTellsWithdrawal` is about withdrawals alone); its history leads from PENDING to its
status (`Timeline`); and finitely many bank rows exist (`Banks`). From it

* every source is found, because the order or the withdrawal of a row belongs to the user of
  the row (`RowTold`, `RowMade`, `SourceIs`);
* the cashbacks and the withdrawals of a user show what his transactions show: a page of
  transactions gives for a key what the rows of the ledger with that key give (`GivenIs`), and
  those are told by `Told` and `Fate`;
* the users' dashboards add up to the admin's by `SumParts` and `CountParts` over the users
  (`UsersAdd`, `OrdersAdd`): the orders without a user are left over in the number of orders
  only, for nothing is credited, paid or reversed for them;
* health reports balance: the sum of the ledger is the sum of its parts by user, which
  `Accounts` says the wallets are.

`RegistrationProofs` has one inductive invariant, `Inv`: the types, `SeenStands` (a
request that read the last code stored holds the code and the profile that the row
has now) and `FailuresCounted`. From it

* `RegistrationTypeOK`, which includes `attempts \in 0..MaxAttempts`: a failed try
  increments under the condition that is compared in the same statement;
* `FailuresCounted`: a try is counted in `failures` only if the code it read is the
  last one stored; by `SeenStands` the row is then `Current`, so `Failed` increments
  it or it is at its limit;
* `CreatedByStandingCode`: a claim finds the code it read, before the limit, hence
  `failures < MaxAttempts`, and `SeenStands` gives the profile;
* `VerifyAllOrNothing`: only `VerifyClaim` creates, with both halves in one step.

`PasswordResetProofs`: `Shaped` as above, with what requests hold in their locals;
`StepKinds` reduces the steps to opening, rotating, closing and resetting a session. Then

* `EndedForGood`, from `RowStep`: only a live row rotates;
* `ResetEndsSessions`, inductive: a reset revokes all of its user's rows in the step
  that counts it, and no step changes the `era` of a row;
* `RotationIsALine`, with `Linked` (tokens belong to sessions that exist and replace
  older ones): what `rotateSession` replaces is the end of the line (`LineGrows`);
* `ResetOnlyByStandingCode`, from `Shaped`: only `ConfirmClaim` resets;
* `PasswordResetTypeOK`, from `Shaped` and `Held` (a request holds one of the rows of its
  handler): a counter is incremented under the comparison with its limit.

`ReconciliationProofs` has one inductive invariant, `Inv`: the types, `Known` (what anybody
works on was queued, under a version that exists), `Once`, `AnswersReached` and `Ordered`.
`WorkersStepKinds` sorts the steps by what they do: they advance one instance, store a page,
publish, or leave the pages and the publications alone. From it

* `PublishedAtMostOnce`, through `Once`: two instances may work on one batch, but a page is
  stored once, so only one of them is ever ahead (`Alone`), with as many pages as it
  stored (`PagesStored`), and what is published has all of them (`Unpublished`);
* `PublishedInDownloadOrder`, through `SinceHolds`: while an instance holds the lease of its
  account, nobody publishes for it;
* `VerifiedWasReached` and `PublishesVerified`, through `AnswersReached`: between the answer
  and the publication the version can only be left behind.

`PartsProofs`, for notifications: `ReadStaysRead` from the rows alone (`InsertedKeeps`), and
`AnnouncedOnce` from `NoticeInv`: types and `Made`, which says what holds of an announcement
before and after it is made and what the requests for it know; a commit makes it for all of
its recipients because nobody has it before (`CommitHas`). For links: `AttributionStands` from
`LinkInv`, which is `Intact` (a link that was handed out has its row as it was made), `OneName` (no two rows have sub ids that name the same link, and a name is the
row's own or was handed out) and `Pending`: a request that found a link without sub ids finds
it so when it writes, because only a new link is ever handed out.

For `allocateNet`: `DividesFairly` from `AllocationInv`, which says what each step has handed out
and what is left. The last part is the remainder, so its bound is about everybody else's: each of
the others is short of its exact share by less than a dong (`ShortOfK` adds them up), hence the
last has too much by less than a dong for each of them. `Sum` is a fold without an order;
`SumFirst` takes the parts in the order of the loop.

For downloads: `OrdersTakenOnce` from `DownloadInv`. `ChunksOK` says that the reports, wherever
they are, split the days of the range that were passed, so that two with a common order are of the
same days; no retry changes the split (`EnqueueSingleKeeps`). `ReportOK` says what is held of the
one under way, `AcceptedOK` of those that were published. A report is accepted when as
many different checkouts arrived as the provider counts *then*, all of them from its days. Orders move and appear between
pages, so the pages may overlap and miss; but unless one vanished, what was there when it began is
among what is listed at the end, whose number was the same on every page (`AcceptedIsComplete`).
That `Complete` counts checkouts is what makes this true; distinctness of a page is `ListedOnce`.

Only model-checked is `RunsFinish`, which is liveness and out of reach of the prover, as
`ENABLED` is.

## Not modelled

E-mails and audit rows; the rows of single orders (`provider_orders`, several per checkout, which
the pages list and count) and items that only pages read; that the
transactions of the money may start over (each is one step in its module; the loop is
in `Notification`); `paymentDetails` (reads and decrypts); encryption; the text checks of the
input schemas; decoding of reports and the size limits of one response, which are reasons to
refuse it; whether Google vouches for an address (it does, in `FederatedRead`), the
expiry of access tokens, and roles, which are read afresh with the user at every request; names
and phone numbers of users; the Shopee cookie, which is replaced as a whole and read by nobody; names, prices
and rates of products; search, sorting and paging of lists, and the lists of links, batches,
settlements and audit logs; configuration, filters, logging, throttling and the endpoints
around them: wiring and I/O that keep no state, or a library that does.

Two behaviours of `auth/` are in the models and in nobody's promise. A login reads the
password before a reset commits and stores its session after: that session is live
(`ResetEndsSessions` counts a session from when it is stored). An `update` of a user
that carries a status and found the user before a `delete` brings the user back.
Checkouts of other providers than AddLiveTag accounts are rejected by
`providerSettlementBlockers` and do not occur.

## Plan

Every safety property of a passing run is proved; what is left to prove is a refinement of the
kind of `Account` for the parts that have none, reconciliation first: a queue that publishes
each of its batches once. What is left to model keeps little state: the lists that pages search and sort, and the Shopee
cookie, which nothing in the repository reads yet.
