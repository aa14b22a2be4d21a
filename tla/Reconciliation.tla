--------------------------- MODULE Reconciliation ---------------------------
(***************************************************************************)
(* ReconciliationService: batches are queued, and every instance of the    *)
(* backend has a worker that picks the oldest active one, takes the        *)
(* account's lease, downloads the report page by page and publishes it in  *)
(* one transaction.  Instances interleave between any two database         *)
(* statements, may crash, and may lose the lease while they work; the      *)
(* credential may be rotated meanwhile.                                    *)
(*                                                                         *)
(* What publish does to commissions is modelled in Commission.  Time is    *)
(* abstracted: a lease is live until it expires.  renew does nothing to a  *)
(* live lease of its owner and fails otherwise.                            *)
(***************************************************************************)
EXTENDS Integers, SequencesExt

CONSTANTS
    Worker,         \* instances of the backend
    Account,        \* provider accounts
    Dates,          \* date ranges that are asked for
    FirstAccount,   \* the account configured first
    Pages,          \* pages of a report
    MaxRuns,        \* bound: batches ever queued
    MaxVersion,     \* bound: versions of the credential
    MaxCrashes,     \* bound: crashes of instances
    Nobody          \* no owner

ASSUME ReconciliationConstants ==
    /\ FirstAccount \in Account
    /\ Pages \in Nat \ {0} /\ MaxRuns \in Nat \ {0}
    /\ MaxVersion \in Nat \ {0} /\ MaxCrashes \in Nat
    /\ Nobody \notin Worker

VARIABLES
    credentials,    \* the account of every version of the credential so far
    verified,       \* verifiedAt is set for the current version
    run,            \* run[r]: the reconciliation batch r
    stored,         \* stored[r]: how many pages of r are in the database
    lease,          \* lease[a]: the job lease of account a
    worker,         \* worker[w]: where the instance is and its local variables
    published,      \* history: the publications, in order
    reached,        \* history: the versions the provider answered to
    crashes

reconciliationVars == <<credentials, verified, run, stored, lease, worker,
                        published, reached, crashes>>

Run     == 1..MaxRuns
Version == 1..MaxVersion
Active  == {"QUEUED", "RUNNING"}

\* Where a worker is: between which two statements of work and run.
Place == {"idle", "picked", "leased", "started", "requesting", "waiting",
          "answered", "marked", "ready", "failing", "releasing"}

RunRow == [status : Active \cup {"none", "COMPLETED", "FAILED"},
           version : Version, range : Dates]

\* since: publications for the account when the download began.
Local == [at : Place, run : Run, seen : Active, version : Version,
          page : 1..Pages, since : Nat]

Idle == [at |-> "idle", run |-> 1, seen |-> "QUEUED", version |-> 1,
         page |-> 1, since |-> 0]

\* An owner that crashed is Nobody: a restarted instance has a new id.
Free == [owner |-> Nobody, live |-> FALSE]

Current == Len(credentials)
AccountOf(r) == credentials[run[r].version]

ReconciliationTypeOK ==
    /\ credentials \in Seq(Account) /\ Current \in Version
    /\ verified \in BOOLEAN
    /\ run \in [Run -> RunRow]
    /\ stored \in [Run -> 0..Pages]
    /\ lease \in [Account -> [owner : Worker \cup {Nobody}, live : BOOLEAN]]
    /\ worker \in [Worker -> Local]
    /\ published \in Seq([run : Run, since : Nat])
    /\ reached \subseteq Version
    /\ crashes \in 0..MaxCrashes

ReconciliationInit ==
    /\ credentials = <<FirstAccount>>
    /\ verified = FALSE
    /\ \E range \in Dates :
          run = [r \in Run |-> [status |-> "none", version |-> 1, range |-> range]]
    /\ stored = [r \in Run |-> 0]
    /\ lease = [a \in Account |-> Free]
    /\ worker = [w \in Worker |-> Idle]
    /\ published = <<>>
    /\ reached = {}
    /\ crashes = 0

-----------------------------------------------------------------------------
\* enqueueSingle (and retry, hourly and nightly through it).  The credential
\* is read before the transaction, so its version v may be an old one.
Enqueue(range, v) ==
    LET new == Min({r \in Run : run[r].status = "none"}) IN
    /\ v <= Current
    /\ \E r \in Run : run[r].status = "none"
    /\ \A r \in Run : run[r].status \in Active =>
          run[r].range # range \/ AccountOf(r) # credentials[v]
    /\ run' = [run EXCEPT ![new] =
          [status |-> "QUEUED", version |-> v, range |-> range]]
    /\ UNCHANGED <<credentials, verified, stored, lease, worker, published,
                   reached, crashes>>

\* CredentialService.rotate
Rotate(account) ==
    /\ Current < MaxVersion
    /\ credentials' = Append(credentials, account)
    /\ verified' = FALSE
    /\ UNCHANGED <<run, stored, lease, worker, published, reached, crashes>>

-----------------------------------------------------------------------------
\* work
At(w, place) == worker[w].at = place
RunOf(w) == worker[w].run
Go(w, place) == worker' = [worker EXCEPT ![w].at = place]

\* run is over: only the lease is left to give back.
Leave(w, place) ==
    worker' = [worker EXCEPT ![w] = [Idle EXCEPT !.at = place, !.run = RunOf(w)]]

LeaseOf(w) == lease[AccountOf(RunOf(w))]

\* renew succeeds, and so does the check in the publishing transaction.
Holds(w) == LeaseOf(w).owner = w /\ LeaseOf(w).live

SetStatus(r, status) == run' = [run EXCEPT ![r].status = status]

\* The oldest active batch, read before the lease is taken.
Pick(w) ==
    LET active == {r \in Run : run[r].status \in Active} IN
    /\ At(w, "idle")
    /\ active # {}
    /\ worker' = [worker EXCEPT ![w] =
          [Idle EXCEPT !.at = "picked", !.run = Min(active),
                       !.seen = run[Min(active)].status]]
    /\ UNCHANGED <<credentials, verified, run, stored, lease, published,
                   reached, crashes>>

FindLeaseTaken(w) ==
    /\ At(w, "picked") /\ LeaseOf(w).live
    /\ worker' = [worker EXCEPT ![w] = Idle]
    /\ UNCHANGED <<credentials, verified, run, stored, lease, published,
                   reached, crashes>>

\* Mutant of Abandoned: nobody cleans up after a crash.
AbandonedByNobody(account) == {}

\* Whoever takes the lease fails the batches its last owner left RUNNING.
Abandoned(account) ==
    {r \in Run : run[r].status = "RUNNING" /\ AccountOf(r) = account}

TakeLease(w) ==
    LET account == AccountOf(RunOf(w)) IN
    /\ At(w, "picked") /\ ~lease[account].live
    /\ lease' = [lease EXCEPT ![account] = [owner |-> w, live |-> TRUE]]
    /\ run' = [r \in Run |-> IF r \in Abandoned(account)
                             THEN [run[r] EXCEPT !.status = "FAILED"] ELSE run[r]]
    /\ IF worker[w].seen = "QUEUED" THEN Go(w, "leased") ELSE Leave(w, "releasing")
    /\ UNCHANGED <<credentials, verified, stored, published, reached, crashes>>

Release(w) ==
    /\ At(w, "releasing")
    /\ lease' = IF LeaseOf(w).owner = w
                THEN [lease EXCEPT ![AccountOf(RunOf(w))] = Free] ELSE lease
    /\ worker' = [worker EXCEPT ![w] = Idle]
    /\ UNCHANGED <<credentials, verified, run, stored, published, reached, crashes>>

\* The deletion of the lease fails; it will expire.
ReleaseFails(w) ==
    /\ At(w, "releasing")
    /\ worker' = [worker EXCEPT ![w] = Idle]
    /\ UNCHANGED <<credentials, verified, run, stored, lease, published,
                   reached, crashes>>

-----------------------------------------------------------------------------
\* run
ReadCredential(w) ==
    /\ At(w, "leased")
    /\ worker' = [worker EXCEPT ![w].at = "started", ![w].version = Current]
    /\ UNCHANGED <<credentials, verified, run, stored, lease, published,
                   reached, crashes>>

StartRun(w) ==
    /\ At(w, "started")
    /\ IF run[RunOf(w)].version = worker[w].version
       THEN SetStatus(RunOf(w), "RUNNING") /\ Go(w, "requesting")
       ELSE Leave(w, "failing") /\ UNCHANGED run
    /\ UNCHANGED <<credentials, verified, stored, lease, published, reached, crashes>>

PublishedFor(account) ==
    Cardinality({i \in DOMAIN published : AccountOf(published[i].run) = account})

Request(w) ==
    /\ At(w, "requesting")
    /\ IF Holds(w)
       THEN worker' = [worker EXCEPT
               ![w].at = "waiting",
               ![w].since = IF worker[w].page = 1
                            THEN PublishedFor(AccountOf(RunOf(w))) ELSE @]
       ELSE Leave(w, "failing")
    /\ UNCHANGED <<credentials, verified, run, stored, lease, published,
                   reached, crashes>>

Receive(w) ==
    /\ At(w, "waiting")
    /\ reached' = reached \cup {worker[w].version}
    /\ IF Holds(w) THEN Go(w, "answered") ELSE Leave(w, "failing")
    /\ UNCHANGED <<credentials, verified, run, stored, lease, published, crashes>>

\* Mutant of MarkActive: the version is not compared.
MarkAnyActive(w) ==
    /\ At(w, "answered")
    /\ verified' = TRUE
    /\ Go(w, "marked")
    /\ UNCHANGED <<credentials, run, stored, lease, published, reached, crashes>>

\* CredentialService.mark
MarkActive(w) ==
    /\ At(w, "answered")
    /\ verified' = (verified \/ worker[w].version = Current)
    /\ Go(w, "marked")
    /\ UNCHANGED <<credentials, run, stored, lease, published, reached, crashes>>

\* Mutant of NextPage: one page too many.
NextPageOneMore(w) ==
    worker' = IF worker[w].page > Pages
              THEN [worker EXCEPT ![w].at = "ready"]
              ELSE [worker EXCEPT ![w].at = "requesting", ![w].page = @ + 1]

NextPage(w) ==
    worker' = IF worker[w].page = Pages
              THEN [worker EXCEPT ![w].at = "ready"]
              ELSE [worker EXCEPT ![w].at = "requesting", ![w].page = @ + 1]

\* Mutant of StorePage: a page that is there already is replaced.
OverwritePage(w) ==
    /\ At(w, "marked")
    /\ stored' = [stored EXCEPT ![RunOf(w)] = worker[w].page]
    /\ NextPage(w)
    /\ UNCHANGED <<credentials, verified, run, lease, published, reached, crashes>>

\* Pages are unique by batch and number.
StorePage(w) ==
    /\ At(w, "marked")
    /\ IF stored[RunOf(w)] < worker[w].page
       THEN /\ stored' = [stored EXCEPT ![RunOf(w)] = worker[w].page]
            /\ NextPage(w)
       ELSE Leave(w, "failing") /\ UNCHANGED stored
    /\ UNCHANGED <<credentials, verified, run, lease, published, reached, crashes>>

\* Mutant of MayPublish: the owner of the lease is not checked again.
MayPublishUnleased(w) == worker[w].version = Current

\* Mutant of MayPublish: the version is not compared again.
MayPublishStale(w) == Holds(w)

MayPublish(w) == Holds(w) /\ worker[w].version = Current

\* One transaction: the commissions of the whole report and COMPLETED.
PublishRun(w) ==
    /\ At(w, "ready")
    /\ IF MayPublish(w)
       THEN /\ published' = Append(published, [run |-> RunOf(w), since |-> worker[w].since])
            /\ SetStatus(RunOf(w), "COMPLETED")
            /\ Leave(w, "releasing")
       ELSE Leave(w, "failing") /\ UNCHANGED <<published, run>>
    /\ UNCHANGED <<credentials, verified, stored, lease, reached, crashes>>

\* The provider, a check of its report or the database throws: before there is
\* a lease the worker gives up, in the run the batch fails, and in the catch of
\* the run the batch stays as it is.
Throw(w) ==
    /\ \/ At(w, "picked") /\ worker' = [worker EXCEPT ![w] = Idle]
       \/ worker[w].at \in {"leased", "started", "requesting", "waiting", "answered",
                            "marked", "ready"} /\ Leave(w, "failing")
       \/ At(w, "failing") /\ Leave(w, "releasing")
    /\ UNCHANGED <<credentials, verified, run, stored, lease, published,
                   reached, crashes>>

\* The catch of run: FAILED unless it is FAILED already.
MarkFailed(w) ==
    /\ At(w, "failing")
    /\ SetStatus(RunOf(w), "FAILED")
    /\ Leave(w, "releasing")
    /\ UNCHANGED <<credentials, verified, stored, lease, published, reached, crashes>>

-----------------------------------------------------------------------------
Crash(w) ==
    /\ ~At(w, "idle") /\ crashes < MaxCrashes
    /\ worker' = [worker EXCEPT ![w] = Idle]
    /\ lease' = [a \in Account |-> IF lease[a].owner = w
                                   THEN [lease[a] EXCEPT !.owner = Nobody] ELSE lease[a]]
    /\ crashes' = crashes + 1
    /\ UNCHANGED <<credentials, verified, run, stored, published, reached>>

\* 300 seconds without a renewal.
LeaseExpires(account) ==
    /\ lease[account].live
    /\ lease' = [lease EXCEPT ![account].live = FALSE]
    /\ UNCHANGED <<credentials, verified, run, stored, worker, published,
                   reached, crashes>>

\* What an instance does next when nothing goes wrong around it.
Work(w) ==
    \/ Pick(w) \/ FindLeaseTaken(w) \/ TakeLease(w)
    \/ ReadCredential(w) \/ StartRun(w)
    \/ Request(w) \/ Receive(w) \/ MarkActive(w) \/ StorePage(w)
    \/ PublishRun(w) \/ MarkFailed(w) \/ Release(w)

ReconciliationNext ==
    \/ \E range \in Dates, v \in Version : Enqueue(range, v)
    \/ \E account \in Account : Rotate(account)
    \/ \E w \in Worker : Work(w) \/ Throw(w) \/ ReleaseFails(w) \/ Crash(w)
    \/ \E account \in Account : LeaseExpires(account)

ReconciliationSpec ==
    ReconciliationInit /\ [][ReconciliationNext]_reconciliationVars

(***************************************************************************)
(* work is called every five seconds and every call it makes returns or    *)
(* times out; a lease that is not renewed expires, and a run renews its    *)
(* lease finitely often.  Nothing forces a request, a fault or a crash; but *)
(* the two transactions that a batch depends on, taking the lease and      *)
(* marking a failed batch, do not fail every time they are tried.          *)
(***************************************************************************)
ReconciliationFairSpec ==
    /\ ReconciliationSpec
    /\ \A w \in Worker : /\ WF_reconciliationVars(Work(w))
                         /\ SF_reconciliationVars(TakeLease(w))
                         /\ SF_reconciliationVars(MarkFailed(w))
    /\ \A account \in Account : WF_reconciliationVars(LeaseExpires(account))

-----------------------------------------------------------------------------
\* Reports are published in the order in which they were downloaded: none
\* overwrites what was published for its account after its download began, even
\* when its worker lost the lease and another one took over.
PublishedInDownloadOrder ==
    \A i \in DOMAIN published :
        published[i].since =
            Cardinality({j \in 1..(i - 1) :
                AccountOf(published[j].run) = AccountOf(published[i].run)})

\* A batch is published at most once, however often it is picked.
PublishedAtMostOnce == IsInjective([i \in DOMAIN published |-> published[i].run])

\* The account that settlements trust (verifiedAt) is one the provider has
\* answered for under this version: no run vouches for a rotated account.
VerifiedWasReached == verified => Current \in reached

\* When a run publishes under the current version the account is verified, so
\* publish never meets ACCOUNT_UNIT_UNVERIFIED.
PublishesVerified ==
    \A w \in Worker : At(w, "ready") /\ MayPublish(w) => verified

\* Every queued batch is completed or failed in the end, whatever crashes and
\* expired leases come in between.
RunsFinish ==
    \A r \in Run : run[r].status \in Active ~> run[r].status \in {"COMPLETED", "FAILED"}

\* "Failed batches never partially credit/update": what a FAILED batch reported
\* has not been published.
FailedPublishedNothing ==
    \A i \in DOMAIN published : run[published[i].run].status # "FAILED"
=============================================================================
