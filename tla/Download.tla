------------------------------ MODULE Download ------------------------------
(***************************************************************************)
(* How a range of days becomes reports and a report becomes rows: the loop *)
(* of splitDateRange in enqueueRange, the page loop of                     *)
(* ReconciliationService.run, the attempts of AddLiveTagClient.report and  *)
(* the retries of failed batches.  Whose turn it is, leases and what is    *)
(* stored are in Reconciliation.                                           *)
(*                                                                         *)
(* One range is asked for; a batch that FAILED stays so, so that its days  *)
(* may be retried whenever none of their batches waits or runs, also after *)
(* a retry was accepted.                                                   *)
(*                                                                         *)
(* The provider lists checkouts, PageSize to a page; a checkout stands for *)
(* all of its rows.  Between any two requests orders may move, appear and  *)
(* vanish.                                                                 *)
(***************************************************************************)
EXTENDS Integers, SequencesExt

CONSTANTS
    Checkout,
    Day,            \* Day[o]: when o was purchased
    Amount,         \* Amount[o]: its commission
    FirstDay, LastDay,  \* the range that was asked for
    MaxDays,        \* days of a report (90)
    PageSize,       \* checkouts of a page (50)
    MaxPages,       \* pages that are asked for (10000)
    Attempts,       \* attempts for a page (4)
    Limit,          \* MAX_SUMMARY_DIFFERENCE_VND
    MaxChanges      \* bound: changes at the provider

ASSUME DownloadConstants ==
    /\ Day \in [Checkout -> Nat] /\ Amount \in [Checkout -> Nat]
    /\ {FirstDay, LastDay, Limit, MaxChanges} \subseteq Nat
    /\ {MaxDays, PageSize, MaxPages, Attempts} \subseteq Nat \ {0}
    /\ FirstDay <= LastDay

VARIABLES
    list,       \* the checkouts at the provider, in the order it lists them
    changes,    \* history: how often they changed
    from,       \* the first day that is not in a report yet
    queued,     \* the chunks whose batch is QUEUED
    failed,     \* the chunks that have a FAILED batch
    report,     \* the RUNNING one, what has come of it, and as history which
                \* orders of its days were there when it began (there) and
                \* whether one of its days vanished since (lost)
    accepted    \* history: the reports that were published

downloadVars == <<list, changes, from, queued, failed, report, accepted>>

Chunk == [first : FirstDay..LastDay, last : FirstDay..LastDay]

NoReport == [page |-> 0]

\* What the provider answers: the orders of a chunk as it lists them, so that
\* k of them are at or before the k-th.
Listed(chunk) ==
    LET asked == {i \in DOMAIN list : Day[list[i]] \in chunk.first..chunk.last}
    IN [k \in 1..Cardinality(asked) |->
           list[CHOOSE i \in asked : Cardinality({j \in asked : j <= i}) = k]]

Begun(chunk) == [chunk |-> chunk, page |-> 1, attempt |-> 1, rows |-> <<>>,
                 seen |-> {}, total |-> 0, summary |-> 0,
                 there |-> ToSet(Listed(chunk)), lost |-> FALSE]

Downloading == IF report = NoReport THEN {} ELSE {report.chunk}

DownloadInit(there) ==
    /\ list \in SetToSeqs(there)
    /\ changes = 0 /\ from = FirstDay
    /\ queued = <<>> /\ failed = {} /\ report = NoReport /\ accepted = {}

providerVars == <<list, changes>>

-----------------------------------------------------------------------------
\* The provider.
Change(new) ==
    /\ changes < MaxChanges
    /\ list' = new
    /\ changes' = changes + 1
    /\ UNCHANGED <<from, queued, failed, accepted>>

Move(i, j) ==
    /\ i # j
    /\ Change(InsertAt(RemoveAt(list, i), j, list[i]))
    /\ UNCHANGED report

Appear(o, i) ==
    /\ o \notin ToSet(list)
    /\ Change(InsertAt(list, i, o))
    /\ UNCHANGED report

Vanish(i) ==
    /\ Change(RemoveAt(list, i))
    /\ report' = IF list[i] \in UNION {ToSet(Listed(chunk)) : chunk \in Downloading}
                 THEN [report EXCEPT !.lost = TRUE] ELSE report

-----------------------------------------------------------------------------
LastOf(day) == Min({day + MaxDays - 1, LastDay})

\* While a batch for the same days waits or runs, that one is the answer.
EnqueueSingle(chunk) ==
    queued' = IF chunk \in ToSet(queued) \cup Downloading THEN queued
              ELSE Append(queued, chunk)

Enqueue ==
    /\ from <= LastDay
    /\ EnqueueSingle([first |-> from, last |-> LastOf(from)])
    /\ from' = LastOf(from) + 1
    /\ UNCHANGED <<providerVars, failed, report, accepted>>

\* The row that is retried stays FAILED.
Retry(chunk) ==
    /\ chunk \in failed
    /\ EnqueueSingle(chunk)
    /\ UNCHANGED <<providerVars, from, failed, report, accepted>>

BeginReport ==
    /\ report = NoReport /\ queued # <<>>
    /\ report' = Begun(Head(queued))
    /\ queued' = Tail(queued)
    /\ UNCHANGED <<providerVars, from, failed, accepted>>

Fails ==
    /\ failed' = failed \cup {report.chunk}
    /\ report' = NoReport
    /\ UNCHANGED accepted

\* An instance that read the batch while it was QUEUED runs it again after it
\* was published, and marks it FAILED.
FailsLate(chunk) ==
    /\ \E done \in accepted : done.chunk = chunk
    /\ failed' = failed \cup {chunk}
    /\ UNCHANGED <<providerVars, from, queued, report, accepted>>

-----------------------------------------------------------------------------
Page(rows, n) == SubSeq(rows, (n - 1) * PageSize + 1, Min({n * PageSize, Len(rows)}))

SummaryOf(rows) == FoldLeft(LAMBDA sum, o : sum + Amount[o], 0, rows)

\* Mutant of Complete: rows are counted instead of checkouts.
CompleteByRows(rows, total) == Len(rows) = total

Complete(rows, total) == Cardinality(ToSet(rows)) = total

\* The code's refusals, in its order; "more" asks for the next page.
Verdict(data, total, summary) ==
    LET rows == report.rows \o data IN
    IF report.page > 1 /\ (report.total # total \/ report.summary # summary) THEN "changed"
    ELSE IF data # <<>> /\ data \in report.seen THEN "duplicate"
    ELSE IF Cardinality(ToSet(rows)) > total THEN "too many"
    ELSE IF Complete(rows, total)
    THEN IF SummaryOf(rows) - summary \in -Limit..Limit THEN "accepted" ELSE "mismatch"
    ELSE IF data = <<>> \/ report.page = MaxPages THEN "incomplete"
    ELSE "more"

Answer ==
    /\ report # NoReport
    /\ LET all     == Listed(report.chunk)
           data    == Page(all, report.page)
           verdict == Verdict(data, Len(all), SummaryOf(all))
       IN CASE verdict = "accepted" ->
                 /\ accepted' = accepted \cup
                        {[chunk |-> report.chunk, rows |-> report.rows \o data,
                          there |-> report.there, lost |-> report.lost]}
                 /\ report' = NoReport
                 /\ UNCHANGED failed
            [] verdict = "more" ->
                 /\ report' = [report EXCEPT !.page = @ + 1, !.attempt = 1,
                                   !.rows = @ \o data, !.seen = @ \cup {data},
                                   !.total = Len(all), !.summary = SummaryOf(all)]
                 /\ UNCHANGED <<failed, accepted>>
            [] OTHER -> Fails
    /\ UNCHANGED <<providerVars, from, queued>>

\* No connection, no answer in time, 429 or a server error: the page is asked
\* for again.
Unavailable ==
    /\ report # NoReport
    /\ IF report.attempt < Attempts
       THEN /\ report' = [report EXCEPT !.attempt = @ + 1]
            /\ UNCHANGED <<failed, accepted>>
       ELSE Fails
    /\ UNCHANGED <<providerVars, from, queued>>

\* Any other answer, or the worker fails.
Refused ==
    /\ report # NoReport
    /\ Fails
    /\ UNCHANGED <<providerVars, from, queued>>

DownloadNext ==
    \/ \E i, j \in DOMAIN list : Move(i, j)
    \/ \E i \in DOMAIN list : Vanish(i)
    \/ \E o \in Checkout, i \in 1..(Len(list) + 1) : Appear(o, i)
    \/ Enqueue \/ BeginReport \/ Answer \/ Unavailable \/ Refused
    \/ \E chunk \in Chunk : Retry(chunk) \/ FailsLate(chunk)

DownloadSpec ==
    (\E there \in SUBSET Checkout : IsFiniteSet(there) /\ DownloadInit(there))
        /\ [][DownloadNext]_downloadVars

-----------------------------------------------------------------------------
\* Each published report is complete, however orders move between its pages
\* while they are downloaded.  No order is on two of its pages, ...
OnceInEach == \A done \in accepted : Cardinality(ToSet(done.rows)) = Len(done.rows)

\* ... and unless one of its days vanished during the download, no order is
\* missing that was there when it began.
NothingMissed == \A done \in accepted : ~done.lost => done.there \subseteq ToSet(done.rows)

\* Reports with an order in common are of the same days: one is a retry.
AgainInRetriesOnly ==
    \A one, other \in accepted :
        ToSet(one.rows) \cap ToSet(other.rows) # {} => one.chunk = other.chunk

\* Every day that enqueueRange has passed is in a report that waits, runs,
\* failed or was published.
NoDayForgotten ==
    \A day \in FirstDay..(from - 1) :
        \E chunk \in ToSet(queued) \cup failed \cup Downloading
                       \cup {done.chunk : done \in accepted} :
            day \in chunk.first..chunk.last

\* A synchronised range is complete report by report: each published report
\* has every order of its days once, no day of the range is left out, and an
\* order comes twice only with a retry of the days it was in.  (Requests for
\* other ranges with the same days bring it again, too: publish compares it.)
OrdersTakenOnce ==
    OnceInEach /\ NothingMissed /\ AgainInRetriesOnly /\ NoDayForgotten
=============================================================================
