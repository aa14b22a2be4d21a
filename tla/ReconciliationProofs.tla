------------------------ MODULE ReconciliationProofs ------------------------
(***************************************************************************)
(* What Reconciliation promises for any number of instances, accounts,     *)
(* batches, pages, versions and crashes.                                   *)
(***************************************************************************)
EXTENDS Reconciliation, FiniteSetTheorems, SequenceTheorems, WellFoundedInduction, TLAPS

\* Where a worker is not downloading.
Outside == {"idle", "picked", "leased", "started", "failing", "releasing"}

\* Batches that were queued have a version that exists, and so do workers;
\* what a worker works on, and what was published, was queued.
Known ==
    /\ \A r \in Run : run[r].version <= Current
    /\ \A w \in Worker :
          /\ worker[w].version <= Current
          /\ ~At(w, "idle") => run[RunOf(w)].status # "none"
          /\ worker[w].at \in Outside => worker[w].page = 1
    /\ \A i \in DOMAIN published : run[published[i].run].status # "none"

\* The worker has stored a page of its batch.
Ahead(w) == worker[w].page > 1 \/ At(w, "ready")

\* ... and it is the only one, its batch has the pages it stored, and is not
\* published yet; what is published has all its pages.
PagesStored ==
    \A w \in Worker : Ahead(w) =>
        stored[RunOf(w)] = IF At(w, "ready") THEN Pages ELSE worker[w].page - 1
Alone ==
    \A w1, w2 \in Worker : Ahead(w1) /\ Ahead(w2) /\ RunOf(w1) = RunOf(w2) => w1 = w2
Unpublished ==
    \A i \in DOMAIN published :
        /\ stored[published[i].run] = Pages
        /\ \A w \in Worker : Ahead(w) => RunOf(w) # published[i].run

Downloading(w) ==
    worker[w].at \in {"waiting", "answered", "marked", "ready"} \/ worker[w].page > 1

\* While its worker has the lease, nothing is published for its account.
SinceHolds ==
    \A w \in Worker : Downloading(w) /\ Holds(w) =>
        worker[w].since = PublishedFor(AccountOf(RunOf(w)))

\* What a worker got an answer with was reached, and what it marked is verified
\* for as long as it is current.
Answered(w) == worker[w].at \in {"answered", "marked", "ready"} \/ worker[w].page > 1
Marked(w)   == worker[w].at \in {"marked", "ready"} \/ worker[w].page > 1
AnswersReached ==
    /\ verified => Current \in reached
    /\ \A w \in Worker :
          /\ Answered(w) => worker[w].version \in reached
          /\ Marked(w) /\ worker[w].version = Current => verified

-----------------------------------------------------------------------------
\* The oldest batch of several is one of them.
LEMMA MinOfRuns ==
    ASSUME NEW S \in SUBSET Run, S # {}
    PROVE  Min(S) \in S /\ \A r \in S : Min(S) <= r
<1>1. S \subseteq Nat
    BY ReconciliationConstants DEF Run
<1>2. IsWellFoundedOn(OpToRel(<, Nat), Nat)
    BY NatLessThanWellFounded
<1>3. \E x \in S : \A y \in S : ~(<<y, x>> \in OpToRel(<, Nat))
    <2> HIDE DEF OpToRel
    <2> QED BY <1>1, <1>2, WFMin, Zenon
<1>4. PICK x \in S : \A y \in S : ~(<<y, x>> \in OpToRel(<, Nat))
    BY <1>3
<1>5. \A y \in S : x <= y
    <2> SUFFICES ASSUME NEW y \in S PROVE x <= y
        OBVIOUS
    <2>1. x \in Nat /\ y \in Nat
        BY <1>1
    <2>2. ~(<<y, x>> \in OpToRel(<, Nat))
        BY <1>4
    <2>3. ~(y < x)
        BY <2>1, <2>2 DEF OpToRel
    <2> QED BY <2>1, <2>3
<1> QED BY <1>5 DEF Min

\* Nothing is queued, leased or published at first.
LEMMA InitTypes == ReconciliationInit => ReconciliationTypeOK /\ Known
<1> SUFFICES ASSUME ReconciliationInit PROVE ReconciliationTypeOK /\ Known
    OBVIOUS
<1>1. PICK range \in Dates :
         run = [r \in Run |-> [status |-> "none", version |-> 1, range |-> range]]
    BY DEF ReconciliationInit
<1>2. credentials \in Seq(Account) /\ Current = 1 /\ 1 \in Version
    BY ReconciliationConstants DEF ReconciliationInit, Current, Version
<1>3. run \in [Run -> RunRow]
    <2>1. [status |-> "none", version |-> 1, range |-> range] \in RunRow
        BY <1>1, <1>2 DEF RunRow
    <2> QED BY <1>1, <2>1
<1>4. worker \in [Worker -> Local]
    <2>1. CASE Worker = {}
        BY <2>1 DEF ReconciliationInit
    <2>2. Idle \in Local
        BY ReconciliationConstants, <1>2 DEF Idle, Local, Place, Active, Version, Run
    <2> QED BY <2>2 DEF ReconciliationInit
<1>5. verified \in BOOLEAN /\ reached \subseteq Version /\ published = <<>>
    BY DEF ReconciliationInit
<1>9. stored \in [Run -> 0..Pages] /\ crashes \in 0..MaxCrashes
    BY ReconciliationConstants DEF ReconciliationInit
<1>6. lease \in [Account -> [owner : Worker \cup {Nobody}, live : BOOLEAN]]
    BY DEF ReconciliationInit, Free
<1>7. published \in Seq([run : Run, since : Nat])
    BY <1>5
<1>8. Known
    BY <1>1, <1>2, <1>5 DEF Known, ReconciliationInit, Idle, At, Outside
<1> QED BY <1>2, <1>3, <1>4, <1>5, <1>6, <1>7, <1>8, <1>9 DEF ReconciliationTypeOK

\* The locals of a worker with nothing to do.
LEMMA IdleLocal ==
    /\ Idle \in Local
    /\ Idle.version = 1 /\ Idle.page = 1 /\ Idle.since = 0 /\ Idle.seen = "QUEUED"
    /\ Idle.at = "idle"
BY ReconciliationConstants DEF Idle, Local, Place, Run, Version, Active

\* What a worker that begins, or is over with, a batch has in its locals.
LEMMA PickedLocal ==
    ASSUME NEW r \in Run, NEW status \in Active, NEW local,
           local = [Idle EXCEPT !.at = "picked", !.run = r, !.seen = status]
    PROVE  /\ local \in Local
           /\ local.at = "picked" /\ local.run = r /\ local.seen = status
           /\ local.version = 1 /\ local.page = 1
<1>1. Idle \in Local /\ Idle.version = 1 /\ Idle.page = 1
    BY IdleLocal
<1>2. local.at = "picked" /\ local.run = r /\ local.seen = status
    BY <1>1 DEF Local
<1>3. local.version = 1 /\ local.page = 1
    BY <1>1 DEF Local
<1>4. local \in Local
    BY <1>1 DEF Local, Place
<1> QED BY <1>2, <1>3, <1>4

\* A new status leaves the rest of a batch, and all other batches, alone.
LEMMA StatusSet ==
    ASSUME run \in [Run -> RunRow], NEW r \in Run,
           NEW status \in {"RUNNING", "COMPLETED", "FAILED"}, SetStatus(r, status)
    PROVE  /\ run' \in [Run -> RunRow]
           /\ \A q \in Run : run'[q].version = run[q].version /\ run'[q].range = run[q].range
           /\ \A q \in Run \ {r} : run'[q] = run[q]
           /\ run'[r].status = status
<1>1. run[r] \in RunRow
    OBVIOUS
<1> DEFINE row == [run[r] EXCEPT !.status = status]
<1>2. row \in RunRow /\ row.status = status /\ row.version = run[r].version
      /\ row.range = run[r].range
    BY <1>1 DEF RunRow, Active
<1>3. run' = [run EXCEPT ![r] = row]
    BY DEF SetStatus
<1> HIDE DEF row
<1> QED BY <1>2, <1>3

\* A step of a worker writes its own locals.
LEMMA Goes ==
    ASSUME NEW w \in Worker, NEW local \in Local, worker \in [Worker -> Local],
           worker' = [worker EXCEPT ![w] = local]
    PROVE  /\ worker' \in [Worker -> Local]
           /\ worker'[w] = local
           /\ \A v \in Worker : v # w => worker'[v] = worker[v]
OBVIOUS

LEMMA Leaves ==
    ASSUME NEW w \in Worker, worker \in [Worker -> Local], NEW place \in Place,
           Leave(w, place)
    PROVE  /\ worker' \in [Worker -> Local]
           /\ worker'[w].at = place /\ worker'[w].run = RunOf(w)
           /\ worker'[w].version = 1 /\ worker'[w].page = 1
           /\ \A v \in Worker : v # w => worker'[v] = worker[v]
<1>1. RunOf(w) \in Run
    BY DEF RunOf, Local
<1> DEFINE local == [Idle EXCEPT !.at = place, !.run = RunOf(w)]
<1>2. Idle \in Local /\ Idle.version = 1 /\ Idle.page = 1
    BY IdleLocal
<1>3. local.at = place /\ local.run = RunOf(w)
    BY <1>1, <1>2 DEF Local
<1>4. local.version = 1 /\ local.page = 1
    BY <1>1, <1>2 DEF Local
<1>5. local \in Local
    BY <1>1, <1>2 DEF Local
<1>6. worker' = [worker EXCEPT ![w] = local]
    BY DEF Leave
<1> HIDE DEF local
<1> QED BY <1>3, <1>4, <1>5, <1>6, Goes

LEMMA GoesTo ==
    ASSUME NEW w \in Worker, worker \in [Worker -> Local], NEW place \in Place,
           Go(w, place)
    PROVE  /\ worker' \in [Worker -> Local]
           /\ worker'[w] = [worker[w] EXCEPT !.at = place]
           /\ \A v \in Worker : v # w => worker'[v] = worker[v]
BY DEF Go, Local

\* How often an account was published is a number.
LEMMA PublishedForNat ==
    ASSUME NEW account, published \in Seq([run : Run, since : Nat])
    PROVE  PublishedFor(account) \in Nat
<1>1. DOMAIN published = 1..Len(published) /\ Len(published) \in Nat
    OBVIOUS
<1>2. IsFiniteSet(1..Len(published))
    BY <1>1, FS_Interval
<1>3. IsFiniteSet({i \in DOMAIN published : AccountOf(published[i].run) = account})
    BY <1>1, <1>2, FS_Subset
<1> QED BY <1>3, FS_CardinalityType DEF PublishedFor

\* Every step leaves tables, locals and leases well formed.
LEMMA TypeStep ==
    ReconciliationTypeOK /\ [ReconciliationNext]_reconciliationVars
        => ReconciliationTypeOK'
<1> SUFFICES ASSUME ReconciliationTypeOK, [ReconciliationNext]_reconciliationVars
             PROVE  ReconciliationTypeOK'
    OBVIOUS
<1> USE ReconciliationConstants DEF ReconciliationTypeOK
<1>1. CASE UNCHANGED reconciliationVars
    BY <1>1 DEF reconciliationVars, Current
<1>2. ASSUME NEW range \in Dates, NEW v \in Version, Enqueue(range, v)
      PROVE  ReconciliationTypeOK'
    <2>1. [status |-> "QUEUED", version |-> v, range |-> range] \in RunRow
        BY DEF RunRow, Active
    <2>2. run' \in [Run -> RunRow]
        BY <1>2, <2>1 DEF Enqueue
    <2> QED BY <1>2, <2>2 DEF Enqueue, Current
<1>3. ASSUME NEW account \in Account, Rotate(account)
      PROVE  ReconciliationTypeOK'
    <2>1. credentials' \in Seq(Account) /\ Current' = Current + 1
        BY <1>3 DEF Rotate, Current
    <2>2. Current' \in Version
        BY <1>3, <2>1 DEF Rotate, Version
    <2> QED BY <1>3, <2>1, <2>2 DEF Rotate
<1>4. ASSUME NEW w \in Worker, Pick(w)
      PROVE  ReconciliationTypeOK'
    <2> DEFINE active == {r \in Run : run[r].status \in Active}
    <2>1. Min(active) \in active
        BY <1>4, MinOfRuns DEF Pick
    <2> DEFINE local == [Idle EXCEPT !.at = "picked", !.run = Min(active),
                                     !.seen = run[Min(active)].status]
    <2>2. local \in Local
        BY <2>1, PickedLocal
    <2>3. worker' = [worker EXCEPT ![w] = local]
        BY <1>4 DEF Pick
    <2> HIDE DEF local
    <2>4. worker' \in [Worker -> Local]
        BY <2>2, <2>3
    <2> QED BY <1>4, <2>4 DEF Pick, Current
<1>5. ASSUME NEW w \in Worker, FindLeaseTaken(w) \/ ReleaseFails(w)
      PROVE  ReconciliationTypeOK'
    <2>1. worker' \in [Worker -> Local]
        BY <1>5, IdleLocal DEF FindLeaseTaken, ReleaseFails
    <2> QED BY <1>5, <2>1 DEF FindLeaseTaken, ReleaseFails, Current
<1>6. ASSUME NEW w \in Worker, TakeLease(w)
      PROVE  ReconciliationTypeOK'
    <2>1. worker' \in [Worker -> Local]
        BY <1>6, Leaves, GoesTo DEF TakeLease, Place
    <2>2. run' \in [Run -> RunRow]
        <3>1. \A r \in Run : [run[r] EXCEPT !.status = "FAILED"] \in RunRow
            BY DEF RunRow, Active
        <3> QED BY <1>6, <3>1 DEF TakeLease
    <2>3. lease' \in [Account -> [owner : Worker \cup {Nobody}, live : BOOLEAN]]
        BY <1>6 DEF TakeLease
    <2> QED BY <1>6, <2>1, <2>2, <2>3 DEF TakeLease, Current
<1>7. ASSUME NEW w \in Worker, Release(w)
      PROVE  ReconciliationTypeOK'
    <2>1. worker' \in [Worker -> Local]
        BY <1>7, IdleLocal DEF Release
    <2>2. lease' \in [Account -> [owner : Worker \cup {Nobody}, live : BOOLEAN]]
        BY <1>7 DEF Release, Free
    <2> QED BY <1>7, <2>1, <2>2 DEF Release, Current
<1>8. ASSUME NEW w \in Worker, ReadCredential(w)
      PROVE  ReconciliationTypeOK'
    <2>1. worker' \in [Worker -> Local]
        BY <1>8 DEF ReadCredential, Local, Place
    <2> QED BY <1>8, <2>1 DEF ReadCredential, Current
<1>9. ASSUME NEW w \in Worker, StartRun(w)
      PROVE  ReconciliationTypeOK'
    <2>1. worker' \in [Worker -> Local]
        BY <1>9, Leaves, GoesTo DEF StartRun, Place
    <2>2. run' \in [Run -> RunRow]
        BY <1>9, StatusSet DEF StartRun, RunOf, Local
    <2> QED BY <1>9, <2>1, <2>2 DEF StartRun, Current
<1>10. ASSUME NEW w \in Worker, Request(w)
      PROVE  ReconciliationTypeOK'
    <2>1. worker' \in [Worker -> Local]
        <3>1. CASE Holds(w)
            <4>1. worker' = [worker EXCEPT
                     ![w].at = "waiting",
                     ![w].since = IF worker[w].page = 1
                                  THEN PublishedFor(AccountOf(RunOf(w))) ELSE @]
                BY <1>10, <3>1 DEF Request
            <4>2. PublishedFor(AccountOf(RunOf(w))) \in Nat
                BY PublishedForNat
            <4> DEFINE n == IF worker[w].page = 1
                            THEN PublishedFor(AccountOf(RunOf(w))) ELSE worker[w].since
            <4>3. n \in Nat
                BY <4>2 DEF Local
            <4>6. worker[w] \in Local
                OBVIOUS
            <4> DEFINE local == [worker[w] EXCEPT !.at = "waiting", !.since = n]
            <4>4. worker' = [worker EXCEPT ![w] = local]
                BY <4>1
            <4> HIDE DEF n
            <4>5. local \in Local
                BY <4>3, <4>6 DEF Local, Place
            <4> HIDE DEF local
            <4> QED BY <4>4, <4>5
        <3>2. CASE ~Holds(w)
            BY <1>10, <3>2, Leaves DEF Request, Place
        <3> QED BY <3>1, <3>2
    <2> QED BY <1>10, <2>1 DEF Request, Current
<1>11. ASSUME NEW w \in Worker, Receive(w)
      PROVE  ReconciliationTypeOK'
    <2>1. worker' \in [Worker -> Local]
        BY <1>11, Leaves, GoesTo DEF Receive, Place
    <2>2. worker[w].version \in Version
        BY DEF Local
    <2> QED BY <1>11, <2>1, <2>2 DEF Receive, Current
<1>12. ASSUME NEW w \in Worker, MarkActive(w)
      PROVE  ReconciliationTypeOK'
    <2>1. worker' \in [Worker -> Local]
        BY <1>12, GoesTo DEF MarkActive, Place
    <2> QED BY <1>12, <2>1 DEF MarkActive, Current
<1>13. ASSUME NEW w \in Worker, StorePage(w)
      PROVE  ReconciliationTypeOK'
    <2>1. worker' \in [Worker -> Local]
        <3>1. CASE stored[RunOf(w)] < worker[w].page
            <4>2. worker[w] \in Local
                OBVIOUS
            <4> DEFINE readied == [worker[w] EXCEPT !.at = "ready"]
                       next == [worker[w] EXCEPT !.at = "requesting", !.page = @ + 1]
            <4>3. readied \in Local
                BY <4>2 DEF Local, Place
            <4>6. worker[w].page \in 1..Pages
                BY <4>2 DEF Local
            <4>7. worker[w].page # Pages => worker[w].page + 1 \in 1..Pages
                BY <4>6
            <4>4. worker[w].page # Pages => next \in Local
                BY <4>2, <4>7 DEF Local, Place
            <4>5. /\ worker[w].page = Pages => worker' = [worker EXCEPT ![w] = readied]
                  /\ worker[w].page # Pages => worker' = [worker EXCEPT ![w] = next]
                <5>1. NextPage(w)
                    BY <1>13, <3>1 DEF StorePage
                <5>2. CASE worker[w].page = Pages
                    BY <5>1, <5>2 DEF NextPage
                <5>3. CASE worker[w].page # Pages
                    BY <5>1, <5>3 DEF NextPage
                <5> QED BY <5>2, <5>3
            <4> HIDE DEF readied, next
            <4> QED BY <4>3, <4>4, <4>5
        <3>2. CASE ~(stored[RunOf(w)] < worker[w].page)
            BY <1>13, <3>2, Leaves DEF StorePage, Place
        <3> QED BY <3>1, <3>2
    <2>2. stored' \in [Run -> 0..Pages]
        BY <1>13 DEF StorePage, Local
    <2> QED BY <1>13, <2>1, <2>2 DEF StorePage, Current
<1>14. ASSUME NEW w \in Worker, PublishRun(w)
      PROVE  ReconciliationTypeOK'
    <2>1. worker' \in [Worker -> Local]
        BY <1>14, Leaves DEF PublishRun, Place
    <2>2. run' \in [Run -> RunRow]
        BY <1>14, StatusSet DEF PublishRun, RunOf, Local
    <2>3. published' \in Seq([run : Run, since : Nat])
        <3>1. [run |-> RunOf(w), since |-> worker[w].since] \in [run : Run, since : Nat]
            BY DEF RunOf, Local
        <3> DEFINE entry == [run |-> RunOf(w), since |-> worker[w].since]
        <3>2. published' = published \/ published' = Append(published, entry)
            BY <1>14 DEF PublishRun
        <3>3. entry \in [run : Run, since : Nat]
            BY <3>1
        <3> DEFINE Entry == [run : Run, since : Nat]
        <3>4. published \in Seq(Entry) /\ entry \in Entry
            BY <3>3
        <3> HIDE DEF entry, Entry
        <3>5. published' \in Seq(Entry)
            <4>1. Append(published, entry) \in Seq(Entry)
                BY <3>4, AppendProperties
            <4> QED BY <3>2, <3>4, <4>1
        <3> QED BY <3>5 DEF Entry
    <2> QED BY <1>14, <2>1, <2>2, <2>3 DEF PublishRun, Current
<1>15. ASSUME NEW w \in Worker, Throw(w)
      PROVE  ReconciliationTypeOK'
    <2>1. worker' \in [Worker -> Local]
        BY <1>15, Leaves, IdleLocal DEF Throw, Place
    <2> QED BY <1>15, <2>1 DEF Throw, Current
<1>16. ASSUME NEW w \in Worker, MarkFailed(w)
      PROVE  ReconciliationTypeOK'
    <2>1. worker' \in [Worker -> Local]
        BY <1>16, Leaves DEF MarkFailed, Place
    <2>2. run' \in [Run -> RunRow]
        BY <1>16, StatusSet DEF MarkFailed, RunOf, Local
    <2> QED BY <1>16, <2>1, <2>2 DEF MarkFailed, Current
<1>17. ASSUME NEW w \in Worker, Crash(w)
      PROVE  ReconciliationTypeOK'
    <2>1. worker' \in [Worker -> Local]
        BY <1>17, IdleLocal DEF Crash
    <2>2. lease' \in [Account -> [owner : Worker \cup {Nobody}, live : BOOLEAN]]
        BY <1>17 DEF Crash
    <2>3. crashes' \in 0..MaxCrashes
        BY <1>17 DEF Crash
    <2> QED BY <1>17, <2>1, <2>2, <2>3 DEF Crash, Current
<1>18. ASSUME NEW account \in Account, LeaseExpires(account)
      PROVE  ReconciliationTypeOK'
    <2>1. lease' \in [Account -> [owner : Worker \cup {Nobody}, live : BOOLEAN]]
        BY <1>18 DEF LeaseExpires
    <2> QED BY <1>18, <2>1 DEF LeaseExpires, Current
<1> QED
    BY <1>1, <1>2, <1>3, <1>4, <1>5, <1>6, <1>7, <1>8, <1>9, <1>10, <1>11, <1>12, <1>13,
       <1>14, <1>15, <1>16, <1>17, <1>18 DEF ReconciliationNext, Work

-----------------------------------------------------------------------------
(***************************************************************************)
(* What steps do.  A worker leaves its batch or takes up another (Off),    *)
(* goes on (Advances), stores a page (Stores) or publishes (Publishes).    *)
(***************************************************************************)
OthersStay(w) == \A v \in Worker : v # w => worker'[v] = worker[v]
StoresNothing == stored' = stored /\ published' = published

Off(w) ==
    /\ OthersStay(w)
    /\ worker'[w].page = 1 /\ worker'[w].version = 1
    /\ worker'[w].at \in {"idle", "picked", "failing", "releasing"}
    /\ worker'[w].at # "idle" => run[worker'[w].run].status # "none"

Advances(w) ==
    /\ OthersStay(w)
    /\ worker'[w].run = RunOf(w) /\ worker'[w].page = worker[w].page
    /\ ~At(w, "idle")
    /\ \/ At(w, "picked") /\ worker'[w].at = "leased" /\ worker'[w].version = worker[w].version
       \/ At(w, "leased") /\ worker'[w].at = "started" /\ worker'[w].version = Current
       \/ At(w, "started") /\ worker'[w].at = "requesting"
            /\ worker'[w].version = worker[w].version
       \/ /\ At(w, "requesting") /\ worker'[w].at = "waiting"
          /\ worker'[w].version = worker[w].version
          /\ worker'[w].since = IF worker[w].page = 1
                                THEN PublishedFor(AccountOf(RunOf(w))) ELSE worker[w].since
       \/ /\ At(w, "waiting") /\ worker'[w].at = "answered"
          /\ worker'[w].version = worker[w].version /\ worker'[w].since = worker[w].since
          /\ worker[w].version \in reached'
       \/ /\ At(w, "answered") /\ worker'[w].at = "marked"
          /\ worker'[w].version = worker[w].version /\ worker'[w].since = worker[w].since
          /\ worker[w].version = Current => verified'

Stores(w) ==
    /\ OthersStay(w)
    /\ At(w, "marked")
    /\ stored[RunOf(w)] < worker[w].page
    /\ stored' = [stored EXCEPT ![RunOf(w)] = worker[w].page]
    /\ worker'[w].run = RunOf(w) /\ worker'[w].version = worker[w].version
    /\ worker'[w].since = worker[w].since
    /\ worker[w].page = Pages => worker'[w].at = "ready" /\ worker'[w].page = Pages
    /\ worker[w].page # Pages =>
          worker'[w].at = "requesting" /\ worker'[w].page = worker[w].page + 1
    /\ published' = published

Publishes(w) ==
    /\ Off(w)
    /\ At(w, "ready") /\ MayPublish(w)
    /\ published' = Append(published, [run |-> RunOf(w), since |-> worker[w].since])
    /\ stored' = stored

WorkersStep ==
    \/ worker' = worker /\ StoresNothing
    \/ \E w \in Worker : (Off(w) \/ Advances(w)) /\ StoresNothing
    \/ \E w \in Worker : Stores(w) \/ Publishes(w)

\* Every step is one of these.
LEMMA WorkersStepKinds ==
    ReconciliationTypeOK /\ Known /\ [ReconciliationNext]_reconciliationVars
        => WorkersStep
<1> SUFFICES ASSUME ReconciliationTypeOK, Known, [ReconciliationNext]_reconciliationVars
             PROVE  WorkersStep
    OBVIOUS
<1>w. worker \in [Worker -> Local] /\ run \in [Run -> RunRow]
    BY DEF ReconciliationTypeOK
<1>k. \A w \in Worker : RunOf(w) \in Run /\ (~At(w, "idle") => run[RunOf(w)].status # "none")
    BY <1>w DEF Known, RunOf, Local
<1>i. Idle \in Local /\ Idle.version = 1 /\ Idle.page = 1 /\ Idle.at = "idle"
    BY IdleLocal
<1>o. ASSUME NEW w \in Worker, worker' = [worker EXCEPT ![w] = Idle]
      PROVE  Off(w)
    BY <1>o, <1>w, <1>i DEF Off, OthersStay
<1>l. ASSUME NEW w \in Worker, NEW place \in {"failing", "releasing"}, ~At(w, "idle"),
             Leave(w, place)
      PROVE  Off(w)
    <2>1. place \in Place
        BY DEF Place
    <2>2. /\ worker'[w].at = place /\ worker'[w].run = RunOf(w)
          /\ worker'[w].version = 1 /\ worker'[w].page = 1
          /\ \A v \in Worker : v # w => worker'[v] = worker[v]
        BY <1>l, <1>w, <2>1, Leaves
    <2> QED BY <1>l, <1>k, <2>2 DEF Off, OthersStay
<1>1. CASE UNCHANGED reconciliationVars
    BY <1>1 DEF reconciliationVars, WorkersStep, StoresNothing
<1>2. ASSUME NEW range \in Dates, NEW v \in Version, Enqueue(range, v)
      PROVE  WorkersStep
    BY <1>2 DEF Enqueue, WorkersStep, StoresNothing
<1>3. ASSUME NEW account \in Account, Rotate(account) \/ LeaseExpires(account)
      PROVE  WorkersStep
    BY <1>3 DEF Rotate, LeaseExpires, WorkersStep, StoresNothing
<1>4. ASSUME NEW w \in Worker, Pick(w)
      PROVE  WorkersStep
    <2> DEFINE active == {r \in Run : run[r].status \in Active}
    <2>1. Min(active) \in active
        BY <1>4, MinOfRuns DEF Pick
    <2> DEFINE local == [Idle EXCEPT !.at = "picked", !.run = Min(active),
                                     !.seen = run[Min(active)].status]
    <2>2. local.at = "picked" /\ local.run = Min(active)
          /\ local.version = 1 /\ local.page = 1
        BY <1>i DEF Local
    <2>3. worker' = [worker EXCEPT ![w] = local]
        BY <1>4 DEF Pick
    <2>4. run[Min(active)].status # "none"
        BY <2>1 DEF Active
    <2> HIDE DEF local, active
    <2>5. Off(w)
        BY <1>w, <2>2, <2>3, <2>4 DEF Off, OthersStay
    <2> QED BY <1>4, <2>5 DEF Pick, WorkersStep, StoresNothing
<1>5. ASSUME NEW w \in Worker, FindLeaseTaken(w) \/ ReleaseFails(w) \/ Release(w) \/ Crash(w)
      PROVE  WorkersStep
    <2>1. Off(w)
        BY <1>5, <1>o DEF FindLeaseTaken, ReleaseFails, Release, Crash
    <2> QED BY <1>5, <2>1 DEF FindLeaseTaken, ReleaseFails, Release, Crash,
                              WorkersStep, StoresNothing
<1>6. ASSUME NEW w \in Worker, TakeLease(w)
      PROVE  WorkersStep
    <2>1. CASE worker[w].seen = "QUEUED"
        <3>1. Advances(w)
            <4>1. Go(w, "leased") /\ At(w, "picked")
                BY <1>6, <2>1 DEF TakeLease
            <4>2. OthersStay(w)
                BY <4>1, <1>w DEF OthersStay, Go
            <4>3. /\ worker'[w].run = worker[w].run /\ worker'[w].page = worker[w].page
                  /\ worker'[w].version = worker[w].version
                BY <4>1, <1>w DEF Go, Local
            <4>4. worker'[w].at = "leased"
                BY <4>1, <1>w DEF Go, Local
            <4> QED BY <4>1, <4>2, <4>3, <4>4 DEF Advances, At, RunOf
        <3> QED BY <1>6, <3>1 DEF TakeLease, WorkersStep, StoresNothing
    <2>2. CASE worker[w].seen # "QUEUED"
        <3>1. Off(w)
            BY <1>6, <2>2, <1>l DEF TakeLease, At
        <3> QED BY <1>6, <3>1 DEF TakeLease, WorkersStep, StoresNothing
    <2> QED BY <2>1, <2>2
<1>7. ASSUME NEW w \in Worker, ReadCredential(w)
      PROVE  WorkersStep
    <2>1. Advances(w)
        BY <1>7, <1>w DEF ReadCredential, Advances, OthersStay, At, RunOf, Local
    <2> QED BY <1>7, <2>1 DEF ReadCredential, WorkersStep, StoresNothing
<1>8. ASSUME NEW w \in Worker, StartRun(w)
      PROVE  WorkersStep
    <2>1. CASE run[RunOf(w)].version = worker[w].version
        <3>1. Advances(w)
            <4>1. Go(w, "requesting") /\ At(w, "started")
                BY <1>8, <2>1 DEF StartRun
            <4>2. OthersStay(w)
                BY <4>1, <1>w DEF OthersStay, Go
            <4>3. /\ worker'[w].run = worker[w].run /\ worker'[w].page = worker[w].page
                  /\ worker'[w].version = worker[w].version
                BY <4>1, <1>w DEF Go, Local
            <4>4. worker'[w].at = "requesting"
                BY <4>1, <1>w DEF Go, Local
            <4> QED BY <4>1, <4>2, <4>3, <4>4 DEF Advances, At, RunOf
        <3> QED BY <1>8, <3>1 DEF StartRun, WorkersStep, StoresNothing
    <2>2. CASE run[RunOf(w)].version # worker[w].version
        <3>1. Off(w)
            BY <1>8, <2>2, <1>l DEF StartRun, At
        <3> QED BY <1>8, <3>1 DEF StartRun, WorkersStep, StoresNothing
    <2> QED BY <2>1, <2>2
<1>9. ASSUME NEW w \in Worker, Request(w)
      PROVE  WorkersStep
    <2>1. CASE Holds(w)
        <3> DEFINE n == PublishedFor(AccountOf(RunOf(w)))
        <3>1. worker' = [worker EXCEPT
               ![w].at = "waiting",
               ![w].since = IF worker[w].page = 1 THEN n ELSE worker[w].since]
            BY <1>9, <2>1 DEF Request
        <3> HIDE DEF n
        <3>2. /\ OthersStay(w) /\ worker'[w].at = "waiting" /\ worker'[w].run = worker[w].run
              /\ worker'[w].page = worker[w].page /\ worker'[w].version = worker[w].version
              /\ worker'[w].since = IF worker[w].page = 1 THEN n ELSE worker[w].since
            BY <1>w, <3>1 DEF OthersStay, Local
        <3>3. Advances(w)
            BY <1>9, <3>2 DEF Request, Advances, At, RunOf, n
        <3> QED BY <1>9, <3>3 DEF Request, WorkersStep, StoresNothing
    <2>2. CASE ~Holds(w)
        <3>1. Off(w)
            BY <1>9, <2>2, <1>l DEF Request, At
        <3> QED BY <1>9, <3>1 DEF Request, WorkersStep, StoresNothing
    <2> QED BY <2>1, <2>2
<1>10. ASSUME NEW w \in Worker, Receive(w)
      PROVE  WorkersStep
    <2>1. CASE Holds(w)
        <3>1. Advances(w)
            BY <1>10, <2>1, <1>w, GoesTo DEF Receive, Advances, OthersStay, Place, At, RunOf, Local
        <3> QED BY <1>10, <3>1 DEF Receive, WorkersStep, StoresNothing
    <2>2. CASE ~Holds(w)
        <3>1. Off(w)
            BY <1>10, <2>2, <1>l DEF Receive, At
        <3> QED BY <1>10, <3>1 DEF Receive, WorkersStep, StoresNothing
    <2> QED BY <2>1, <2>2
<1>11. ASSUME NEW w \in Worker, MarkActive(w)
      PROVE  WorkersStep
    <2>1. Advances(w)
        BY <1>11, <1>w, GoesTo DEF MarkActive, Advances, OthersStay, Place, At, RunOf, Local
    <2> QED BY <1>11, <2>1 DEF MarkActive, WorkersStep, StoresNothing
<1>12. ASSUME NEW w \in Worker, StorePage(w)
      PROVE  WorkersStep
    <2>1. CASE stored[RunOf(w)] < worker[w].page
        <3>1. NextPage(w)
            BY <1>12, <2>1 DEF StorePage
        <3>2. /\ OthersStay(w) /\ worker'[w].run = worker[w].run
              /\ worker'[w].version = worker[w].version /\ worker'[w].since = worker[w].since
              /\ worker[w].page = Pages => worker'[w].at = "ready" /\ worker'[w].page = Pages
              /\ worker[w].page # Pages =>
                    worker'[w].at = "requesting" /\ worker'[w].page = worker[w].page + 1
            <4>1. CASE worker[w].page = Pages
                <5>1. worker' = [worker EXCEPT ![w].at = "ready"]
                    BY <3>1, <4>1 DEF NextPage
                <5> QED BY <5>1, <4>1, <1>w DEF OthersStay, Local
            <4>2. CASE worker[w].page # Pages
                <5>1. worker' = [worker EXCEPT ![w].at = "requesting", ![w].page = @ + 1]
                    BY <3>1, <4>2 DEF NextPage
                <5> QED BY <5>1, <4>2, <1>w DEF OthersStay, Local
            <4> QED BY <4>1, <4>2
        <3>3. Stores(w)
            BY <1>12, <2>1, <3>2 DEF StorePage, Stores, RunOf
        <3> QED BY <3>3 DEF WorkersStep
    <2>2. CASE ~(stored[RunOf(w)] < worker[w].page)
        <3>1. Off(w)
            BY <1>12, <2>2, <1>l DEF StorePage, At
        <3> QED BY <1>12, <2>2, <3>1 DEF StorePage, WorkersStep, StoresNothing
    <2> QED BY <2>1, <2>2
<1>13. ASSUME NEW w \in Worker, PublishRun(w)
      PROVE  WorkersStep
    <2>1. Off(w)
        BY <1>13, <1>l DEF PublishRun, At
    <2>2. CASE MayPublish(w)
        <3>1. Publishes(w)
            BY <1>13, <2>1, <2>2 DEF PublishRun, Publishes
        <3> QED BY <3>1 DEF WorkersStep
    <2>3. CASE ~MayPublish(w)
        BY <1>13, <2>1, <2>3 DEF PublishRun, WorkersStep, StoresNothing
    <2> QED BY <2>2, <2>3
<1>14. ASSUME NEW w \in Worker, Throw(w) \/ MarkFailed(w)
      PROVE  WorkersStep
    <2>1. Off(w)
        BY <1>14, <1>l, <1>o DEF Throw, MarkFailed, At
    <2> QED BY <1>14, <2>1 DEF Throw, MarkFailed, WorkersStep, StoresNothing
<1> QED
    BY <1>1, <1>2, <1>3, <1>4, <1>5, <1>6, <1>7, <1>8, <1>9, <1>10, <1>11, <1>12, <1>13,
       <1>14 DEF ReconciliationNext, Work

\* The tables: batches that were queued stay and keep their version, an
\* account once reached or verified stays so until it is rotated, and a worker
\* gets a lease only before it downloads.
RunsKept ==
    \A r \in Run :
        /\ run'[r].version <= Current
        /\ run[r].status # "none" =>
              run'[r].status # "none" /\ run'[r].version = run[r].version

Rotates ==
    /\ \E account \in Account : credentials' = Append(credentials, account)
    /\ verified' = FALSE
    /\ UNCHANGED <<run, lease, worker, published, reached>>

CredentialsKept ==
    /\ credentials' = credentials
    /\ reached \subseteq reached'
    /\ verified => verified'
    /\ verified' => verified \/ \E w \in Worker : At(w, "answered") /\ worker[w].version = Current

LeaseKept ==
    \A account \in Account, w \in Worker :
        lease'[account] = [owner |-> w, live |-> TRUE]
            => lease[account] = [owner |-> w, live |-> TRUE] \/ worker'[w].at \in Outside

\* Every step keeps them so.
LEMMA TablesStep ==
    ReconciliationTypeOK /\ Known /\ [ReconciliationNext]_reconciliationVars
        => RunsKept /\ (Rotates \/ CredentialsKept) /\ LeaseKept
<1> SUFFICES ASSUME ReconciliationTypeOK, Known, [ReconciliationNext]_reconciliationVars
             PROVE  RunsKept /\ (Rotates \/ CredentialsKept) /\ LeaseKept
    OBVIOUS
<1>t. /\ worker \in [Worker -> Local] /\ run \in [Run -> RunRow]
      /\ lease \in [Account -> [owner : Worker \cup {Nobody}, live : BOOLEAN]]
    BY DEF ReconciliationTypeOK
<1>k. \A r \in Run : run[r].version <= Current
    BY DEF Known
<1>r. ASSUME run' = run
      PROVE  RunsKept
    BY <1>r, <1>k DEF RunsKept
<1>s. ASSUME NEW r \in Run, NEW status \in {"RUNNING", "COMPLETED", "FAILED"},
             SetStatus(r, status)
      PROVE  RunsKept
    <2>1. /\ \A q \in Run : run'[q].version = run[q].version
          /\ \A q \in Run \ {r} : run'[q] = run[q]
          /\ run'[r].status = status
        BY <1>s, <1>t, StatusSet
    <2> QED BY <1>k, <2>1 DEF RunsKept
<1>w. \A w \in Worker : RunOf(w) \in Run
    BY <1>t DEF RunOf, Local
<1>l. ASSUME lease' = lease
      PROVE  LeaseKept
    BY <1>l DEF LeaseKept
<1>c. ASSUME credentials' = credentials, reached' = reached, verified' = verified
      PROVE  CredentialsKept
    BY <1>c DEF CredentialsKept
<1>1. CASE UNCHANGED reconciliationVars
    BY <1>1, <1>r, <1>l, <1>c DEF reconciliationVars
<1>2. ASSUME NEW range \in Dates, NEW v \in Version, Enqueue(range, v)
      PROVE  RunsKept /\ CredentialsKept /\ LeaseKept
    <2> DEFINE new == Min({r \in Run : run[r].status = "none"})
    <2>1. new \in Run /\ run[new].status = "none"
        BY <1>2, MinOfRuns DEF Enqueue
    <2>2. run' = [run EXCEPT ![new] = [status |-> "QUEUED", version |-> v, range |-> range]]
          /\ v <= Current
        BY <1>2 DEF Enqueue
    <2> HIDE DEF new
    <2>3. RunsKept
        BY <1>t, <1>k, <2>1, <2>2 DEF RunsKept
    <2> QED BY <1>2, <2>3, <1>l, <1>c DEF Enqueue
<1>3. ASSUME NEW account \in Account, Rotate(account)
      PROVE  RunsKept /\ Rotates /\ LeaseKept
    BY <1>3, <1>r, <1>l DEF Rotate, Rotates
<1>4. ASSUME NEW w \in Worker,
             Pick(w) \/ FindLeaseTaken(w) \/ ReleaseFails(w) \/ ReadCredential(w)
                \/ Request(w) \/ StorePage(w) \/ Throw(w)
      PROVE  RunsKept /\ CredentialsKept /\ LeaseKept
    BY <1>4, <1>r, <1>l, <1>c
    DEF Pick, FindLeaseTaken, ReleaseFails, ReadCredential, Request, StorePage, Throw
<1>5. ASSUME NEW w \in Worker, TakeLease(w)
      PROVE  RunsKept /\ CredentialsKept /\ LeaseKept
    <2>1. RunsKept
        <3>1. \A r \in Run : \/ run'[r] = run[r]
                             \/ run'[r] = [run[r] EXCEPT !.status = "FAILED"]
            BY <1>5 DEF TakeLease
        <3>2. \A r \in Run : run[r] \in RunRow
            BY <1>t
        <3> QED BY <1>k, <3>1, <3>2 DEF RunsKept, RunRow
    <2>2. worker'[w].at \in Outside
        <3>1. CASE Go(w, "leased")
            BY <3>1, <1>t DEF Go, Outside, Local
        <3>2. CASE Leave(w, "releasing")
            BY <3>2, <1>t, Leaves DEF Outside, Place
        <3> QED BY <1>5, <3>1, <3>2 DEF TakeLease
    <2>3. LeaseKept
        BY <1>5, <1>t, <2>2 DEF TakeLease, LeaseKept
    <2> QED BY <1>5, <2>1, <2>3, <1>c DEF TakeLease
<1>6. ASSUME NEW w \in Worker, Release(w) \/ Crash(w)
      PROVE  RunsKept /\ CredentialsKept /\ LeaseKept
    <2>1. LeaseKept
        BY <1>6, <1>t, ReconciliationConstants DEF Release, Crash, LeaseKept, Free
    <2> QED BY <1>6, <2>1, <1>r, <1>c DEF Release, Crash
<1>7. ASSUME NEW w \in Worker, StartRun(w) \/ PublishRun(w) \/ MarkFailed(w)
      PROVE  RunsKept /\ CredentialsKept /\ LeaseKept
    BY <1>7, <1>r, <1>s, <1>w, <1>l, <1>c DEF StartRun, PublishRun, MarkFailed
<1>8. ASSUME NEW w \in Worker, Receive(w) \/ MarkActive(w)
      PROVE  RunsKept /\ CredentialsKept /\ LeaseKept
    <2>1. ASSUME Receive(w) PROVE CredentialsKept
        <3>1. reached \subseteq reached' /\ credentials' = credentials
            BY <2>1 DEF Receive
        <3>2. verified' = verified
            BY <2>1 DEF Receive
        <3> QED BY <3>1, <3>2, Zenon DEF CredentialsKept
    <2>2. ASSUME MarkActive(w) PROVE CredentialsKept
        <3>1. verified \/ worker[w].version = Current <=> verified'
            BY <2>2, Zenon DEF MarkActive
        <3>2. credentials' = credentials /\ reached \subseteq reached' /\ At(w, "answered")
            BY <2>2 DEF MarkActive
        <3> QED BY <3>1, <3>2, Zenon DEF CredentialsKept
    <2>3. CredentialsKept
        BY <1>8, <2>1, <2>2
    <2> QED BY <1>8, <2>3, <1>r, <1>l DEF Receive, MarkActive
<1>9. ASSUME NEW account \in Account, LeaseExpires(account)
      PROVE  RunsKept /\ CredentialsKept /\ LeaseKept
    <2>1. LeaseKept
        BY <1>9, <1>t DEF LeaseExpires, LeaseKept
    <2> QED BY <1>9, <2>1, <1>r, <1>c DEF LeaseExpires
<1> QED
    BY <1>1, <1>2, <1>3, <1>4, <1>5, <1>6, <1>7, <1>8, <1>9 DEF ReconciliationNext, Work

\* Publications are of batches.
LEMMA EntriesOfSeq ==
    ASSUME NEW s \in Seq([run : Run, since : Nat])
    PROVE  \A j \in DOMAIN s : s[j].run \in Run
<1> DEFINE Entry == [run : Run, since : Nat]
<1>1. DOMAIN s = 1..Len(s) /\ s \in Seq(Entry)
    OBVIOUS
<1>2. \A e \in Entry : e.run \in Run
    OBVIOUS
<1> HIDE DEF Entry
<1>3. \A j \in DOMAIN s : s[j] \in Entry
    BY <1>1, ElementOfSeq
<1> QED BY <1>2, <1>3

\* The same from the side of one worker.
LEMMA EachWorker ==
    ReconciliationTypeOK /\ Known /\ [ReconciliationNext]_reconciliationVars =>
        \A v \in Worker : worker'[v] = worker[v] \/ Off(v) \/ Advances(v) \/ Stores(v)
<1>1. \A w \in Worker : Off(w) \/ Advances(w) \/ Stores(w) => OthersStay(w)
    BY DEF Off, Advances, Stores
<1>2. \A w \in Worker : Publishes(w) => Off(w)
    BY DEF Publishes
<1> QED BY <1>1, <1>2, WorkersStepKinds DEF WorkersStep, OthersStay

\* Versions and batches that are referred to exist.
LEMMA KnownStep ==
    ReconciliationTypeOK /\ Known /\ [ReconciliationNext]_reconciliationVars => Known'
<1> SUFFICES ASSUME ReconciliationTypeOK, Known, [ReconciliationNext]_reconciliationVars
             PROVE  Known'
    OBVIOUS
<1>t. worker \in [Worker -> Local] /\ run \in [Run -> RunRow] /\ credentials \in Seq(Account)
      /\ published \in Seq([run : Run, since : Nat]) /\ Current \in Nat /\ Current >= 1
    BY DEF ReconciliationTypeOK, Version
<1>t2. ReconciliationTypeOK'
    BY TypeStep
<1>t3. worker' \in [Worker -> Local] /\ run' \in [Run -> RunRow]
    BY <1>t2 DEF ReconciliationTypeOK
<1>1. Current <= Current' /\ Current' \in Nat
    BY <1>t, TablesStep DEF Rotates, CredentialsKept, Current
<1>2. RunsKept
    BY TablesStep
<1>3. \A r \in Run : run'[r].version <= Current'
    <2>1. \A r \in Run : run'[r].version \in Nat
        BY <1>t3 DEF RunRow, Version
    <2> QED BY <1>1, <1>2, <2>1, <1>t DEF RunsKept
<1>s. \A w \in Worker : RunOf(w) \in Run /\ worker[w].version \in Nat
    BY <1>t DEF RunOf, Local, Version
<1>4. ASSUME NEW v \in Worker
      PROVE  /\ worker'[v].version <= Current'
             /\ worker'[v].at # "idle" => run'[worker'[v].run].status # "none"
             /\ worker'[v].at \in Outside => worker'[v].page = 1
    <2>k. /\ worker[v].version <= Current
          /\ worker[v].at # "idle" => run[RunOf(v)].status # "none"
          /\ worker[v].at \in Outside => worker[v].page = 1
        BY DEF Known, At
    <2>1. CASE worker'[v] = worker[v]
        BY <2>1, <2>k, <1>1, <1>2, <1>s, <1>t DEF RunsKept, RunOf
    <2>2. CASE Off(v)
        <3>1. worker'[v].run \in Run
            BY <1>t3 DEF Local
        <3> QED BY <2>2, <3>1, <1>1, <1>2, <1>t DEF Off, RunsKept
    <2>3. CASE Advances(v) \/ Stores(v)
        BY <2>3, <2>k, <1>1, <1>2, <1>s, <1>t DEF Advances, Stores, RunsKept, RunOf, At, Outside
    <2> QED BY <2>1, <2>2, <2>3, EachWorker
<1>5. ASSUME NEW i \in DOMAIN published'
      PROVE  run'[published'[i].run].status # "none"
    <2>k. \A j \in DOMAIN published : published[j].run \in Run
                                     /\ run[published[j].run].status # "none"
        <3>1. \A j \in DOMAIN published : published[j].run \in Run
            BY <1>t, EntriesOfSeq
        <3> QED BY <3>1 DEF Known
    <2>1. CASE published' = published
        BY <2>1, <2>k, <1>2 DEF RunsKept
    <2>2. ASSUME NEW w \in Worker, Publishes(w)
          PROVE  run'[published'[i].run].status # "none"
        <3>1. run[RunOf(w)].status # "none"
            BY <2>2 DEF Publishes, Known, At
        <3> DEFINE entry == [run |-> RunOf(w), since |-> worker[w].since]
        <3>2. entry.run = RunOf(w) /\ entry \in [run : Run, since : Nat]
            BY <1>t, <1>s DEF Local
        <3>3. published' = Append(published, entry)
            BY <2>2 DEF Publishes
        <3> HIDE DEF entry
        <3>4. \/ i \in DOMAIN published /\ published'[i] = published[i]
              \/ published'[i] = entry
            BY <3>2, <3>3, <1>t, AppendProperties
        <3> QED BY <3>1, <3>2, <3>4, <2>k, <1>2, <1>s DEF RunsKept
    <2> QED
        BY <2>1, <2>2, WorkersStepKinds DEF WorkersStep, StoresNothing, Stores
<1> QED
    BY <1>3, <1>4, <1>5 DEF Known, At, RunOf

-----------------------------------------------------------------------------
\* A batch that was queued stays with its account.
LEMMA AccountStays ==
    ASSUME ReconciliationTypeOK, Known, [ReconciliationNext]_reconciliationVars,
           NEW r \in Run, run[r].status # "none"
    PROVE  AccountOf(r)' = AccountOf(r) /\ AccountOf(r) \in Account
<1>1. run[r].version \in 1..Current /\ run'[r].version = run[r].version
    <2>1. run[r].version \in Nat \ {0}
        BY DEF ReconciliationTypeOK, RunRow, Version
    <2>2. Current \in Nat
        BY DEF ReconciliationTypeOK, Version
    <2>3. run[r].version <= Current /\ run'[r].version = run[r].version
        BY TablesStep DEF Known, RunsKept
    <2> QED BY <2>1, <2>2, <2>3
<1>2. credentials \in Seq(Account)
    BY DEF ReconciliationTypeOK
<1>3. \/ credentials' = credentials
      \/ \E account \in Account : credentials' = Append(credentials, account)
    BY TablesStep DEF Rotates, CredentialsKept
<1>4. credentials'[run[r].version] = credentials[run[r].version]
    BY <1>1, <1>2, <1>3 DEF Current
<1> QED BY <1>1, <1>2, <1>4 DEF AccountOf, Current

\* Publications are kept, and one step adds at most one.
LEMMA PublishedStep ==
    ASSUME ReconciliationTypeOK, NEW w \in Worker, Publishes(w)
    PROVE  /\ Len(published) \in Nat
           /\ DOMAIN published = 1..Len(published)
           /\ DOMAIN published' = 1..(Len(published) + 1)
           /\ \A i \in DOMAIN published :
                 published'[i] = published[i] /\ published[i].run \in Run
           /\ published'[Len(published) + 1].run = RunOf(w)
           /\ published'[Len(published) + 1].since = worker[w].since
<1> DEFINE Entry == [run : Run, since : Nat]
           entry == [run |-> RunOf(w), since |-> worker[w].since]
<1>1. worker[w] \in Local /\ published \in Seq(Entry)
    BY DEF ReconciliationTypeOK
<1>2. entry.run = RunOf(w) /\ entry.since = worker[w].since /\ entry \in Entry
    BY <1>1 DEF Local, RunOf
<1>3. published' = Append(published, entry)
    BY DEF Publishes
<1>4. \A e \in Entry : e.run \in Run
    OBVIOUS
<1> HIDE DEF Entry, entry
<1>5. Len(published) \in Nat /\ DOMAIN published = 1..Len(published)
    BY <1>1
<1>6. \A i \in 1..Len(published) : published[i] \in Entry
    BY <1>1, ElementOfSeq
<1>7. Append(published, entry) \in Seq(Entry) /\ Len(Append(published, entry)) = Len(published) + 1
    BY <1>1, <1>2, AppendProperties
<1>8. DOMAIN published' = 1..(Len(published) + 1)
    BY <1>3, <1>7
<1>9. /\ \A i \in 1..Len(published) : published'[i] = published[i]
      /\ published'[Len(published) + 1] = entry
    BY <1>1, <1>2, <1>3, AppendProperties
<1> QED BY <1>2, <1>4, <1>5, <1>6, <1>8, <1>9

\* Pages and publications.
Once == PagesStored /\ Alone /\ Unpublished /\ PublishedAtMostOnce

\* No step publishes a batch twice: whoever is Ahead is so alone.
LEMMA OnceStep ==
    ASSUME ReconciliationTypeOK, Known, Once, [ReconciliationNext]_reconciliationVars
    PROVE  Once'
<1>t. /\ worker \in [Worker -> Local] /\ stored \in [Run -> 0..Pages]
      /\ published \in Seq([run : Run, since : Nat])
    BY DEF ReconciliationTypeOK
<1>p. \A w \in Worker : worker[w].page \in 1..Pages /\ RunOf(w) \in Run
    BY <1>t DEF Local, RunOf
<1>c. Pages \in Nat \ {0}
    BY ReconciliationConstants
<1>1. CASE StoresNothing /\ \A v \in Worker : worker'[v] = worker[v] \/ Off(v) \/ Advances(v)
    <2>1. \A v \in Worker : Ahead(v)' =>
             /\ Ahead(v) /\ worker'[v].run = worker[v].run
             /\ worker'[v].page = worker[v].page
             /\ worker'[v].at = "ready" <=> worker[v].at = "ready"
        BY <1>1 DEF Ahead, At, Off, Advances, RunOf
    <2>2. stored' = stored /\ published' = published
        BY <1>1 DEF StoresNothing
    <2>3. PagesStored'
        BY <2>1, <2>2 DEF Once, PagesStored, At, RunOf
    <2>4. Alone'
        BY <2>1 DEF Once, Alone, RunOf
    <2>5. Unpublished'
        BY <2>1, <2>2 DEF Once, Unpublished, RunOf
    <2>6. PublishedAtMostOnce'
        BY <2>2 DEF Once, PublishedAtMostOnce
    <2> QED BY <2>3, <2>4, <2>5, <2>6 DEF Once
<1>2. ASSUME NEW w \in Worker, Stores(w)
      PROVE  Once'
    <2> DEFINE r == RunOf(w)
    <2>1. /\ stored[r] = worker[w].page - 1
          /\ \A v \in Worker : Ahead(v) /\ RunOf(v) = r => v = w
          /\ \A i \in DOMAIN published : published[i].run # r
        <3>1. stored[r] < worker[w].page /\ stored[r] \in 0..Pages
            BY <1>2, <1>t, <1>p DEF Stores
        <3>2. CASE worker[w].page = 1
            <4>1. stored[r] = 0
                BY <3>1, <3>2
            <4>2. \A v \in Worker : Ahead(v) => stored[RunOf(v)] > 0
                BY <1>p, <1>c DEF Once, PagesStored, Ahead
            <4> QED BY <3>2, <4>1, <4>2, <1>c DEF Once, Unpublished
        <3>3. CASE worker[w].page > 1
            <4>1. Ahead(w) /\ ~At(w, "ready")
                BY <1>2, <3>3 DEF Stores, Ahead, At
            <4> QED BY <4>1 DEF Once, PagesStored, Alone, Unpublished
        <3> QED BY <3>2, <3>3, <1>p
    <2>2. \A v \in Worker : v # w => worker'[v] = worker[v]
        BY <1>2 DEF Stores, OthersStay
    <2>3. /\ worker'[w].run = r
          /\ stored'[r] = worker[w].page
          /\ worker'[w].at = "ready" => worker[w].page = Pages
          /\ worker'[w].at # "ready" => worker'[w].page = worker[w].page + 1
        BY <1>2, <1>p, <1>t DEF Stores
    <2>4. \A q \in Run : q # r => stored'[q] = stored[q]
        BY <1>2, <1>t DEF Stores
    <2>5. published' = published /\ \A i \in DOMAIN published : published[i].run \in Run
        <3>1. published' = published
            BY <1>2 DEF Stores
        <3> QED BY <3>1, <1>t, EntriesOfSeq
    <2> HIDE DEF r
    <2>6. PagesStored'
        <3> SUFFICES ASSUME NEW v \in Worker, Ahead(v)'
                     PROVE  stored'[worker'[v].run] =
                               IF worker'[v].at = "ready" THEN Pages ELSE worker'[v].page - 1
            BY DEF PagesStored, At, RunOf
        <3>1. CASE v = w
            BY <3>1, <2>3, <1>p
        <3>2. CASE v # w
            <4>1. worker'[v] = worker[v] /\ Ahead(v)
                BY <3>2, <2>2 DEF Ahead, At
            <4>2. RunOf(v) # r /\ RunOf(v) \in Run
                BY <3>2, <4>1, <2>1, <1>p
            <4> QED BY <4>1, <4>2, <2>4 DEF Once, PagesStored, At, RunOf
        <3> QED BY <3>1, <3>2
    <2>7. Alone'
        <3>1. \A v \in Worker : v # w /\ Ahead(v)' =>
                 Ahead(v) /\ RunOf(v) # r /\ worker'[v].run = RunOf(v)
            BY <2>1, <2>2 DEF Ahead, At, RunOf
        <3> QED BY <2>3, <3>1 DEF Once, Alone, RunOf
    <2>8. Unpublished'
        <3>1. \A i \in DOMAIN published : stored'[published[i].run] = Pages
            BY <2>1, <2>4, <2>5 DEF Once, Unpublished
        <3>2. \A i \in DOMAIN published, v \in Worker :
                 Ahead(v)' => worker'[v].run # published[i].run
            <4>1. \A v \in Worker : v # w /\ Ahead(v)' =>
                     Ahead(v) /\ worker'[v].run = RunOf(v)
                BY <2>2 DEF Ahead, At, RunOf
            <4> QED BY <2>1, <2>3, <4>1 DEF Once, Unpublished
        <3> QED BY <2>5, <3>1, <3>2 DEF Unpublished, RunOf
    <2>9. PublishedAtMostOnce'
        BY <2>5 DEF Once, PublishedAtMostOnce
    <2> QED BY <2>6, <2>7, <2>8, <2>9 DEF Once
<1>3. ASSUME NEW w \in Worker, Publishes(w)
      PROVE  Once'
    <2> DEFINE n == Len(published)
    <2>1. /\ n \in Nat /\ DOMAIN published = 1..n /\ DOMAIN published' = 1..(n + 1)
          /\ \A i \in DOMAIN published : published'[i] = published[i]
          /\ published'[n + 1].run = RunOf(w)
        BY <1>3, PublishedStep
    <2> HIDE DEF n
    <2>2. Ahead(w) /\ At(w, "ready")
        BY <1>3 DEF Publishes, Ahead
    <2>3. \A v \in Worker : Ahead(v)' =>
             v # w /\ Ahead(v) /\ worker'[v] = worker[v]
        BY <1>3 DEF Publishes, Off, OthersStay, Ahead, At
    <2>4. stored' = stored /\ stored[RunOf(w)] = Pages
        BY <1>3, <2>2 DEF Publishes, Once, PagesStored
    <2>5. PagesStored'
        BY <2>3, <2>4 DEF Once, PagesStored, At, RunOf
    <2>6. Alone'
        BY <2>3 DEF Once, Alone, RunOf
    <2>7. Unpublished'
        <3>1. \A v \in Worker : Ahead(v)' => worker'[v].run # RunOf(w)
            BY <2>2, <2>3 DEF Once, Alone, RunOf
        <3> QED BY <2>1, <2>3, <2>4, <3>1 DEF Once, Unpublished, RunOf
    <2>8. \A i \in DOMAIN published : published[i].run # RunOf(w)
        BY <2>2 DEF Once, Unpublished
    <2>9. \A i, j \in DOMAIN published' : published'[i].run = published'[j].run => i = j
        <3>1. \A i, j \in DOMAIN published : published[i].run = published[j].run => i = j
            BY DEF Once, PublishedAtMostOnce, IsInjective
        <3> QED BY <2>1, <2>8, <3>1
    <2>10. PublishedAtMostOnce'
        BY <2>9 DEF PublishedAtMostOnce, IsInjective
    <2> QED BY <2>5, <2>6, <2>7, <2>10 DEF Once
<1> QED
    <2>1. WorkersStep
        BY WorkersStepKinds
    <2>2. \A w \in Worker : Off(w) \/ Advances(w) => OthersStay(w)
        BY DEF Off, Advances
    <2> QED BY <2>1, <2>2, <1>1, <1>2, <1>3 DEF WorkersStep, OthersStay

\* What the provider answered.
LEMMA AnswersStep ==
    ASSUME ReconciliationTypeOK, Known, AnswersReached,
           [ReconciliationNext]_reconciliationVars
    PROVE  AnswersReached'
<1>t. worker \in [Worker -> Local] /\ Current \in Nat
    BY DEF ReconciliationTypeOK, Version
<1>p. \A w \in Worker : worker[w].page \in Nat /\ worker[w].version \in Nat
                          /\ worker[w].version <= Current
    BY <1>t, ReconciliationConstants DEF Local, Version, Known
<1>1. CASE Rotates
    <2>1. Current' = Current + 1
        <3>1. credentials \in Seq(Account)
            BY DEF ReconciliationTypeOK
        <3> QED BY <1>1, <3>1 DEF Rotates, Current
    <2>2. verified' = FALSE /\ worker' = worker /\ reached' = reached
        BY <1>1 DEF Rotates
    <2>3. \A w \in Worker : worker[w].version # Current'
        BY <2>1, <1>p, <1>t
    <2>4. \A w \in Worker : Answered(w) => worker[w].version \in reached
        BY DEF AnswersReached
    <2>5. \A w \in Worker : Answered(w)' = Answered(w)
        BY <2>2 DEF Answered
    <2> QED BY <2>2, <2>3, <2>4, <2>5, Zenon DEF AnswersReached
<1>2. CASE CredentialsKept
    <2>1. /\ Current' = Current /\ reached \subseteq reached'
          /\ verified => verified'
          /\ verified' => verified \/ \E w \in Worker : At(w, "answered")
                                                  /\ worker[w].version = Current
        BY <1>2 DEF CredentialsKept, Current
    <2>2. verified' => Current' \in reached'
        BY <2>1 DEF AnswersReached, Answered, At
    <2>3. ASSUME NEW v \in Worker
          PROVE  /\ Answered(v)' => worker'[v].version \in reached'
                 /\ Marked(v)' /\ worker'[v].version = Current' => verified'
        <3>k. /\ Answered(v) => worker[v].version \in reached
              /\ Marked(v) /\ worker[v].version = Current => verified
            BY DEF AnswersReached
        <3>1. CASE worker'[v] = worker[v]
            BY <3>1, <3>k, <2>1 DEF Answered, Marked
        <3>2. CASE Off(v)
            BY <3>2 DEF Off, Answered, Marked
        <3>3. CASE Advances(v)
            <4>1. worker[v].at \in Outside => worker[v].page = 1
                BY DEF Known
            <4> QED BY <3>3, <3>k, <4>1, <2>1, <1>p
                    DEF Advances, Answered, Marked, At, Outside
        <3>4. CASE Stores(v)
            BY <3>4, <3>k, <2>1, <1>p DEF Stores, Answered, Marked, At
        <3> QED BY <3>1, <3>2, <3>3, <3>4, EachWorker
    <2> QED BY <2>2, <2>3 DEF AnswersReached
<1> QED BY <1>1, <1>2, TablesStep

\* A worker that has its lease when a step is over, and downloads, had it before.
LEMMA HoldsBefore ==
    ASSUME ReconciliationTypeOK, Known, [ReconciliationNext]_reconciliationVars,
           NEW w \in Worker, ~At(w, "idle"), worker'[w].run = RunOf(w),
           worker'[w].at \notin Outside, Holds(w)'
    PROVE  Holds(w)
<1>1. RunOf(w) \in Run /\ run[RunOf(w)].status # "none"
    BY DEF ReconciliationTypeOK, Known, RunOf, Local
<1> DEFINE account == AccountOf(RunOf(w))
<1>2. AccountOf(RunOf(w))' = account /\ account \in Account
    <2>1. RunOf(w)' = RunOf(w)
        BY DEF RunOf
    <2>2. AccountOf(RunOf(w)') = AccountOf(RunOf(w)')
        OBVIOUS
    <2>3. credentials'[run'[RunOf(w)].version] = account /\ account \in Account
        BY <1>1, AccountStays DEF AccountOf
    <2> QED BY <2>1, <2>3 DEF AccountOf
<1>3. lease'[account].owner = w /\ lease'[account].live
    BY <1>2 DEF Holds, LeaseOf
<1>4. lease'[account] \in [owner : Worker \cup {Nobody}, live : BOOLEAN]
    BY <1>2, TypeStep DEF ReconciliationTypeOK
<1> HIDE DEF account
<1>5. lease'[account] = [owner |-> w, live |-> TRUE]
    BY <1>3, <1>4
<1>6. lease[account] = [owner |-> w, live |-> TRUE]
    BY <1>2, <1>5, TablesStep DEF LeaseKept
<1> QED BY <1>6 DEF Holds, LeaseOf, account

Ordered == SinceHolds /\ PublishedInDownloadOrder

\* Only the owner of a live lease publishes for an account.
LEMMA OrderedStep ==
    ASSUME ReconciliationTypeOK, Known, Ordered,
           [ReconciliationNext]_reconciliationVars
    PROVE  Ordered'
<1>t. /\ worker \in [Worker -> Local] /\ published \in Seq([run : Run, since : Nat])
      /\ lease \in [Account -> [owner : Worker \cup {Nobody}, live : BOOLEAN]]
    BY DEF ReconciliationTypeOK
<1>a. \A r \in Run : run[r].status # "none" => AccountOf(r)' = AccountOf(r)
    BY AccountStays
<1>r. \A w \in Worker : ~At(w, "idle") =>
         RunOf(w) \in Run /\ run[RunOf(w)].status # "none"
    BY <1>t DEF Known, RunOf, Local
<1>e. \A i \in DOMAIN published :
         published[i].run \in Run /\ run[published[i].run].status # "none"
    BY <1>t, EntriesOfSeq DEF Known
<1>g. \A w \in Worker : worker[w].page \in Nat /\ (worker[w].at \in Outside => worker[w].page = 1)
    BY <1>t, ReconciliationConstants DEF Known, Local
<1>h. ASSUME NEW v \in Worker, Downloading(v)', Holds(v)'
      PROVE  /\ ~At(v, "idle")
             /\ worker'[v].run = RunOf(v) => Holds(v) /\ AccountOf(RunOf(v))' = AccountOf(RunOf(v))
    <2>1. Known'
        BY KnownStep
    <2>2. worker'[v].at \notin Outside
        BY <2>1, <1>h DEF Known, Downloading, Outside
    <2>3. ~At(v, "idle")
        <3>1. CASE worker'[v] = worker[v]
            BY <2>2, <3>1 DEF At, Outside
        <3>2. CASE Off(v)
            BY <2>2, <3>2 DEF Off, Outside
        <3>3. CASE Advances(v) \/ Stores(v)
            BY <3>3 DEF Advances, Stores, At
        <3> QED BY <3>1, <3>2, <3>3, EachWorker
    <2>4. ASSUME worker'[v].run = RunOf(v)
          PROVE  Holds(v) /\ AccountOf(RunOf(v))' = AccountOf(RunOf(v))
        <3>1. Holds(v)
            BY <1>h, <2>2, <2>3, <2>4, HoldsBefore
        <3>2. RunOf(v)' = RunOf(v)
            BY <2>4 DEF RunOf
        <3>3. credentials'[run'[RunOf(v)].version] = credentials[run[RunOf(v)].version]
            BY <1>a, <1>r, <2>3 DEF AccountOf
        <3> QED BY <3>1, <3>2, <3>3 DEF AccountOf
    <2> QED BY <2>3, <2>4
<1>i. \A i \in DOMAIN published :
         credentials'[run'[published[i].run].version] = credentials[run[published[i].run].version]
    BY <1>a, <1>e DEF AccountOf
<1>1. ASSUME published' = published
      PROVE  Ordered'
    <2>2. PublishedInDownloadOrder'
        <3> SUFFICES ASSUME NEW i \in DOMAIN published
                     PROVE  published[i].since =
                                Cardinality({j \in 1..(i - 1) :
                                    credentials'[run'[published[j].run].version] =
                                    credentials'[run'[published[i].run].version]})
            BY <1>1 DEF PublishedInDownloadOrder, AccountOf
        <3>1. \A j \in 1..(i - 1) : j \in DOMAIN published
            BY <1>t
        <3>2. {j \in 1..(i - 1) : credentials'[run'[published[j].run].version] =
                                  credentials'[run'[published[i].run].version]}
                = {j \in 1..(i - 1) : credentials[run[published[j].run].version] =
                                      credentials[run[published[i].run].version]}
            BY <1>i, <3>1
        <3> QED BY <3>2 DEF Ordered, PublishedInDownloadOrder, AccountOf
    <2>3. SinceHolds'
        <3> SUFFICES ASSUME NEW v \in Worker, Downloading(v)', Holds(v)'
                     PROVE  worker'[v].since = PublishedFor(AccountOf(RunOf(v)))'
            BY DEF SinceHolds
        <3>1. \/ worker'[v] = worker[v]
              \/ Advances(v)
              \/ Stores(v)
            <4>1. ~Off(v)
                BY DEF Off, Downloading
            <4> QED BY <4>1, EachWorker
        <3>2. worker'[v].run = RunOf(v)
            BY <3>1 DEF Advances, Stores, RunOf
        <3>3. Holds(v) /\ AccountOf(RunOf(v))' = AccountOf(RunOf(v))
            BY <1>h, <3>2
        <3>4. PublishedFor(AccountOf(RunOf(v)))' = PublishedFor(AccountOf(RunOf(v)))
            <4>1. credentials'[run'[worker'[v].run].version]
                     = credentials[run[worker[v].run].version]
                BY <3>3 DEF AccountOf, RunOf
            <4>2. {i \in DOMAIN published' : credentials'[run'[published'[i].run].version]
                                             = credentials'[run'[worker'[v].run].version]}
                    = {i \in DOMAIN published : credentials[run[published[i].run].version]
                                                = credentials[run[worker[v].run].version]}
                BY <1>1, <1>i, <4>1
            <4> QED BY <4>2 DEF PublishedFor, AccountOf, RunOf
        <3>5. Downloading(v) => worker[v].since = PublishedFor(AccountOf(RunOf(v)))
            BY <3>3 DEF Ordered, SinceHolds
        <3>6. \/ Downloading(v) /\ worker'[v].since = worker[v].since
              \/ worker'[v].since = PublishedFor(AccountOf(RunOf(v)))
            <4>1. \/ worker'[v].at \in {"waiting", "answered", "marked", "ready"}
                  \/ worker'[v].page > 1
                BY DEF Downloading
            <4>2. worker[v].page \in Nat \ {0} /\ (worker[v].at \in Outside => worker[v].page = 1)
                BY <1>g, <1>t, ReconciliationConstants DEF Local
            <4>3. CASE worker'[v] = worker[v]
                BY <4>1, <4>3 DEF Downloading
            <4>4. CASE Advances(v)
                BY <4>1, <4>2, <4>4 DEF Advances, Downloading, At, Outside
            <4>5. CASE Stores(v)
                BY <4>5 DEF Stores, Downloading, At
            <4> QED BY <3>1, <4>3, <4>4, <4>5
        <3> QED BY <3>4, <3>5, <3>6
    <2> QED BY <2>2, <2>3 DEF Ordered
<1>2. ASSUME NEW w \in Worker, Publishes(w)
      PROVE  Ordered'
    <2> DEFINE n == Len(published)
               a == credentials[run[RunOf(w)].version]
    <2>1. /\ n \in Nat /\ DOMAIN published = 1..n /\ DOMAIN published' = 1..(n + 1)
          /\ \A i \in DOMAIN published : published'[i] = published[i]
          /\ published'[n + 1].run = RunOf(w)
          /\ published'[n + 1].since = worker[w].since
        BY <1>2, PublishedStep
    <2>2. Holds(w) /\ Downloading(w) /\ ~At(w, "idle")
        BY <1>2 DEF Publishes, MayPublish, Downloading, At
    <2>3. worker[w].since =
             Cardinality({i \in 1..n : credentials[run[published[i].run].version] = a})
        BY <2>1, <2>2 DEF Ordered, SinceHolds, PublishedFor, AccountOf
    <2>4. credentials'[run'[RunOf(w)].version] = a
        BY <1>a, <1>r, <2>2 DEF AccountOf
    <2>o. lease[a].owner = w
        BY <2>2 DEF Holds, LeaseOf, AccountOf
    <2> HIDE DEF n, a
    <2>5. ASSUME NEW i \in 1..(n + 1)
          PROVE  published'[i].since =
                    Cardinality({j \in 1..(i - 1) :
                        credentials'[run'[published'[j].run].version] =
                        credentials'[run'[published'[i].run].version]})
        <3>1. CASE i = n + 1
            <4>1. {j \in 1..(i - 1) : credentials'[run'[published'[j].run].version] =
                                      credentials'[run'[published'[i].run].version]}
                    = {j \in 1..n : credentials[run[published[j].run].version] = a}
                BY <3>1, <2>1, <2>4, <1>i
            <4> QED BY <4>1, <3>1, <2>1, <2>3
        <3>2. CASE i \in 1..n
            <4>1. {j \in 1..(i - 1) : credentials'[run'[published'[j].run].version] =
                                      credentials'[run'[published'[i].run].version]}
                    = {j \in 1..(i - 1) : credentials[run[published[j].run].version] =
                                          credentials[run[published[i].run].version]}
                <5>1. \A j \in 1..(i - 1) : j \in 1..n
                    BY <3>2, <2>1
                <5> QED BY <3>2, <5>1, <2>1, <1>i
            <4>2. published[i].since =
                     Cardinality({j \in 1..(i - 1) :
                        credentials[run[published[j].run].version] =
                        credentials[run[published[i].run].version]})
                BY <3>2, <2>1 DEF Ordered, PublishedInDownloadOrder, AccountOf
            <4> QED BY <3>2, <4>1, <4>2, <2>1
        <3>3. i = n + 1 \/ i \in 1..n
            BY <2>1
        <3> QED BY <3>1, <3>2, <3>3
    <2>6. PublishedInDownloadOrder'
        BY <2>1, <2>5 DEF PublishedInDownloadOrder, AccountOf
    <2>7. SinceHolds'
        <3> SUFFICES ASSUME NEW v \in Worker, Downloading(v)', Holds(v)'
                     PROVE  worker'[v].since = PublishedFor(AccountOf(RunOf(v)))'
            BY DEF SinceHolds
        <3>1. v # w /\ worker'[v] = worker[v]
            BY <1>2 DEF Publishes, Off, OthersStay, Downloading
        <3>2. worker'[v].run = RunOf(v)
            BY <3>1 DEF RunOf
        <3>3. Holds(v) /\ AccountOf(RunOf(v))' = AccountOf(RunOf(v))
            BY <1>h, <3>2
        <3> DEFINE b == credentials[run[RunOf(v)].version]
        <3>4. b # a /\ AccountOf(RunOf(v))' = b
            BY <3>1, <3>3, <2>o DEF Holds, LeaseOf, AccountOf
        <3>5. worker[v].since =
                 Cardinality({i \in DOMAIN published :
                                credentials[run[published[i].run].version] = b})
            <4>1. Downloading(v)
                BY <3>1 DEF Downloading
            <4> QED BY <4>1, <3>3 DEF Ordered, SinceHolds, PublishedFor, AccountOf
        <3> HIDE DEF b
        <3>6. {i \in DOMAIN published' : credentials'[run'[published'[i].run].version] = b}
                = {i \in DOMAIN published : credentials[run[published[i].run].version] = b}
            BY <3>4, <2>1, <2>4, <1>i
        <3>7. PublishedFor(AccountOf(RunOf(v)))' =
                 Cardinality({i \in DOMAIN published' :
                                credentials'[run'[published'[i].run].version] = b})
            <4>1. credentials'[run'[worker'[v].run].version] = b
                BY <3>4 DEF AccountOf, RunOf
            <4> QED BY <4>1 DEF PublishedFor, AccountOf, RunOf
        <3> QED BY <3>1, <3>5, <3>6, <3>7
    <2> QED BY <2>6, <2>7 DEF Ordered
<1> QED
    BY <1>1, <1>2, WorkersStepKinds DEF WorkersStep, StoresNothing, Stores

-----------------------------------------------------------------------------
\* The inductive invariant.
Inv == ReconciliationTypeOK /\ Known /\ Once /\ AnswersReached /\ Ordered

\* It holds at first ...
LEMMA InitInv == ReconciliationInit => Inv
<1> SUFFICES ASSUME ReconciliationInit PROVE Inv
    OBVIOUS
<1>1. \A w \in Worker : worker[w].page = 1 /\ worker[w].at = "idle"
    BY DEF ReconciliationInit, Idle
<1>2. DOMAIN published = {} /\ verified = FALSE
    BY DEF ReconciliationInit
<1>3. Once
    BY <1>1, <1>2 DEF Once, PagesStored, Alone, Unpublished, PublishedAtMostOnce, IsInjective,
                      Ahead, At
<1>4. AnswersReached
    BY <1>1, <1>2 DEF AnswersReached, Answered, Marked
<1>5. Ordered
    BY <1>1, <1>2 DEF Ordered, SinceHolds, Downloading, PublishedInDownloadOrder
<1> QED BY <1>3, <1>4, <1>5, InitTypes DEF Inv

\* ... and every step preserves it.
LEMMA InvStep == Inv /\ [ReconciliationNext]_reconciliationVars => Inv'
BY TypeStep, KnownStep, OnceStep, AnswersStep, OrderedStep DEF Inv

\* So it holds in every reachable state.
THEOREM AlwaysInv == ReconciliationSpec => []Inv
BY InitInv, InvStep, PTL DEF ReconciliationSpec

\* Every reachable state is well typed: batches, leases and the locals of
\* every instance, whatever crashes and rotations come in between.
THEOREM ReconciliationTypeCorrect == ReconciliationSpec => []ReconciliationTypeOK
<1>1. Inv => ReconciliationTypeOK
    BY DEF Inv
<1> QED BY <1>1, AlwaysInv, PTL

\* A batch is published at most once, however many instances pick it: the pages
\* it stores are unique, so only one instance ever gets past its first.
THEOREM AlwaysPublishedAtMostOnce == ReconciliationSpec => []PublishedAtMostOnce
<1>1. Inv => PublishedAtMostOnce
    BY DEF Inv, Once
<1> QED BY <1>1, AlwaysInv, PTL

\* Reports of an account are published in the order of their downloads: only
\* the owner of its live lease publishes, and no other has had it since.
THEOREM AlwaysPublishedInDownloadOrder ==
    ReconciliationSpec => []PublishedInDownloadOrder
<1>1. Inv => PublishedInDownloadOrder
    BY DEF Inv, Ordered
<1> QED BY <1>1, AlwaysInv, PTL

\* A verified account was reached under its current version.
THEOREM VerifiedAlwaysReached == ReconciliationSpec => []VerifiedWasReached
<1>1. Inv => VerifiedWasReached
    BY DEF Inv, AnswersReached, VerifiedWasReached
<1> QED BY <1>1, AlwaysInv, PTL

\* A run that may publish has verified its account.
THEOREM AlwaysPublishesVerified == ReconciliationSpec => []PublishesVerified
<1>1. Inv => PublishesVerified
    BY DEF Inv, AnswersReached, Marked, PublishesVerified, MayPublish, At
<1> QED BY <1>1, AlwaysInv, PTL
=============================================================================
