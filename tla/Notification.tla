---------------------------- MODULE Notification ----------------------------
(***************************************************************************)
(* Notifications, announcements and pushes: notify and notifyAdmins, which *)
(* the money services call inside their transactions, NotificationsService,*)
(* DeviceTokensController and FirebaseMessagingService, and the retry loop *)
(* of FinanceRepository.transaction that all of them run in.               *)
(*                                                                         *)
(* A transaction runs its body on a snapshot and then commits, or fails    *)
(* with a conflict and runs its body again.  The pushes of notify leave    *)
(* while the body runs, whatever becomes of it; those of an announcement   *)
(* leave when the transaction is over.  Only the notifications of a body   *)
(* are modelled here; what else it writes is in the modules of the money.  *)
(***************************************************************************)
EXTENDS Naturals, FiniteSets

CONSTANTS
    Person,     \* accounts
    Admin,      \* those whose role is ADMIN or SUPER_ADMIN
    Event,      \* event keys; that of an announcement stands for its send key
    Req,        \* requests that run a transaction
    Wants,      \* Wants[r]: what the transaction of r notifies
    Retries,    \* how often FinanceRepository.transaction starts over
    Token,      \* device tokens
    Everyone,   \* the target ALL
    NoOne       \* no owner, nothing sent

Wish == [kind : {"user"}, event : Event, to : Person]
            \cup [kind : {"admins"}, event : Event]
            \cup [kind : {"send"}, event : Event, to : Person \cup {Everyone}, text : Nat]

ASSUME NotificationConstants ==
    /\ Admin \subseteq Person
    /\ Wants \in [Req -> Wish]
    /\ Retries \in Nat
    /\ IsFiniteSet(Person)
    \* The key of an announcement is "manual:" and its send key; no other begins so.
    /\ \A r, q \in Req : Wants[r].kind = "send" /\ Wants[r].event = Wants[q].event =>
                             Wants[q].kind = "send"
    /\ NoOne \notin Person \cup {Everyone}
    /\ NoOne \notin [to : Person \cup {Everyone}, text : Nat, count : Nat]

VARIABLES
    active,     \* accounts whose status is ACTIVE
    notice,     \* notice[p][e]: the notification of p for e
    sent,       \* sent[e]: the row of announcement e, NoOne before it is made
    tx,         \* tx[r]: how far request r is
    push,       \* pushes on their way
    device      \* device[t]: who registered token t

notificationVars == <<active, notice, sent, tx, push, device>>

Push == [event : Event, to : SUBSET Person, begun : BOOLEAN, tokens : SUBSET Token]
TxStage == {"unused", "waiting", "begun", "ran", "replayed", "done", "refused", "failed"}

NotificationTypeOK ==
    /\ active \subseteq Person
    /\ notice \in [Person -> [Event -> {"none", "unread", "read"}]]
    /\ sent \in [Event -> {NoOne} \cup
                     [to : Person \cup {Everyone}, text : Nat, count : Nat]]
    /\ tx \in [Req -> [stage : TxStage, attempt : 0..Retries,
                       seen : SUBSET Person, answer : Nat]]
    /\ push \subseteq Push
    /\ device \in [Token -> Person \cup {NoOne}]

NotBegun(stage) == [stage |-> stage, attempt |-> 0, seen |-> {}, answer |-> 0]

\* Requests outside rs are not made in this behaviour.
NotificationInit(rs) ==
    /\ active = Person
    /\ notice = [p \in Person |-> [e \in Event |-> "none"]]
    /\ sent = [e \in Event |-> NoOne]
    /\ tx = [r \in Req |-> NotBegun(IF r \in rs THEN "waiting" ELSE "unused")]
    /\ push = {}
    /\ device = [t \in Token |-> NoOne]

-----------------------------------------------------------------------------
\* The transaction of a request.
Begin(r) ==
    /\ tx[r].stage = "waiting"
    /\ tx' = [tx EXCEPT ![r].stage = "begun"]
    /\ UNCHANGED <<active, notice, sent, push, device>>

\* Who is notified, as the snapshot has it.  An announcement is for users only.
Recipients(want) ==
    CASE want.kind = "user"   -> {want.to}
      [] want.kind = "admins" -> Admin \cap active
      [] want.kind = "send"   -> (active \ Admin)
                                    \cap (IF want.to = Everyone THEN Person ELSE {want.to})

Leaves(e, to) ==
    push' = IF to = {} THEN push
            ELSE push \cup {[event |-> e, to |-> to, begun |-> FALSE, tokens |-> {}]}

\* notify, notifyAdmins: the rows wait for the commit, the push does not.
NotifyBody(r) ==
    LET want == Wants[r]
        to   == Recipients(want)
    IN /\ want.kind \in {"user", "admins"}
       /\ tx' = [tx EXCEPT ![r].stage = "ran", ![r].seen = to]
       /\ Leaves(want.event, to)

\* send: a key that was used answers again for the same announcement, and is
\* refused for another; a single recipient has to be an active user.
SendBody(r) ==
    LET want  == Wants[r]
        prior == sent[want.event]
        to    == Recipients(want)
    IN /\ want.kind = "send"
       /\ tx' = [tx EXCEPT ![r] =
             CASE prior # NoOne /\ prior.to = want.to /\ prior.text = want.text ->
                    [@ EXCEPT !.stage = "replayed", !.answer = prior.count]
               [] prior # NoOne /\ (prior.to # want.to \/ prior.text # want.text) ->
                    [@ EXCEPT !.stage = "refused"]
               [] prior = NoOne /\ want.to # Everyone /\ to = {} ->
                    [@ EXCEPT !.stage = "refused"]
               [] OTHER -> [@ EXCEPT !.stage = "ran", !.seen = to]]
       /\ UNCHANGED push

RunBody(r) ==
    /\ tx[r].stage = "begun"
    /\ NotifyBody(r) \/ SendBody(r)
    /\ UNCHANGED <<active, notice, sent, device>>

\* Mutant of Overtaken: the key of a send is not unique.
NeverOvertaken(r) == FALSE

\* Another transaction made the announcement since this one looked.
Overtaken(r) == Wants[r].kind = "send" /\ sent[Wants[r].event] # NoOne

\* Mutant of Inserted: a row that is there already is written again.
InsertedAnew(row, e) == [row EXCEPT ![e] = "unread"]

\* A row that is there already is left as it is.
Inserted(row, e) == [row EXCEPT ![e] = IF @ = "none" THEN "unread" ELSE @]

\* The rows appear, and with them the answer; an announcement is pushed now,
\* to all devices when it is for everyone.
Commit(r) ==
    LET want == Wants[r]
        new  == {p \in tx[r].seen : notice[p][want.event] = "none"}
    IN /\ tx[r].stage = "ran"
       /\ ~Overtaken(r)
       /\ notice' = [p \in Person |-> IF p \in tx[r].seen
                                      THEN Inserted(notice[p], want.event) ELSE notice[p]]
       /\ tx' = [tx EXCEPT ![r].stage = "done", ![r].answer = Cardinality(new)]
       /\ IF want.kind = "send"
          THEN /\ sent' = [sent EXCEPT ![want.event] =
                     [to |-> want.to, text |-> want.text, count |-> Cardinality(new)]]
               /\ Leaves(want.event, IF want.to = Everyone THEN Person ELSE {want.to})
          ELSE UNCHANGED <<sent, push>>
       /\ UNCHANGED <<active, device>>

\* A repeated send is pushed again.
Replay(r) ==
    /\ tx[r].stage = "replayed"
    /\ tx' = [tx EXCEPT ![r].stage = "done"]
    /\ Leaves(Wants[r].event, IF Wants[r].to = Everyone THEN Person ELSE {Wants[r].to})
    /\ UNCHANGED <<active, notice, sent, device>>

\* A conflict (P2034) or a unique violation (P2002) starts the body over, three
\* times at most; then it surfaces.
AfterConflict(old) ==
    IF old.attempt < Retries
    THEN [old EXCEPT !.stage = "begun", !.attempt = @ + 1, !.seen = {}]
    ELSE [old EXCEPT !.stage = "failed"]

Conflict(r) ==
    /\ tx[r].stage \in {"ran", "replayed"}
    /\ tx' = [tx EXCEPT ![r] = AfterConflict(@)]
    /\ UNCHANGED <<active, notice, sent, push, device>>

\* Any other error, the timeout of the transaction among them.
Fail(r) ==
    /\ tx[r].stage \in {"begun", "ran", "replayed"}
    /\ tx' = [tx EXCEPT ![r].stage = "failed"]
    /\ UNCHANGED <<active, notice, sent, push, device>>

Proceed(r) == RunBody(r) \/ Commit(r) \/ Replay(r) \/ Conflict(r) \/ Fail(r)

-----------------------------------------------------------------------------
\* read and readAll
Read(p, es) ==
    /\ \E e \in es : notice[p][e] = "unread"
    /\ notice' = [notice EXCEPT ![p] = [e \in Event |->
          IF e \in es /\ @[e] = "unread" THEN "read" ELSE @[e]]]
    /\ UNCHANGED <<active, sent, tx, push, device>>

\* A token belongs to whoever registered it last; only he can unregister it.
Register(t, p) ==
    /\ p \in active
    /\ device' = [device EXCEPT ![t] = p]
    /\ UNCHANGED <<active, notice, sent, tx, push>>

Unregister(t, p) ==
    /\ device[t] = p
    /\ device' = [device EXCEPT ![t] = NoOne]
    /\ UNCHANGED <<active, notice, sent, tx, push>>

\* sendToUsers, sendToAllUsers: the tokens are read, sent to, and those that
\* Firebase calls invalid are deleted, whoever has them by then.
PushBegin(m) ==
    /\ m \in push /\ ~m.begun
    /\ push' = (push \ {m}) \cup
          {[m EXCEPT !.begun = TRUE, !.tokens = {t \in Token : device[t] \in m.to}]}
    /\ UNCHANGED <<active, notice, sent, tx, device>>

PushEnd(m, invalid) ==
    /\ m \in push /\ m.begun
    /\ push' = push \ {m}
    /\ device' = [t \in Token |-> IF t \in invalid THEN NoOne ELSE device[t]]
    /\ UNCHANGED <<active, notice, sent, tx>>

Deactivate(p) ==
    /\ active' = active \ {p}
    /\ UNCHANGED <<notice, sent, tx, push, device>>

NotificationNext ==
    \/ \E r \in Req : Begin(r) \/ Proceed(r)
    \/ \E p \in Person : Deactivate(p) \/ Read(p, Event)
    \/ \E p \in Person, e \in Event : Read(p, {e})
    \/ \E p \in Person, t \in Token : Register(t, p) \/ Unregister(t, p)
    \/ \E m \in push : PushBegin(m)
    \/ \E m \in push : \E invalid \in SUBSET m.tokens : PushEnd(m, invalid)

NotificationSpec ==
    (\E rs \in SUBSET Req : NotificationInit(rs)) /\ [][NotificationNext]_notificationVars

-----------------------------------------------------------------------------
\* An announcement is made once, however often its request is sent, repeated
\* or started over: the users who have it are as many as its row and every
\* answer say, they are users and not admins, and before there is a row nobody
\* has it and no push of it leaves.
AnnouncedOnce ==
    \A r \in Req : Wants[r].kind = "send" =>
        LET e   == Wants[r].event
            has == {p \in Person : notice[p][e] # "none"}
        IN /\ has \cap Admin = {}
           /\ IF sent[e] = NoOne
              THEN /\ has = {} /\ tx[r].stage # "done"
                   /\ \A m \in push : m.event # e
              ELSE /\ Cardinality(has) = sent[e].count
                   /\ tx[r].stage = "done" => tx[r].answer = sent[e].count

\* A notification that was read stays read: repeated reports, retried bodies
\* and repeated announcements never raise it again, and none disappears.
ReadStaysRead ==
    [][\A p \in Person, e \in Event :
          /\ notice[p][e] = "read" => notice'[p][e] = "read"
          /\ notice[p][e] # "none" => notice'[p][e] # "none"]_notificationVars
=============================================================================
