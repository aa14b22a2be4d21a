------------------------------- MODULE Account -------------------------------
(***************************************************************************)
(* What the money of the backend promises its users, without wallets,      *)
(* reserves, settlements or reviews.  Every user has an amount that is     *)
(* free to spend.  Entries, which are only ever added, change it.  A claim *)
(* takes an amount that is free and holds it; once, it is either paid out  *)
(* or returned.                                                            *)
(***************************************************************************)
EXTENDS Integers, FiniteSetsExt

CONSTANTS
    User,
    Claim,      \* the claims users may make
    Claimant,   \* Claimant[c]: whose claim c is
    Amount      \* the amounts a claim may ask for

VARIABLES
    free,       \* free[u]: what u may claim; negative when u owes money
    claim,      \* claim[c]: its status and amount
    entries     \* records of a user and an amount, with whatever names them

accountVars == <<free, claim, entries>>

AccountInit ==
    /\ free = [u \in User |-> 0]
    /\ claim = [c \in Claim |-> [status |-> "none", amount |-> 0]]
    /\ entries = {}

Moved(u, rows) ==
    MapThenSumSet(LAMBDA row : row.available, {row \in rows : row.user = u})

\* New entries move exactly what they say.
Enter ==
    /\ entries \subseteq entries'
    /\ free' = [u \in User |-> free[u] + Moved(u, entries' \ entries)]
    /\ UNCHANGED claim

Hold(c, amount) ==
    /\ claim[c].status = "none"
    /\ amount <= free[Claimant[c]]
    /\ free' = [free EXCEPT ![Claimant[c]] = @ - amount]
    /\ claim' = [claim EXCEPT ![c] = [status |-> "held", amount |-> amount]]
    /\ UNCHANGED entries

Pay(c) ==
    /\ claim[c].status = "held"
    /\ claim' = [claim EXCEPT ![c].status = "paid"]
    /\ UNCHANGED <<free, entries>>

Return(c) ==
    /\ claim[c].status = "held"
    /\ free' = [free EXCEPT ![Claimant[c]] = @ + claim[c].amount]
    /\ claim' = [claim EXCEPT ![c].status = "returned"]
    /\ UNCHANGED entries

AccountNext ==
    \/ Enter
    \/ \E c \in Claim, amount \in Amount : Hold(c, amount)
    \/ \E c \in Claim : Pay(c) \/ Return(c)

AccountSpec == AccountInit /\ [][AccountNext]_accountVars
=============================================================================
