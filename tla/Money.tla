------------------------------- MODULE Money -------------------------------
(***************************************************************************)
(* The arithmetic of finance/domain/money.ts, in whole dong (bigint, so    *)
(* without overflow): how a net amount is divided over the commissions of  *)
(* a settlement, and how one commission is divided between the user and    *)
(* the platform.  Both truncate, so each gives the remainder to somebody.  *)
(***************************************************************************)
EXTENDS Integers, FiniteSetsExt

BasisPoints == 0..10000

\* The sum of f over the members of S.
Total(f, S) == MapThenSumSet(LAMBDA x : f[x], S)

\* Mutant of SplitCashback: the platform's part is truncated by itself.
SplitTruncatingBoth(net, bps) ==
    [user     |-> (net * bps) \div 10000,
     platform |-> (net * (10000 - bps)) \div 10000]

SplitCashback(net, bps) ==
    LET user == (net * bps) \div 10000 IN [user |-> user, platform |-> net - user]

\* The proportional part of x, whose weight is weight[x].
Share(net, weight, x) == (net * weight[x]) \div Total(weight, DOMAIN weight)

\* What allocateNet returns: everyone gets the proportional part and the last
\* one what is left.
AllocateNet(net, weight, last) ==
    [x \in DOMAIN weight |->
        IF x = last
        THEN net - MapThenSumSet(LAMBDA y : Share(net, weight, y),
                                 DOMAIN weight \ {last})
        ELSE Share(net, weight, x)]
=============================================================================
