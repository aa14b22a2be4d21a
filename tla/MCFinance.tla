------------------------------ MODULE MCFinance ------------------------------
(***************************************************************************)
(* One order of one account whose link belongs to one user, and two        *)
(* withdrawals: an order is paid, withdrawn and cancelled, in any order,   *)
(* while admins adjust the wallet in both directions.                      *)
(***************************************************************************)
EXTENDS Pages

CONSTANTS a1, o1, u1, u2, l1, s1, b1, j1, k1, k2, shop

Reported(code, label, amount) ==
    [code |-> code, label |-> label, commission |-> amount, affiliate |-> shop]

Paid      == [items |-> <<Reported("completed", "PAID", 4)>>, link |-> l1, data |-> {}]
Cancelled == [items |-> <<Reported("cancelled", "REJECTED", 0)>>, link |-> l1, data |-> {}]

Unlinked  == [items |-> <<Reported("completed", "PAID", 4)>>, link |-> Nobody, data |-> {}]

Reports          == {Paid, Unlinked, Cancelled}
OneCheckout      == {<<a1, o1>>}
OwnerOfLink      == l1 :> u1
BothAdjustments  == {-3, 2}

RequestSymmetry  == Permutations({k1, k2})
=============================================================================
