---------------------------- MODULE MCSettlement ----------------------------
(***************************************************************************)
(* What the provider reports in the two instances: a paid order, one that  *)
(* waits for its commission, a partly cancelled one, a cancelled one, and  *)
(* a paid one that arrived without a usable link.                          *)
(***************************************************************************)
EXTENDS Settlement

CONSTANTS a1, a2, o1, o2, u1, u2, l1, l2, s1, s2, shop

Reported(code, label, amount) ==
    [code |-> code, label |-> label, commission |-> amount, affiliate |-> shop]

Paid      == [items |-> <<Reported("completed", "PAID", 7)>>, link |-> l1, data |-> {}]
Pending   == [items |-> <<Reported("completed", "PENDING", 7)>>, link |-> l1, data |-> {}]
Unlinked  == [items |-> <<Reported("completed", "PAID", 7)>>, link |-> Nobody, data |-> {}]
Partial   == [items |-> <<Reported("completed", "PAID", 4), Reported("cancelled", "PAID", 0)>>,
              link |-> l2, data |-> {}]
Cancelled == [items |-> <<Reported("cancelled", "REJECTED", 0)>>, link |-> l1, data |-> {}]

TwoOrders    == {a1} \X {o1, o2}
TwoProviders == {a1, a2} \X {o1}
AllReports      == {Paid, Pending, Unlinked, Partial, Cancelled}
ProviderReports == AllReports \ {Partial}

Owner  == l1 :> u1
Owners == (l1 :> u1) @@ (l2 :> u2)

OrderSymmetry    == Permutations({o1, o2}) \cup Permutations({s1, s2})
ProviderSymmetry == Permutations({a1, a2}) \cup Permutations({s1, s2})
=============================================================================
