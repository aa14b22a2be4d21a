------------------------------- MODULE MCParts -------------------------------
(***************************************************************************)
(* Four parts that share no state and depend on the rest of the system     *)
(* only for their inputs: the division of a net amount, the download of a  *)
(* report, products with their links, and notifications.  A behaviour is   *)
(* one of any of them, and the others stay as they are.                    *)
(***************************************************************************)
EXTENDS Allocation, Download, Catalog, Notification, TLC

CONSTANTS
    o1, o2, o3, o4, o5,
    admin, shopper, paid, news, report1, toAdmin, sale, saleAgain, saleForOne

\* Days 1 and 2 are one report, day 3 is another.  Three orders have the same
\* commission, so that a sum does not tell them apart.
MCDay    == (o1 :> 1) @@ (o2 :> 2) @@ (o3 :> 1) @@ (o4 :> 2) @@ (o5 :> 3)
MCAmount == (o1 :> 100) @@ (o2 :> 150) @@ (o3 :> 150) @@ (o4 :> 100) @@ (o5 :> 100)

MCWants ==
    (report1    :> [kind |-> "admins", event |-> paid])
 @@ (toAdmin    :> [kind |-> "user", event |-> paid, to |-> admin])
 @@ (sale       :> [kind |-> "send", event |-> news, to |-> Everyone, text |-> 1])
 @@ (saleAgain  :> [kind |-> "send", event |-> news, to |-> Everyone, text |-> 1])
 @@ (saleForOne :> [kind |-> "send", event |-> news, to |-> shopper, text |-> 1])

CatalogSymmetry ==
    Permutations(Member) \cup Permutations(LinkId) \cup Permutations(Call)

VARIABLE part

partsVars == <<allocationVars, downloadVars, catalogVars, notificationVars, part>>

NothingToAllocate ==
    total = 0 /\ weights = <<1>> /\ amounts = <<0>> /\ remaining = 0

PartsInit ==
    \/ /\ part = "allocation" /\ AllocationInit
       /\ DownloadInit({}) /\ CatalogInit /\ NotificationInit({})
    \/ /\ part = "download"
       /\ \E there \in {{o1, o2, o3, o5}, {o1, o2, o3, o4}} : DownloadInit(there)
       /\ list[1] = o1 /\ list[2] = o2     \* whose commissions differ
       /\ NothingToAllocate /\ CatalogInit /\ NotificationInit({})
    \/ /\ part = "catalog" /\ CatalogInit
       /\ NothingToAllocate /\ DownloadInit({}) /\ NotificationInit({})
    \/ /\ part = "notification"
       /\ \E reqs \in {{report1, toAdmin}, {sale, saleAgain}, {sale, saleForOne}} :
             NotificationInit(reqs)
       /\ NothingToAllocate /\ DownloadInit({}) /\ CatalogInit

PartsNext ==
    \/ /\ part = "allocation" /\ Allocate
       /\ UNCHANGED <<part, downloadVars, catalogVars, notificationVars>>
    \/ /\ part = "download" /\ DownloadNext
       /\ UNCHANGED <<part, allocationVars, catalogVars, notificationVars>>
    \/ /\ part = "catalog" /\ CatalogNext
       /\ UNCHANGED <<part, allocationVars, downloadVars, notificationVars>>
    \/ /\ part = "notification" /\ NotificationNext
       /\ UNCHANGED <<part, allocationVars, downloadVars, catalogVars>>

PartsSpec == PartsInit /\ [][PartsNext]_partsVars
=============================================================================
