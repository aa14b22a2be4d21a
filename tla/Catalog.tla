------------------------------- MODULE Catalog -------------------------------
(***************************************************************************)
(* Products, the affiliate links that are generated for them, and what     *)
(* admins do to both: GenerateAffiliateService, AffiliateService and       *)
(* ProductService over their repositories.  None of them opens a           *)
(* transaction, so every method is cut at its awaits: a call reads, waits, *)
(* and writes on what it read.                                             *)
(*                                                                         *)
(* A product stands for its (shopId, itemId) pair.  The five sub ids of a  *)
(* link name a user, a link and a product; channel and tracking id are as  *)
(* unique as the link and are part of its name.                            *)
(***************************************************************************)
EXTENDS Naturals, FiniteSets

CONSTANTS
    Member,     \* users
    Product,    \* ids of product rows
    Item,       \* (shopId, itemId) pairs of the shop
    LinkId,     \* ids of affiliate links
    Call,       \* requests that may be under way at once
    None,       \* no row yet, nothing
    Gone        \* the row was removed; ids are random and never come back

ASSUME CatalogConstants == {None, Gone} \cap (Member \cup Product \cup Item \cup LinkId) = {}

VARIABLES
    product,    \* product[p]: the item of row p
    link,       \* link[l]: the row of l, status "none" before it and "gone" after
    issued,     \* issued[l]: the sub ids in the address that was handed out for l
    call        \* call[k]: the request k and what it has read so far

catalogVars == <<product, link, issued, call>>

SubIds(l, u, p) == [user |-> u, link |-> l, product |-> p]
AnySubIds == [user : Member, link : LinkId, product : Product]

NoLink == [status |-> "none", deleted |-> FALSE, user |-> None, product |-> None,
           subs |-> None]
LinkRow(u, p, subs) == [status |-> "WORKING", deleted |-> FALSE, user |-> u,
                        product |-> p, subs |-> subs]

Idle == [step |-> "idle"]

CatalogTypeOK ==
    /\ product \in [Product -> Item \cup {None, Gone}]
    /\ link \in [LinkId -> [status : {"none", "gone", "WORKING", "DELETED"}, deleted : BOOLEAN,
                            user : Member \cup {None}, product : Product \cup {None},
                            subs : AnySubIds \cup {None}]]
    /\ issued \in [LinkId -> AnySubIds \cup {None}]

CatalogInit ==
    /\ product = [p \in Product |-> None]
    /\ link = [l \in LinkId |-> NoLink]
    /\ issued = [l \in LinkId |-> None]
    /\ call = [k \in Call |-> Idle]

Exists(l)     == link[l].status \in {"WORKING", "DELETED"}
Stored(p)     == product[p] \in Item
RowOfItem(x)  == {p \in Product : product[p] = x}
Ends(k)       == call' = [call EXCEPT ![k] = Idle]
Waits(k, req) == call' = [call EXCEPT ![k] = req]

-----------------------------------------------------------------------------
\* GenerateAffiliateService.  The user is ACTIVE when the request comes, then the provider answers
\* with the product (an answer about another product ends the request).
GenerateBegin(k, u, x) ==
    /\ call[k] = Idle
    /\ Waits(k, [step |-> "fetched", user |-> u, item |-> x])
    /\ UNCHANGED <<product, link, issued>>

\* upsertFromProvider: a new row, or the one of the item under its old id.
UpsertProduct(k, p) ==
    /\ call[k].step = "fetched"
    /\ IF RowOfItem(call[k].item) # {} THEN p \in RowOfItem(call[k].item)
       ELSE product[p] = None
    /\ product' = [product EXCEPT ![p] = call[k].item]
    /\ Waits(k, [step |-> "upserted", user |-> call[k].user, product |-> p])
    /\ UNCHANGED <<link, issued>>

\* The address is made (by the provider, or else by the backend) and the row is
\* saved; the product it refers to has to be there still, or the request fails.
SaveHistory(k, l) ==
    /\ call[k].step = "upserted"
    /\ link[l].status = "none"
    /\ LET u == call[k].user
           p == call[k].product
       IN IF Stored(p)
          THEN /\ link' = [link EXCEPT ![l] = LinkRow(u, p, SubIds(l, u, p))]
               /\ issued' = [issued EXCEPT ![l] = SubIds(l, u, p)]
          ELSE UNCHANGED <<link, issued>>
    /\ Ends(k)
    /\ UNCHANGED product

-----------------------------------------------------------------------------
\* AffiliateService.  The link that the sub ids name is unique among all rows,
\* deleted ones included.
SubsFree(l, subs) ==
    subs # None => \A m \in LinkId \ {l} : link[m].subs # None =>
                                              link[m].subs.link # subs.link

\* What an admin may type as the sub ids of l: none, some that were handed out,
\* or a name of his own (which l stands for).
Typed(l) ==
    {None} \cup {SubIds(m, u, p) : m \in {l} \cup {m \in LinkId : issued[m] # None},
                                  u \in Member, p \in Product}

\* create: an admin writes a link, with whatever sub ids.
CreateLink(l, u, p, subs) ==
    /\ link[l].status = "none"
    /\ Stored(p)
    /\ SubsFree(l, subs)
    /\ link' = [link EXCEPT ![l] = LinkRow(u, p, subs)]
    /\ UNCHANGED <<product, issued, call>>

\* Mutant of MayChange: a link with sub ids is a row like any other.
MayChangeAny(l, u, p, subs) == TRUE

\* What a generated link is known by may be repeated, not changed.
MayChange(l, u, p, subs) ==
    link[l].subs # None =>
        link[l].user = u /\ link[l].product = p /\ link[l].subs = subs

\* update: the row is read and the change checked against it ...
UpdateBegin(k, l, u, p, subs, status) ==
    /\ call[k] = Idle
    /\ link[l].status = "WORKING"
    /\ MayChange(l, u, p, subs)
    /\ Waits(k, [step |-> "checked", link |-> l, status |-> status,
                 user |-> IF u = link[l].user THEN None ELSE u,
                 product |-> IF p = link[l].product THEN None ELSE p,
                 subs |-> IF subs = link[l].subs THEN None ELSE subs])
    /\ UNCHANGED <<product, link, issued>>

Changed(old, new) == IF new = None THEN old ELSE new

\* ... and what the caller gave is written over whatever row is there then.
UpdateEnd(k) ==
    /\ call[k].step = "checked"
    /\ LET req == call[k]
           l   == req.link
           row == [link[l] EXCEPT !.status = req.status,
                                  !.user = Changed(@, req.user),
                                  !.product = Changed(@, req.product),
                                  !.subs = Changed(@, req.subs)]
       IN IF Exists(l) /\ Stored(row.product) /\ SubsFree(l, row.subs)
          THEN link' = [link EXCEPT ![l] = row]
          ELSE UNCHANGED link
    /\ Ends(k)
    /\ UNCHANGED <<product, issued>>

DeleteLink(l) ==
    /\ link[l].status = "WORKING"
    /\ link' = [link EXCEPT ![l].status = "DELETED", ![l].deleted = TRUE]
    /\ UNCHANGED <<product, issued, call>>

-----------------------------------------------------------------------------
\* ProductService.  create and update ask whether the item is free and write;
\* the unique index has the last word.
CreateProduct(p, x) ==
    /\ product[p] = None /\ RowOfItem(x) = {}
    /\ product' = [product EXCEPT ![p] = x]
    /\ UNCHANGED <<link, issued, call>>

UpdateProduct(p, x) ==
    /\ Stored(p) /\ RowOfItem(x) \subseteq {p}
    /\ product' = [product EXCEPT ![p] = x]
    /\ UNCHANGED <<link, issued, call>>

Referring(p) == {l \in LinkId : Exists(l) /\ link[l].product = p}

\* delete: the links of the product are counted ...
DeleteProductBegin(k, p) ==
    /\ call[k] = Idle
    /\ Stored(p)
    /\ Referring(p) = {}
    /\ Waits(k, [step |-> "counted", product |-> p])
    /\ UNCHANGED <<product, link, issued>>

\* ... and then the row goes, with the links that refer to it by now: their
\* foreign key cascades.
DeleteProductEnd(k) ==
    /\ call[k].step = "counted"
    /\ LET p == call[k].product IN
       /\ product' = [product EXCEPT ![p] = Gone]
       /\ link' = [l \in LinkId |-> IF l \in Referring(p)
             THEN [NoLink EXCEPT !.status = "gone"] ELSE link[l]]
    /\ Ends(k)
    /\ UNCHANGED issued

CatalogNext ==
    \/ \E k \in Call, u \in Member, x \in Item : GenerateBegin(k, u, x)
    \/ \E k \in Call, p \in Product : UpsertProduct(k, p)
    \/ \E k \in Call, l \in LinkId : SaveHistory(k, l)
    \/ \E l \in LinkId, u \in Member, p \in Product : \E subs \in Typed(l) :
          CreateLink(l, u, p, subs)
    \/ \E k \in Call, l \in LinkId, u \in Member, p \in Product,
          status \in {"WORKING", "DELETED"} : \E subs \in Typed(l) :
          UpdateBegin(k, l, u, p, subs, status)
    \/ \E k \in Call : UpdateEnd(k)
    \/ \E l \in LinkId : DeleteLink(l)
    \/ \E p \in Product, x \in Item : CreateProduct(p, x) \/ UpdateProduct(p, x)
    \/ \E k \in Call, p \in Product : DeleteProductBegin(k, p)
    \/ \E k \in Call : DeleteProductEnd(k)

CatalogSpec == CatalogInit /\ [][CatalogNext]_catalogVars

-----------------------------------------------------------------------------
\* The attribution of AddLiveTagEngine.publish: the link of an order is found
\* by its second sub id and must agree with the others.
AttributedBy(subs) ==
    {l \in LinkId : /\ link[l].subs # None /\ link[l].subs.link = subs.link
                    /\ ~link[l].deleted
                    /\ link[l].user = subs.user /\ link[l].subs.user = subs.user
                    /\ link[l].product = subs.product
                    /\ link[l].subs.product = subs.product}

\* An address that was handed out keeps earning for the user it was made for:
\* until its link is deleted, or goes with its product, orders that carry its
\* sub ids lead to that link and to no other, whatever admins update, create
\* or type in meanwhile.
AttributionStands ==
    \A l \in LinkId : issued[l] # None =>
        IF Exists(l) /\ ~link[l].deleted THEN AttributedBy(issued[l]) = {l}
        ELSE \A m \in AttributedBy(issued[l]) : link[m].user = issued[l].user

\* What the tests say of deleting a product: one that affiliate links refer to
\* is not deleted.  Rows only ever disappear with their product, so no link
\* that was handed out may be gone.
IssuedLinksKept == \A l \in LinkId : issued[l] # None => link[l].status # "gone"
=============================================================================
