----------------------------- MODULE PartsProofs -----------------------------
(***************************************************************************)
(* What the parts of Parts.cfg promise on their own: Catalog for any       *)
(* users, products, links and requests under way at once; Notification for *)
(* any accounts, events, devices and number of retries; Allocation for any *)
(* amount and any orders it is divided among; Download for any orders,     *)
(* sizes of reports and pages, and any changes at the provider.            *)
(***************************************************************************)
EXTENDS Catalog, Notification, Allocation, Download, Sums, FiniteSetTheorems,
        SequenceTheorems, TLAPS

-----------------------------------------------------------------------------
(* Catalog *)

\* Links and what was handed out are rows or the absence of one.
RowsOK ==
    /\ link \in [LinkId -> [status : {"none", "gone", "WORKING", "DELETED"}, deleted : BOOLEAN,
                            user : Member \cup {None}, product : Product \cup {None},
                            subs : AnySubIds \cup {None}]]
    /\ issued \in [LinkId -> AnySubIds \cup {None}]

\* Sub ids that are in a row, or on their way into one, name that row or were
\* handed out.
Known(l, subs) == subs # None => subs.link = l \/ issued[subs.link] # None

\* A link that was handed out has its row as it was made.
Intact ==
    \A l \in LinkId : issued[l] # None =>
        /\ issued[l].link = l
        /\ link[l].status # "none"
        /\ Exists(l) => /\ link[l].subs = issued[l]
                        /\ link[l].user = issued[l].user
                        /\ link[l].product = issued[l].product

\* No two rows have sub ids that name the same link; those of a row are known,
\* and a row that is not there has none.
OneName ==
    \A l \in LinkId :
        /\ Known(l, link[l].subs)
        /\ ~Exists(l) => link[l].subs = None
        /\ SubsFree(l, link[l].subs)

\* A request that waits holds what a request may hold; an update of a link that
\* was handed out changes nothing of what it was made with.
Held(req) ==
    \/ req = Idle
    \/ req.step = "fetched" /\ req.user \in Member
    \/ req.step = "upserted" /\ req.user \in Member /\ req.product \in Product
    \/ req.step = "counted"
    \/ /\ req.step = "checked"
       /\ req.link \in LinkId
       /\ req.status \in {"WORKING", "DELETED"}
       /\ req.user \in Member \cup {None}
       /\ req.product \in Product \cup {None}
       /\ req.subs \in AnySubIds \cup {None}
       /\ link[req.link].status # "none"
       /\ Known(req.link, req.subs)
       /\ issued[req.link] # None =>
             req.user = None /\ req.product = None /\ req.subs = None

Pending == call = [k \in Call |-> call[k]] /\ \A k \in Call : Held(call[k])

LinkInv == RowsOK /\ Intact /\ OneName /\ Pending

-----------------------------------------------------------------------------
\* An address that was handed out leads to its link, by what a row is.
LEMMA InvAttributes == LinkInv => AttributionStands
<1> SUFFICES ASSUME LinkInv, NEW l \in LinkId, issued[l] # None
             PROVE  IF Exists(l) /\ ~link[l].deleted THEN AttributedBy(issued[l]) = {l}
                    ELSE \A m \in AttributedBy(issued[l]) : link[m].user = issued[l].user
    BY DEF AttributionStands
<1>1. \A m \in AttributedBy(issued[l]) : link[m].user = issued[l].user
    BY DEF AttributedBy
<1>2. CASE Exists(l) /\ ~link[l].deleted
  <2>1. /\ link[l].subs = issued[l] /\ issued[l].link = l
        /\ link[l].user = issued[l].user /\ link[l].product = issued[l].product
      BY <1>2 DEF LinkInv, Intact
  <2>2. l \in AttributedBy(issued[l])
      BY <1>2, <2>1 DEF AttributedBy
  <2>3. ASSUME NEW m \in LinkId, link[m].subs # None, link[m].subs.link = issued[l].link, m # l
        PROVE  FALSE
      BY <2>1, <2>3 DEF LinkInv, OneName, SubsFree
  <2>4. AttributedBy(issued[l]) \subseteq {l}
      BY <2>3 DEF AttributedBy
  <2> QED  BY <1>2, <2>2, <2>4
<1> QED  BY <1>1, <1>2

LEMMA LinkInvInit == CatalogInit => LinkInv
<1> SUFFICES ASSUME CatalogInit PROVE LinkInv
    OBVIOUS
<1>1. RowsOK
    BY DEF CatalogInit, RowsOK, NoLink
<1>2. Intact /\ OneName
    BY DEF CatalogInit, Intact, OneName, Known, Exists, NoLink, SubsFree
<1>3. Pending
    BY DEF CatalogInit, Pending, Held
<1> QED  BY <1>1, <1>2, <1>3 DEF LinkInv

-----------------------------------------------------------------------------
\* Rows do not come back, and what was handed out stays handed out.
Kept ==
    /\ \A l \in LinkId : issued[l] # None => issued'[l] # None
    /\ \A l \in LinkId : link[l].status # "none" =>
          link'[l].status # "none" /\ issued'[l] = issued[l]

LEMMA KnownStays ==
    ASSUME RowsOK, Kept, NEW l \in LinkId, NEW subs \in AnySubIds \cup {None},
           Known(l, subs)
    PROVE  Known(l, subs)'
BY DEF RowsOK, Kept, Known, AnySubIds

\* What a request holds, it may still hold after the step of another.
LEMMA HeldStays ==
    ASSUME RowsOK, Kept, NEW req, Held(req)
    PROVE  Held(req)'
<1>1. CASE req.step = "checked" /\ req # Idle
  <2>1. /\ req.link \in LinkId /\ req.status \in {"WORKING", "DELETED"}
        /\ req.user \in Member \cup {None} /\ req.product \in Product \cup {None}
        /\ req.subs \in AnySubIds \cup {None} /\ link[req.link].status # "none"
        /\ Known(req.link, req.subs)
        /\ issued[req.link] # None =>
              req.user = None /\ req.product = None /\ req.subs = None
      BY <1>1 DEF Held
  <2>2. link'[req.link].status # "none" /\ issued'[req.link] = issued[req.link]
      BY <2>1 DEF Kept
  <2>3. Known(req.link, req.subs)'
      BY <2>1, KnownStays
  <2> QED  BY <1>1, <2>1, <2>2, <2>3 DEF Held
<1>2. CASE req = Idle \/ req.step # "checked"
    BY <1>2 DEF Held, Idle
<1> QED  BY <1>1, <1>2

\* A step gives one request something it may hold and leaves the others.
LEMMA PendingStep ==
    ASSUME RowsOK, Pending, Kept, NEW k \in Call, NEW req, Waits(k, req), Held(req)'
    PROVE  Pending'
<1>1. call' = [call EXCEPT ![k] = req] /\ call = [m \in Call |-> call[m]]
    BY DEF Waits, Pending
<1>2. /\ call' = [m \in Call |-> call'[m]]
      /\ \A m \in Call : call'[m] = IF m = k THEN req ELSE call[m]
    BY <1>1
<1>3. \A m \in Call : Held(call[m])'
  <2> SUFFICES ASSUME NEW m \in Call PROVE Held(call[m])'
      OBVIOUS
  <2>1. CASE m = k
    <3>1. call'[m] = req
        BY <1>2, <2>1
    <3> QED  BY <3>1 DEF Held, Known
  <2>2. CASE m # k
    <3>1. call'[m] = call[m] /\ Held(call[m])
        BY <1>2, <2>2 DEF Pending
    <3> DEFINE old == call[m]
    <3>2. Held(old)'
        BY <3>1 DEF Held, Known, Kept, RowsOK, AnySubIds, Idle
    <3> QED  BY <3>1, <3>2 DEF Held, Known
  <2> QED  BY <2>1, <2>2
<1> QED  BY <1>2, <1>3 DEF Pending

LEMMA PendingStays ==
    ASSUME RowsOK, Pending, Kept, UNCHANGED call
    PROVE  Pending'
BY HeldStays DEF Pending

-----------------------------------------------------------------------------
\* Steps that write no link keep what is said of the links.
LEMMA LinksStay ==
    ASSUME RowsOK, Intact, OneName, UNCHANGED <<link, issued>>
    PROVE  RowsOK' /\ Intact' /\ OneName' /\ Kept
BY DEF RowsOK, Intact, OneName, Kept, Known, Exists, SubsFree

\* Generation waits with a user, and then with a product.
LEMMA GenerateStep ==
    ASSUME LinkInv, NEW k \in Call,
           \/ \E u \in Member, x \in Item : GenerateBegin(k, u, x)
           \/ \E p \in Product : UpsertProduct(k, p)
    PROVE  LinkInv'
<1> USE DEF LinkInv
<1>1. RowsOK' /\ Intact' /\ OneName' /\ Kept
    BY LinksStay DEF GenerateBegin, UpsertProduct
<1>2. ASSUME NEW u \in Member, NEW x \in Item, GenerateBegin(k, u, x) PROVE Pending'
  <2>1. PICK req : req = [step |-> "fetched", user |-> u, item |-> x]
      OBVIOUS
  <2>2. Waits(k, req)
      BY <1>2, <2>1 DEF GenerateBegin
  <2>3. Held(req)'
      BY <2>1 DEF Held
  <2> QED  BY <1>1, <2>2, <2>3, PendingStep
<1>3. ASSUME NEW p \in Product, UpsertProduct(k, p) PROVE Pending'
  <2>1. PICK req : req = [step |-> "upserted", user |-> call[k].user, product |-> p]
      OBVIOUS
  <2>2. Waits(k, req) /\ call[k].step = "fetched"
      BY <1>3, <2>1 DEF UpsertProduct
  <2>3. call[k].user \in Member
      BY <2>2 DEF Pending, Held, Idle
  <2>4. Held(req)'
      BY <2>1, <2>3 DEF Held
  <2> QED  BY <1>1, <2>2, <2>4, PendingStep
<1> QED  BY <1>1, <1>2, <1>3

\* What is typed names its own link or one that was handed out.
LEMMA TypedKnown ==
    ASSUME RowsOK, NEW l \in LinkId, NEW subs \in Typed(l)
    PROVE  subs \in AnySubIds \cup {None} /\ Known(l, subs)
BY DEF Typed, Known, SubIds, AnySubIds

\* An update waits with what it may change.
LEMMA UpdateBeginStep ==
    ASSUME LinkInv, NEW k \in Call, NEW l \in LinkId, NEW u \in Member, NEW p \in Product,
           NEW subs \in Typed(l), NEW status \in {"WORKING", "DELETED"},
           UpdateBegin(k, l, u, p, subs, status)
    PROVE  LinkInv'
<1> USE DEF LinkInv
<1>1. RowsOK' /\ Intact' /\ OneName' /\ Kept /\ UNCHANGED <<link, issued>>
    BY LinksStay DEF UpdateBegin
<1>2. PICK req : req = [step |-> "checked", link |-> l, status |-> status,
                        user |-> IF u = link[l].user THEN None ELSE u,
                        product |-> IF p = link[l].product THEN None ELSE p,
                        subs |-> IF subs = link[l].subs THEN None ELSE subs]
    OBVIOUS
<1>3. Waits(k, req) /\ MayChange(l, u, p, subs) /\ link[l].status = "WORKING"
    BY <1>2 DEF UpdateBegin
<1>4. /\ req.step = "checked" /\ req.link = l /\ req.status = status
      /\ req.user = IF u = link[l].user THEN None ELSE u
      /\ req.product = IF p = link[l].product THEN None ELSE p
      /\ req.subs = IF subs = link[l].subs THEN None ELSE subs
    BY <1>2
<1>5. /\ req.user \in Member \cup {None} /\ req.product \in Product \cup {None}
      /\ req.subs \in AnySubIds \cup {None} /\ Known(l, req.subs)
    BY <1>4, TypedKnown DEF Known
<1>6. issued[l] # None => req.user = None /\ req.product = None /\ req.subs = None
    BY <1>3, <1>4 DEF Intact, MayChange, Exists
<1>7. Held(req)'
  <2>1. Known(l, req.subs)'
      BY <1>1, <1>5 DEF Known
  <2> QED  BY <1>1, <1>3, <1>4, <1>5, <1>6, <2>1 DEF Held
<1> QED  BY <1>1, <1>3, <1>7, PendingStep

\* The first half of a deletion waits; products alone are nobody's link.
LEMMA ProductStep ==
    ASSUME LinkInv,
           \/ \E k \in Call, p \in Product : DeleteProductBegin(k, p)
           \/ \E p \in Product, x \in Item : CreateProduct(p, x) \/ UpdateProduct(p, x)
    PROVE  LinkInv'
<1> USE DEF LinkInv
<1>1. RowsOK' /\ Intact' /\ OneName' /\ Kept
    BY LinksStay DEF DeleteProductBegin, CreateProduct, UpdateProduct
<1>2. ASSUME NEW k \in Call, NEW p \in Product, DeleteProductBegin(k, p) PROVE Pending'
  <2>1. PICK req : req = [step |-> "counted", product |-> p]
      OBVIOUS
  <2>2. Waits(k, req)
      BY <1>2, <2>1 DEF DeleteProductBegin
  <2>3. Held(req)'
      BY <2>1 DEF Held
  <2> QED  BY <1>1, <2>2, <2>3, PendingStep
<1>3. CASE \E p \in Product, x \in Item : CreateProduct(p, x) \/ UpdateProduct(p, x)
    BY <1>1, <1>3, PendingStays DEF CreateProduct, UpdateProduct
<1> QED  BY <1>1, <1>2, <1>3

\* A request that ends holds nothing.
LEMMA PendingEnds ==
    ASSUME RowsOK, Pending, Kept, NEW k \in Call, Ends(k)
    PROVE  Pending'
<1>1. PICK req : req = Idle
    OBVIOUS
<1>2. Waits(k, req) /\ Held(req)'
    BY <1>1 DEF Ends, Waits, Held
<1> QED  BY <1>2, PendingStep

-----------------------------------------------------------------------------
\* One row is written: its name is known and free, and if it was handed out it
\* stays as it was made.
RowWritten(l, row) ==
    /\ link' = [link EXCEPT ![l] = row]
    /\ row \in [status : {"WORKING", "DELETED"}, deleted : BOOLEAN,
                 user : Member \cup {None}, product : Product \cup {None},
                 subs : AnySubIds \cup {None}]
    /\ SubsFree(l, row.subs)

LEMMA RowWrittenStep ==
    ASSUME RowsOK, Intact, OneName, NEW l \in LinkId, NEW row, RowWritten(l, row),
           Known(l, row.subs), UNCHANGED issued,
           issued[l] # None => /\ row.subs = issued[l] /\ row.user = issued[l].user
                               /\ row.product = issued[l].product
    PROVE  RowsOK' /\ Intact' /\ OneName' /\ Kept
<1>1. /\ \A m \in LinkId : link'[m] = IF m = l THEN row ELSE link[m]
      /\ row.status \in {"WORKING", "DELETED"} /\ row.subs \in AnySubIds \cup {None}
    BY DEF RowWritten, RowsOK
<1>2. RowsOK'
    BY DEF RowWritten, RowsOK
<1>3. Intact'
    BY <1>1 DEF Intact, Exists
<1>4. Kept
    BY <1>1 DEF Kept
<1>5. OneName'
  <2> SUFFICES ASSUME NEW m \in LinkId
               PROVE  /\ Known(m, link[m].subs)' /\ (~Exists(m) => link[m].subs = None)'
                      /\ SubsFree(m, link[m].subs)'
      BY DEF OneName
  <2>1. CASE m = l
    <3>1. SubsFree(l, row.subs) /\ Known(l, row.subs)
        BY DEF RowWritten
    <3> QED  BY <1>1, <2>1, <3>1 DEF SubsFree, Known, Exists
  <2>2. CASE m # l
    <3>1. link'[m] = link[m] /\ link'[l] = row
        BY <1>1, <2>2
    <3>2. Known(m, link[m].subs) /\ SubsFree(m, link[m].subs)
          /\ (~Exists(m) => link[m].subs = None)
        BY DEF OneName
    <3>3. link[m].subs # None /\ row.subs # None => row.subs.link # link[m].subs.link
        BY <2>2 DEF RowWritten, SubsFree
    <3>4. SubsFree(m, link[m].subs)'
        BY <1>1, <3>1, <3>2, <3>3 DEF SubsFree
    <3> QED  BY <3>1, <3>2, <3>4 DEF Known, Exists
  <2> QED  BY <2>1, <2>2
<1> QED  BY <1>2, <1>3, <1>4, <1>5

\* A link is saved with the sub ids of the address that is handed out; no row
\* had its name before.
LEMMA SaveHistoryStep ==
    ASSUME LinkInv, NEW k \in Call, NEW l \in LinkId, SaveHistory(k, l)
    PROVE  LinkInv'
<1> USE DEF LinkInv
<1> DEFINE u == call[k].user
           p == call[k].product
           subs == SubIds(l, u, p)
<1>1. u \in Member /\ p \in Product
    BY DEF SaveHistory, Pending, Held, Idle
<1>2. CASE ~Stored(p)
  <2>1. UNCHANGED <<link, issued>>
      BY <1>2 DEF SaveHistory
  <2>2. RowsOK' /\ Intact' /\ OneName' /\ Kept
      BY <2>1, LinksStay
  <2> QED  BY <2>2, PendingEnds DEF SaveHistory
<1>3. CASE Stored(p)
  <2>1. /\ link' = [link EXCEPT ![l] = LinkRow(u, p, subs)]
        /\ issued' = [issued EXCEPT ![l] = subs]
        /\ link[l].status = "none" /\ issued[l] = None
      BY <1>3 DEF SaveHistory, Intact
  <2>2. /\ subs \in AnySubIds /\ subs.link = l /\ subs.user = u /\ subs.product = p
      BY <1>1 DEF SubIds, AnySubIds
  <2> HIDE DEF subs
  <2> DEFINE row == LinkRow(u, p, subs)
  <2>3. /\ row.status = "WORKING" /\ row.user = u /\ row.product = p /\ row.subs = subs
        /\ row \in [status : {"WORKING"}, deleted : BOOLEAN, user : Member,
                     product : Product, subs : AnySubIds]
      BY <1>1, <2>2 DEF LinkRow
  <2> HIDE DEF row
  <2>4. \A m \in LinkId : /\ link'[m] = IF m = l THEN row ELSE link[m]
                          /\ issued'[m] = IF m = l THEN subs ELSE issued[m]
      BY <2>1 DEF RowsOK, row
  <2>5. RowsOK'
      BY <2>1, <2>2, <2>3 DEF RowsOK, row
  <2>6. Kept
      BY <2>1, <2>3, <2>4 DEF Kept
  <2>7. Intact'
      BY <2>2, <2>3, <2>4 DEF Intact, Exists
  <2>8. \A m \in LinkId \ {l} : link[m].subs # None => link[m].subs.link # l
    <3> SUFFICES ASSUME NEW m \in LinkId \ {l}, link[m].subs # None, link[m].subs.link = l
                 PROVE  FALSE
        OBVIOUS
    <3>1. Known(m, link[m].subs)
        BY DEF OneName
    <3> QED  BY <3>1, <2>1 DEF Known
  <2>9. OneName'
    <3> SUFFICES ASSUME NEW m \in LinkId
                 PROVE  /\ Known(m, link[m].subs)' /\ (~Exists(m) => link[m].subs = None)'
                        /\ SubsFree(m, link[m].subs)'
        BY DEF OneName
    <3>1. CASE m = l
      <4>1. Known(m, link[m].subs)' /\ (~Exists(m) => link[m].subs = None)'
          BY <2>2, <2>3, <2>4, <3>1 DEF Known, Exists
      <4>2. SubsFree(m, link[m].subs)'
          BY <2>2, <2>3, <2>4, <2>8, <3>1 DEF SubsFree
      <4> QED  BY <4>1, <4>2
    <3>2. CASE m # l
      <4>1. link'[m] = link[m] /\ link'[l] = row
          BY <2>4, <3>2
      <4>2. /\ Known(m, link[m].subs) /\ (~Exists(m) => link[m].subs = None)
            /\ SubsFree(m, link[m].subs)
          BY DEF OneName
      <4>3. link[m].subs \in AnySubIds \cup {None}
          BY DEF RowsOK
      <4>4. Known(m, link[m].subs)'
          BY <2>6, <4>1, <4>2, <4>3, KnownStays
      <4>5. SubsFree(m, link[m].subs)'
          BY <2>2, <2>3, <2>4, <2>8, <3>2, <4>1, <4>2 DEF SubsFree
      <4> QED  BY <4>1, <4>2, <4>4, <4>5 DEF Exists
    <3> QED  BY <3>1, <3>2
  <2>10. Pending'
      BY <2>6, PendingEnds DEF SaveHistory
  <2> QED  BY <2>5, <2>7, <2>9, <2>10
<1> QED  BY <1>2, <1>3

\* An admin writes a link that was not handed out.
LEMMA CreateLinkStep ==
    ASSUME LinkInv, NEW l \in LinkId, NEW u \in Member, NEW p \in Product,
           NEW subs \in Typed(l), CreateLink(l, u, p, subs)
    PROVE  LinkInv'
<1> USE DEF LinkInv
<1>1. subs \in AnySubIds \cup {None} /\ Known(l, subs)
    BY TypedKnown
<1>2. PICK row : row = LinkRow(u, p, subs)
    OBVIOUS
<1>3. RowWritten(l, row) /\ row.subs = subs
    BY <1>1, <1>2 DEF CreateLink, RowWritten, LinkRow
<1>4. issued[l] = None /\ UNCHANGED <<issued, call>>
    BY DEF CreateLink, Intact
<1>5. RowsOK' /\ Intact' /\ OneName' /\ Kept
    BY <1>1, <1>3, <1>4, RowWrittenStep
<1> QED  BY <1>4, <1>5, PendingStays

\* What an update writes over a link that was handed out is what it has.
LEMMA UpdateEndStep ==
    ASSUME LinkInv, NEW k \in Call, UpdateEnd(k)
    PROVE  LinkInv'
<1> USE DEF LinkInv
<1> DEFINE req == call[k]
           l   == req.link
           old == link[l]
<1>1. /\ l \in LinkId /\ req.status \in {"WORKING", "DELETED"}
      /\ req.user \in Member \cup {None} /\ req.product \in Product \cup {None}
      /\ req.subs \in AnySubIds \cup {None}
      /\ Known(l, req.subs)
      /\ issued[l] # None => req.user = None /\ req.product = None /\ req.subs = None
    BY DEF UpdateEnd, Pending, Held, Idle
<1>2. PICK row : row = [old EXCEPT !.status = req.status,
                                   !.user = Changed(@, req.user),
                                   !.product = Changed(@, req.product),
                                   !.subs = Changed(@, req.subs)]
    OBVIOUS
<1>3. old \in [status : {"none", "gone", "WORKING", "DELETED"}, deleted : BOOLEAN,
               user : Member \cup {None}, product : Product \cup {None},
               subs : AnySubIds \cup {None}]
    BY <1>1 DEF RowsOK
<1>4. /\ row.subs = Changed(old.subs, req.subs) /\ row.user = Changed(old.user, req.user)
      /\ row.product = Changed(old.product, req.product)
      /\ row \in [status : {"WORKING", "DELETED"}, deleted : BOOLEAN,
                   user : Member \cup {None}, product : Product \cup {None},
                   subs : AnySubIds \cup {None}]
    BY <1>1, <1>2, <1>3 DEF Changed
<1>5. Known(l, row.subs)
    BY <1>1, <1>4 DEF OneName, Known, Changed
<1>6. UNCHANGED issued /\ Ends(k)
    BY DEF UpdateEnd
<1>7. CASE Exists(l) /\ Stored(row.product) /\ SubsFree(l, row.subs)
  <2>1. RowWritten(l, row)
      BY <1>2, <1>4, <1>7 DEF UpdateEnd, RowWritten
  <2>2. issued[l] # None => /\ row.subs = issued[l] /\ row.user = issued[l].user
                            /\ row.product = issued[l].product
      BY <1>1, <1>4, <1>7 DEF Intact, Changed
  <2>3. RowsOK' /\ Intact' /\ OneName' /\ Kept
      BY <1>1, <1>5, <1>6, <2>1, <2>2, RowWrittenStep
  <2> QED  BY <1>6, <2>3, PendingEnds
<1>8. CASE ~(Exists(l) /\ Stored(row.product) /\ SubsFree(l, row.subs))
  <2>1. UNCHANGED link
      BY <1>2, <1>8 DEF UpdateEnd
  <2>2. RowsOK' /\ Intact' /\ OneName' /\ Kept
      BY <1>6, <2>1, LinksStay
  <2> QED  BY <1>6, <2>2, PendingEnds
<1> QED  BY <1>7, <1>8

\* A deleted link keeps its row.
LEMMA DeleteLinkStep ==
    ASSUME LinkInv, NEW l \in LinkId, DeleteLink(l)
    PROVE  LinkInv'
<1> USE DEF LinkInv
<1>1. PICK row : row = [link[l] EXCEPT !.status = "DELETED", !.deleted = TRUE]
    OBVIOUS
<1>2. /\ link' = [link EXCEPT ![l] = row] /\ UNCHANGED <<issued, call>>
      /\ link[l].status = "WORKING"
    BY <1>1 DEF DeleteLink
<1>3. /\ link[l] \in [status : {"none", "gone", "WORKING", "DELETED"}, deleted : BOOLEAN,
                      user : Member \cup {None}, product : Product \cup {None},
                      subs : AnySubIds \cup {None}]
      /\ Known(l, link[l].subs) /\ SubsFree(l, link[l].subs)
    BY DEF RowsOK, OneName
<1>4. /\ row.subs = link[l].subs /\ row.user = link[l].user
      /\ row.product = link[l].product
      /\ RowWritten(l, row)
    BY <1>1, <1>2, <1>3 DEF RowWritten
<1>5. issued[l] # None => /\ row.subs = issued[l] /\ row.user = issued[l].user
                          /\ row.product = issued[l].product
    BY <1>2, <1>4 DEF Intact, Exists
<1>6. RowsOK' /\ Intact' /\ OneName' /\ Kept
    BY <1>2, <1>3, <1>4, <1>5, RowWrittenStep
<1> QED  BY <1>2, <1>6, PendingStays

\* Links that go with their product have no sub ids any more, and stay gone.
LEMMA DeleteProductStep ==
    ASSUME LinkInv, NEW k \in Call, DeleteProductEnd(k)
    PROVE  LinkInv'
<1> USE DEF LinkInv
<1> DEFINE out == Referring(call[k].product)
           none == [NoLink EXCEPT !.status = "gone"]
<1>1. /\ link' = [l \in LinkId |-> IF l \in out THEN none ELSE link[l]]
      /\ UNCHANGED issued /\ Ends(k)
    BY DEF DeleteProductEnd
<1>2. /\ none.status = "gone" /\ none.subs = None
      /\ none \in [status : {"gone"}, deleted : BOOLEAN, user : {None}, product : {None},
                   subs : {None}]
    BY DEF NoLink
<1>3. \A l \in out : Exists(l)
    BY DEF Referring
<1> HIDE DEF out, none
<1>4. RowsOK'
    BY <1>1, <1>2 DEF RowsOK
<1>5. Kept
    BY <1>1, <1>2 DEF Kept
<1>6. Intact'
    BY <1>1, <1>2, <1>3 DEF Intact, Exists
<1>7. OneName'
    BY <1>1, <1>2 DEF OneName, Exists, Known, SubsFree
<1> QED  BY <1>1, <1>4, <1>5, <1>6, <1>7, PendingEnds

-----------------------------------------------------------------------------
LEMMA LinkInvStep == LinkInv /\ [CatalogNext]_catalogVars => LinkInv'
<1> SUFFICES ASSUME LinkInv, [CatalogNext]_catalogVars PROVE LinkInv'
    OBVIOUS
<1>1. CASE UNCHANGED catalogVars
  <2>1. RowsOK' /\ Intact' /\ OneName' /\ Kept
      BY <1>1, LinksStay DEF LinkInv, catalogVars
  <2> QED  BY <1>1, <2>1, PendingStays DEF LinkInv, catalogVars
<1>2. CASE CatalogNext
    BY <1>2, GenerateStep, UpdateBeginStep, ProductStep, SaveHistoryStep, CreateLinkStep,
       UpdateEndStep, DeleteLinkStep, DeleteProductStep
       DEF CatalogNext
<1> QED  BY <1>1, <1>2

\* An address that was handed out keeps earning for its user, whatever admins
\* change, create or remove, and however many requests are under way.
THEOREM AttributionAlwaysStands == CatalogSpec => []AttributionStands
<1>1. CatalogInit => LinkInv
    BY LinkInvInit
<1>2. LinkInv /\ [CatalogNext]_catalogVars => LinkInv'
    BY LinkInvStep
<1>3. LinkInv => AttributionStands
    BY InvAttributes
<1> QED  BY <1>1, <1>2, <1>3, PTL DEF CatalogSpec

-----------------------------------------------------------------------------
(* Notification *)

\* Everybody has a row, or none, for every event.
Rows == notice \in [Person -> [Event -> {"none", "unread", "read"}]]

\* No row is raised again and none goes.
Keeps ==
    \A p \in Person, e \in Event :
        /\ notice[p][e] = "read" => notice'[p][e] = "read"
        /\ notice[p][e] # "none" => notice'[p][e] # "none"

\* What a commit inserts beside.
LEMMA InsertedKeeps ==
    ASSUME NEW row \in [Event -> {"none", "unread", "read"}], NEW e \in Event
    PROVE  /\ Inserted(row, e) \in [Event -> {"none", "unread", "read"}]
           /\ \A f \in Event : row[f] # "none" => Inserted(row, e)[f] = row[f]
BY DEF Inserted

\* Every kind of request names an event.
LEMMA WantsEvent == ASSUME NEW r \in Req PROVE Wants[r].event \in Event
BY NotificationConstants DEF Wish

\* The rows stay rows, and every step keeps them.
LEMMA RowsStep ==
    ASSUME Rows, [NotificationNext]_notificationVars
    PROVE  Rows' /\ Keeps
<1> USE DEF Rows, Keeps
<1>1. CASE UNCHANGED notice
    BY <1>1
<1>2. ASSUME NEW r \in Req, Commit(r) PROVE Rows' /\ Keeps
  <2> DEFINE e == Wants[r].event
  <2>1. e \in Event
      BY WantsEvent
  <2>2. notice' = [p \in Person |-> IF p \in tx[r].seen
                                    THEN Inserted(notice[p], e) ELSE notice[p]]
      BY <1>2 DEF Commit
  <2>3. ASSUME NEW p \in Person
        PROVE  /\ notice'[p] \in [Event -> {"none", "unread", "read"}]
               /\ \A f \in Event : notice[p][f] # "none" => notice'[p][f] = notice[p][f]
      BY <2>1, <2>2, InsertedKeeps
  <2>4. Rows'
      BY <2>2, <2>3
  <2>5. Keeps
      BY <2>3
  <2> QED  BY <2>4, <2>5
<1>3. ASSUME NEW p \in Person, NEW es \in SUBSET Event, Read(p, es) PROVE Rows' /\ Keeps
    BY <1>3 DEF Read
<1>4. CASE NotificationNext
    BY <1>1, <1>2, <1>3, <1>4
       DEF NotificationNext, Proceed, Begin, RunBody, Replay, Conflict, Fail, Deactivate,
           Register, Unregister, PushBegin, PushEnd
<1> QED  BY <1>1, <1>4 DEF notificationVars

\* What was read stays read, and nothing disappears, whatever is retried,
\* repeated or committed late.
THEOREM ReadAlwaysStaysRead == NotificationSpec => ReadStaysRead
<1>1. ASSUME NEW rs \in SUBSET Req, NotificationInit(rs) PROVE Rows
    BY <1>1 DEF NotificationInit, Rows
<1>2. (\E rs \in SUBSET Req : NotificationInit(rs)) => Rows
    BY <1>1
<1>3. Rows /\ [NotificationNext]_notificationVars => Rows'
    BY RowsStep
<1>4. Rows /\ [NotificationNext]_notificationVars =>
        [\A p \in Person, e \in Event :
            /\ notice[p][e] = "read" => notice'[p][e] = "read"
            /\ notice[p][e] # "none" => notice'[p][e] # "none"]_notificationVars
    BY RowsStep DEF Keeps
<1> QED  BY <1>2, <1>3, <1>4, PTL DEF NotificationSpec, ReadStaysRead

-----------------------------------------------------------------------------
\* Types.
TxRow == [stage : TxStage, attempt : 0..Retries, seen : SUBSET Person, answer : Nat]

LEMMA RecipientsArePersons ==
    ASSUME NEW r \in Req, active \subseteq Person
    PROVE  /\ Recipients(Wants[r]) \subseteq Person
           /\ Wants[r].kind = "send" => Recipients(Wants[r]) \cap Admin = {}
<1> DEFINE want == Wants[r]
<1>1. want \in Wish
    BY NotificationConstants
<1>2. CASE want.kind = "user"
  <2>1. want.to \in Person
      BY <1>1, <1>2 DEF Wish
  <2> QED  BY <1>2, <2>1 DEF Recipients
<1>3. CASE want.kind = "admins"
    BY <1>3 DEF Recipients
<1>4. CASE want.kind = "send"
    BY <1>4 DEF Recipients
<1> QED  BY <1>1, <1>2, <1>3, <1>4 DEF Wish

LEMMA NewIsCounted == ASSUME NEW S \in SUBSET Person PROVE Cardinality(S) \in Nat
BY NotificationConstants, FS_Subset, FS_CardinalityType

\* A push that leaves is one.
LEMMA LeavesIsPush ==
    ASSUME NEW e \in Event, NEW to \in SUBSET Person, push \subseteq Push, Leaves(e, to)
    PROVE  push' \subseteq Push
<1> DEFINE m == [event |-> e, to |-> to, begun |-> FALSE, tokens |-> {}]
<1>1. m \in Push
    BY DEF Push
<1>2. push' = IF to = {} THEN push ELSE push \cup {m}
    BY DEF Leaves
<1> QED  BY <1>1, <1>2

\* A request that moves on moves alone.
LEMMA TxStep ==
    ASSUME NEW r \in Req, NEW row \in TxRow, tx \in [Req -> TxRow],
           tx' = [tx EXCEPT ![r] = row]
    PROVE  tx' \in [Req -> TxRow]
OBVIOUS

LEMMA RunBodyTypes ==
    ASSUME NotificationTypeOK, NEW r \in Req, RunBody(r)
    PROVE  NotificationTypeOK'
<1> USE DEF NotificationTypeOK
<1> DEFINE want == Wants[r]
           to == Recipients(want)
<1>1. want.event \in Event /\ to \in SUBSET Person /\ tx[r] \in TxRow
    BY WantsEvent, RecipientsArePersons DEF TxRow
<1>2. CASE NotifyBody(r)
  <2>1. push' \subseteq Push
      BY <1>1, <1>2, LeavesIsPush DEF NotifyBody
  <2>2. tx' \in [Req -> TxRow]
      BY <1>1, <1>2 DEF NotifyBody, TxRow, TxStage
  <2> QED  BY <2>1, <2>2 DEF RunBody, TxRow
<1>3. CASE SendBody(r)
  <2> DEFINE prior == sent[want.event]
             old == tx[r]
             row == CASE prior # NoOne /\ prior.to = want.to /\ prior.text = want.text ->
                            [old EXCEPT !.stage = "replayed", !.answer = prior.count]
                      [] prior # NoOne /\ (prior.to # want.to \/ prior.text # want.text) ->
                            [old EXCEPT !.stage = "refused"]
                      [] prior = NoOne /\ want.to # Everyone /\ to = {} ->
                            [old EXCEPT !.stage = "refused"]
                      [] OTHER -> [old EXCEPT !.stage = "ran", !.seen = to]
  <2>1. tx' = [tx EXCEPT ![r] = row]
      BY <1>3 DEF SendBody
  <2>2. prior # NoOne => prior.count \in Nat
      BY <1>1
  <2>3. row \in TxRow
      BY <1>1, <2>2 DEF TxRow, TxStage
  <2> HIDE DEF row
  <2>4. tx' \in [Req -> TxRow]
      BY <2>1, <2>3, TxStep DEF TxRow
  <2> QED  BY <1>3, <2>4 DEF RunBody, SendBody, TxRow
<1> QED  BY <1>2, <1>3 DEF RunBody

LEMMA CommitTypes ==
    ASSUME NotificationTypeOK, NEW r \in Req, Commit(r)
    PROVE  NotificationTypeOK'
<1> USE DEF NotificationTypeOK
<1> DEFINE want == Wants[r]
           new == {p \in tx[r].seen : notice[p][want.event] = "none"}
<1>1. want.event \in Event /\ want \in Wish
    BY WantsEvent, NotificationConstants
<1>2. new \in SUBSET Person /\ Cardinality(new) \in Nat
  <2>1. new \in SUBSET Person
      BY DEF TxRow
  <2> QED  BY <2>1, NewIsCounted
<1>3. tx' \in [Req -> TxRow]
  <2>1. tx' = [tx EXCEPT ![r].stage = "done", ![r].answer = Cardinality(new)]
      BY DEF Commit
  <2> HIDE DEF new
  <2> DEFINE row == [tx[r] EXCEPT !.stage = "done", !.answer = Cardinality(new)]
  <2>2. tx[r] \in TxRow
      BY DEF TxRow
  <2>3. row \in TxRow
      BY <1>2, <2>2 DEF TxRow, TxStage
  <2>4. tx' = [tx EXCEPT ![r] = row]
      BY <2>1
  <2> HIDE DEF row
  <2> QED  BY <2>3, <2>4, TxStep DEF TxRow
<1>4. Rows'
    BY RowsStep DEF NotificationNext, Proceed, Rows
<1>5. CASE want.kind # "send"
    BY <1>3, <1>4, <1>5 DEF Commit, Rows, TxRow
<1>6. CASE want.kind = "send"
  <2>1. want.to \in Person \cup {Everyone} /\ want.text \in Nat
      BY <1>1, <1>6 DEF Wish
  <2>2. sent' = [sent EXCEPT ![want.event] =
                    [to |-> want.to, text |-> want.text, count |-> Cardinality(new)]]
      BY <1>6 DEF Commit
  <2>3. sent' \in [Event -> {NoOne} \cup [to : Person \cup {Everyone}, text : Nat, count : Nat]]
    <3> HIDE DEF new
    <3> QED  BY <1>1, <1>2, <2>1, <2>2
  <2>4. push' \subseteq Push
    <3> DEFINE to == IF want.to = Everyone THEN Person ELSE {want.to}
    <3>1. to \in SUBSET Person /\ Leaves(want.event, to)
        BY <1>6, <2>1 DEF Commit
    <3> HIDE DEF to
    <3> QED  BY <1>1, <3>1, LeavesIsPush
  <2> QED  BY <1>3, <1>4, <2>3, <2>4 DEF Commit, Rows, TxRow
<1> QED  BY <1>5, <1>6

LEMMA OtherTypes ==
    ASSUME NotificationTypeOK, NEW r \in Req, Begin(r) \/ Replay(r) \/ Conflict(r) \/ Fail(r),
           tx[r].stage = "replayed" => Wants[r].kind = "send"
    PROVE  NotificationTypeOK'
<1> USE DEF NotificationTypeOK
<1>0. tx \in [Req -> TxRow] /\ tx[r] \in TxRow
    BY DEF TxRow
<1>1. CASE Begin(r)
    BY <1>0, <1>1 DEF Begin, TxRow, TxStage
<1>2. CASE Fail(r)
    BY <1>0, <1>2 DEF Fail, TxRow, TxStage
<1>3. CASE Conflict(r)
  <2>1. AfterConflict(tx[r]) \in TxRow
    <3> DEFINE old == tx[r]
    <3>1. /\ old \in TxRow /\ old.attempt \in Nat
          /\ old.attempt < Retries => old.attempt + 1 \in 0..Retries
        BY <1>0, NotificationConstants DEF TxRow
    <3>2. CASE old.attempt < Retries
        BY <3>1, <3>2 DEF AfterConflict, TxRow, TxStage
    <3>3. CASE ~(old.attempt < Retries)
        BY <3>1, <3>3 DEF AfterConflict, TxRow, TxStage
    <3> QED  BY <3>2, <3>3
  <2>2. tx' = [tx EXCEPT ![r] = AfterConflict(tx[r])]
      BY <1>3 DEF Conflict
  <2>3. tx' \in [Req -> TxRow]
      BY <1>0, <2>1, <2>2, TxStep
  <2> QED  BY <1>3, <2>3 DEF Conflict, TxRow
<1>4. CASE Replay(r)
  <2>1. tx' \in [Req -> TxRow]
      BY <1>0, <1>4 DEF Replay, TxRow, TxStage
  <2>2. PICK to : to = IF Wants[r].to = Everyone THEN Person ELSE {Wants[r].to}
      OBVIOUS
  <2>3. Wants[r] \in Wish /\ Wants[r].kind = "send"
      BY <1>4, NotificationConstants DEF Replay
  <2>4. to \in SUBSET Person /\ Leaves(Wants[r].event, to)
      BY <1>4, <2>2, <2>3 DEF Replay, Wish
  <2>5. push' \subseteq Push
      BY <2>4, WantsEvent, LeavesIsPush
  <2> QED  BY <1>4, <2>1, <2>5 DEF Replay, TxRow
<1> QED  BY <1>1, <1>2, <1>3, <1>4

LEMMA OutsideTypes ==
    ASSUME NotificationTypeOK,
           \/ \E p \in Person : Deactivate(p) \/ (\E es \in SUBSET Event : Read(p, es))
           \/ \E p \in Person, t \in Token : Register(t, p) \/ Unregister(t, p)
           \/ \E m \in push : PushBegin(m)
           \/ \E m \in push : \E invalid \in SUBSET m.tokens : PushEnd(m, invalid)
    PROVE  NotificationTypeOK'
<1> USE DEF NotificationTypeOK
<1>1. ASSUME NEW p \in Person, Deactivate(p) PROVE NotificationTypeOK'
    BY <1>1 DEF Deactivate
<1>2. ASSUME NEW p \in Person, NEW es \in SUBSET Event, Read(p, es) PROVE NotificationTypeOK'
    BY <1>2 DEF Read
<1>3. ASSUME NEW p \in Person, NEW t \in Token, Register(t, p) PROVE NotificationTypeOK'
    BY <1>3 DEF Register
<1>4. ASSUME NEW p \in Person, NEW t \in Token, Unregister(t, p) PROVE NotificationTypeOK'
    BY <1>4 DEF Unregister
<1>5. ASSUME NEW m \in push, PushBegin(m) PROVE NotificationTypeOK'
  <2> DEFINE n == [m EXCEPT !.begun = TRUE, !.tokens = {t \in Token : device[t] \in m.to}]
  <2>1. n \in Push
      BY DEF Push
  <2> QED  BY <1>5, <2>1 DEF PushBegin
<1>6. ASSUME NEW m \in push, NEW invalid \in SUBSET m.tokens, PushEnd(m, invalid)
      PROVE  NotificationTypeOK'
    BY <1>6 DEF PushEnd
<1> QED  BY <1>1, <1>2, <1>3, <1>4, <1>5, <1>6

-----------------------------------------------------------------------------
Has(e)   == {p \in Person : notice[p][e] # "none"}
Sends(r) == Wants[r].kind = "send"

\* What holds of an announcement before and after it is made, and what the
\* requests for it know.
Made(r) ==
    LET e == Wants[r].event IN
    /\ Has(e) \cap Admin = {}
    /\ tx[r].stage = "ran" => tx[r].seen \cap Admin = {}
    /\ IF sent[e] = NoOne
       THEN /\ Has(e) = {} /\ tx[r].stage \notin {"done", "replayed"}
            /\ \A m \in push : m.event # e
       ELSE /\ Cardinality(Has(e)) = sent[e].count
            /\ tx[r].stage \in {"done", "replayed"} => tx[r].answer = sent[e].count

\* Only announcements are repeated.
Fine(r) == IF Sends(r) THEN Made(r) ELSE tx[r].stage # "replayed"

NoticeInv == NotificationTypeOK /\ \A r \in Req : Fine(r)

\* Steps that move no request on and push nothing new.
LEMMA MadeStays ==
    ASSUME NoticeInv, NEW r \in Req, Sends(r), UNCHANGED <<tx, sent>>,
           \A p \in Person, e \in Event : (notice[p][e] = "none") <=> (notice'[p][e] = "none"),
           \A m \in push' : \E n \in push : m.event = n.event
    PROVE  Made(r)'
<1>1. Made(r)
    BY DEF NoticeInv, Fine
<1>2. Has(Wants[r].event)' = Has(Wants[r].event)
    BY WantsEvent DEF Has
<1> QED  BY <1>1, <1>2 DEF Made

\* A request moves on, writes no notification, and pushes for its own event only,
\* and only if an announcement of that is made.
LEMMA MoveKeeps ==
    ASSUME NoticeInv, NEW q \in Req, NEW row, tx' = [tx EXCEPT ![q] = row],
           UNCHANGED <<notice, sent>>,
           \A m \in push' : m \in push \/ m.event = Wants[q].event,
           Sends(q) => /\ row.stage = "ran" => row.seen \cap Admin = {}
                       /\ row.stage \in {"done", "replayed"} =>
                             /\ sent[Wants[q].event] # NoOne
                             /\ row.answer = sent[Wants[q].event].count
                       /\ sent[Wants[q].event] = NoOne => push' = push,
           ~Sends(q) => row.stage # "replayed"
    PROVE  \A r \in Req : Fine(r)'
<1> SUFFICES ASSUME NEW r \in Req PROVE Fine(r)'
    OBVIOUS
<1>1. /\ tx'[q] = row /\ r # q => tx'[r] = tx[r]
      /\ Fine(r)
    BY DEF NoticeInv, NotificationTypeOK, Fine
<1>2. Has(Wants[r].event)' = Has(Wants[r].event)
    BY DEF Has
<1>3. CASE ~Sends(r)
    BY <1>1, <1>3 DEF Fine, Sends
<1>4. CASE Sends(r)
  <2>1. Made(r)
      BY <1>1, <1>4 DEF Fine
  <2>2. Wants[r].event = Wants[q].event => Sends(q)
      BY <1>4, NotificationConstants DEF Sends
  <2>3. sent[Wants[r].event] = NoOne => \A m \in push' : m.event # Wants[r].event
      BY <2>1, <2>2 DEF Made
  <2>4. CASE r = q
      BY <1>1, <1>2, <1>4, <2>1, <2>3, <2>4 DEF Made, Fine, Sends
  <2>5. CASE r # q
      BY <1>1, <1>2, <1>4, <2>1, <2>3, <2>5 DEF Made, Fine, Sends
  <2> QED  BY <2>4, <2>5
<1> QED  BY <1>3, <1>4

\* The rows of a commit are those of its recipients.
LEMMA CommitHas ==
    ASSUME NotificationTypeOK, NEW q \in Req, Commit(q), NEW f \in Event
    PROVE  Has(f)' = IF f = Wants[q].event THEN Has(f) \cup tx[q].seen ELSE Has(f)
<1> DEFINE e == Wants[q].event
<1>1. /\ e \in Event /\ tx[q].seen \subseteq Person
      /\ notice' = [p \in Person |-> IF p \in tx[q].seen THEN Inserted(notice[p], e)
                                     ELSE notice[p]]
    BY WantsEvent DEF Commit, NotificationTypeOK
<1>2. \A p \in Person : notice'[p][f] # "none" <=>
          notice[p][f] # "none" \/ (p \in tx[q].seen /\ f = e)
  <2> SUFFICES ASSUME NEW p \in Person
               PROVE  notice'[p][f] # "none" <=>
                          notice[p][f] # "none" \/ (p \in tx[q].seen /\ f = e)
      OBVIOUS
  <2>1. notice[p] \in [Event -> {"none", "unread", "read"}]
      BY DEF NotificationTypeOK
  <2> QED  BY <1>1, <2>1 DEF Inserted
<1> QED  BY <1>1, <1>2 DEF Has

\* A commit makes the announcement that nobody had, for as many as it says.
LEMMA CommitKeeps ==
    ASSUME NoticeInv, NEW q \in Req, Commit(q)
    PROVE  \A r \in Req : Fine(r)'
<1> SUFFICES ASSUME NEW r \in Req PROVE Fine(r)'
    OBVIOUS
<1> DEFINE e == Wants[q].event
           new == {p \in tx[q].seen : notice[p][e] = "none"}
           f == Wants[r].event
<1>1. NotificationTypeOK /\ Fine(r) /\ Fine(q) /\ e \in Event /\ f \in Event
    BY WantsEvent DEF NoticeInv, Fine
<1>2. /\ tx' = [tx EXCEPT ![q].stage = "done", ![q].answer = Cardinality(new)]
      /\ tx[q].stage = "ran"
    BY DEF Commit
<1>3. /\ r # q => tx'[r] = tx[r]
      /\ tx'[q].stage = "done" /\ tx'[q].answer = Cardinality(new)
  <2> HIDE DEF new
  <2> QED  BY <1>1, <1>2 DEF NotificationTypeOK
<1>4. CASE ~Sends(r)
    BY <1>1, <1>3, <1>4 DEF Fine, Sends
<1>5. CASE Sends(r) /\ f # e
  <2>1. Has(f)' = Has(f)
      BY <1>1, <1>5, CommitHas
  <2>2. sent'[f] = sent[f]
      BY <1>1, <1>5 DEF Commit, NotificationTypeOK
  <2>3. \A m \in push' : m \in push \/ m.event = e
      BY DEF Commit, Leaves
  <2>4. r # q /\ Made(r)
      BY <1>1, <1>5 DEF Fine
  <2> QED  BY <1>3, <1>5, <2>1, <2>2, <2>3, <2>4 DEF Made, Fine, Sends
<1>6. CASE Sends(r) /\ f = e
  <2>1. Sends(q)
      BY <1>6, NotificationConstants DEF Sends
  <2>2. sent[e] = NoOne /\ Made(r) /\ Made(q)
      BY <1>1, <1>6, <2>1 DEF Commit, Overtaken, Sends, Fine
  <2>3. Has(e) = {} /\ tx[q].seen \cap Admin = {} /\ tx[q].seen \subseteq Person
      BY <1>1, <1>2, <2>2 DEF Made, NotificationTypeOK
  <2>4. Has(e)' = tx[q].seen /\ new = tx[q].seen
      BY <1>1, <2>3, CommitHas DEF Has
  <2>5. sent'[e] = [to |-> Wants[q].to, text |-> Wants[q].text, count |-> Cardinality(new)]
    <3> HIDE DEF new
    <3> QED  BY <1>1, <2>1 DEF Commit, Sends, NotificationTypeOK, new
  <2>6. sent'[e].count = Cardinality(Has(e)') /\ Cardinality(new) = Cardinality(Has(e)')
    <3> HIDE DEF new
    <3> QED  BY <2>4, <2>5
  <2>7. sent'[e] # NoOne
    <3>1. Cardinality(new) \in Nat /\ Wants[q] \in Wish
        BY <2>3, <2>4, NewIsCounted, NotificationConstants
    <3>2. Wants[q].to \in Person \cup {Everyone} /\ Wants[q].text \in Nat
        BY <2>1, <3>1 DEF Wish, Sends
    <3> HIDE DEF new
    <3> QED  BY <2>5, <3>1, <3>2, NotificationConstants
  <2>8. /\ Has(f)' \cap Admin = {}
        /\ tx'[r].stage = "ran" => tx'[r].seen \cap Admin = {}
        /\ tx'[r].stage \in {"done", "replayed"} => tx'[r].answer = Cardinality(new)
    <3>1. r # q => tx[r].stage \notin {"done", "replayed"}
        BY <1>6, <2>2 DEF Made
    <3> HIDE DEF new
    <3> QED  BY <1>3, <1>6, <2>2, <2>3, <2>4, <3>1 DEF Made
  <2> HIDE DEF new
  <2> QED  BY <1>6, <2>6, <2>7, <2>8 DEF Made, Fine, Sends
<1> QED  BY <1>4, <1>5, <1>6

\* A body that runs: a notification is not an announcement, and an announcement
\* is for no admin and answers again only if it was made.
LEMMA RunBodyKeeps ==
    ASSUME NoticeInv, NEW q \in Req, RunBody(q)
    PROVE  \A r \in Req : Fine(r)'
<1> DEFINE want == Wants[q]
           to   == Recipients(want)
           old  == tx[q]
<1>1. /\ NotificationTypeOK /\ old \in TxRow /\ want.event \in Event /\ want \in Wish
      /\ tx = [tx EXCEPT ![q] = old] /\ UNCHANGED <<notice, sent>>
    BY WantsEvent, NotificationConstants DEF NoticeInv, NotificationTypeOK, TxRow, RunBody
<1>2. CASE NotifyBody(q)
  <2>1. PICK row : row = [old EXCEPT !.stage = "ran", !.seen = to]
      OBVIOUS
  <2>2. tx' = [tx EXCEPT ![q] = row] /\ row.stage = "ran"
      BY <1>1, <1>2, <2>1 DEF NotifyBody, TxRow
  <2>3. ~Sends(q) /\ \A m \in push' : m \in push \/ m.event = want.event
      BY <1>2 DEF NotifyBody, Sends, Leaves
  <2> QED  BY <1>1, <2>2, <2>3, MoveKeeps
<1>3. CASE SendBody(q)
  <2> DEFINE prior == sent[want.event]
  <2>1. PICK row : row =
            CASE prior # NoOne /\ prior.to = want.to /\ prior.text = want.text ->
                    [old EXCEPT !.stage = "replayed", !.answer = prior.count]
              [] prior # NoOne /\ (prior.to # want.to \/ prior.text # want.text) ->
                    [old EXCEPT !.stage = "refused"]
              [] prior = NoOne /\ want.to # Everyone /\ to = {} ->
                    [old EXCEPT !.stage = "refused"]
              [] OTHER -> [old EXCEPT !.stage = "ran", !.seen = to]
      OBVIOUS
  <2>2. tx' = [tx EXCEPT ![q] = row] /\ UNCHANGED push /\ want.kind = "send"
      BY <1>3, <2>1 DEF SendBody
  <2>3. to \cap Admin = {}
      BY <1>1, <2>2, RecipientsArePersons DEF NotificationTypeOK
  <2>4. /\ row.stage = "ran" => row.seen \cap Admin = {}
        /\ row.stage \in {"done", "replayed"} => prior # NoOne /\ row.answer = prior.count
    <3>1. CASE row.stage \in {"refused"}
        BY <3>1
    <3>2. CASE prior # NoOne /\ prior.to = want.to /\ prior.text = want.text
        BY <1>1, <2>1, <3>2 DEF TxRow
    <3>3. CASE prior = NoOne /\ ~(want.to # Everyone /\ to = {})
      <4>1. row = [old EXCEPT !.stage = "ran", !.seen = to]
        <5> HIDE DEF to
        <5> QED  BY <2>1, <3>3
      <4> QED  BY <1>1, <2>3, <4>1 DEF TxRow
    <3>4. CASE \/ prior # NoOne /\ (prior.to # want.to \/ prior.text # want.text)
               \/ prior = NoOne /\ want.to # Everyone /\ to = {}
      <4>1. row = [old EXCEPT !.stage = "refused"]
        <5> HIDE DEF to
        <5> QED  BY <2>1, <3>4
      <4> QED  BY <1>1, <4>1 DEF TxRow
    <3> QED  BY <3>2, <3>3, <3>4
  <2>5. Sends(q)
      BY <2>2 DEF Sends
  <2> QED  BY <1>1, <2>2, <2>4, <2>5, MoveKeeps
<1> QED  BY <1>2, <1>3 DEF RunBody

\* The other steps of a request.
LEMMA OtherKeeps ==
    ASSUME NoticeInv, NEW q \in Req, Begin(q) \/ Replay(q) \/ Conflict(q) \/ Fail(q)
    PROVE  \A r \in Req : Fine(r)'
<1>1. tx \in [Req -> TxRow] /\ tx[q] \in TxRow /\ Fine(q)
    BY DEF NoticeInv, NotificationTypeOK, TxRow
<1>2. CASE Begin(q) \/ Fail(q) \/ Conflict(q)
  <2>1. PICK row : row = IF Begin(q) THEN [tx[q] EXCEPT !.stage = "begun"]
                         ELSE IF Fail(q) THEN [tx[q] EXCEPT !.stage = "failed"]
                         ELSE AfterConflict(tx[q])
      OBVIOUS
  <2>2. row.stage \in {"begun", "failed"}
      BY <1>1, <2>1 DEF AfterConflict, TxRow
  <2>3. /\ tx' = [tx EXCEPT ![q] = row] /\ UNCHANGED <<notice, sent, push>>
      BY <1>1, <1>2, <2>1 DEF Begin, Fail, Conflict
  <2> QED  BY <2>2, <2>3, MoveKeeps
<1>3. CASE Replay(q)
  <2>1. PICK row : row = [tx[q] EXCEPT !.stage = "done"]
      OBVIOUS
  <2>2. row.stage = "done" /\ row.answer = tx[q].answer
      BY <1>1, <2>1 DEF TxRow
  <2>3. /\ tx' = [tx EXCEPT ![q] = row] /\ UNCHANGED <<notice, sent>>
        /\ \A m \in push' : m \in push \/ m.event = Wants[q].event
        /\ tx[q].stage = "replayed"
      BY <1>3, <2>1 DEF Replay, Leaves
  <2>4. /\ Sends(q) => /\ sent[Wants[q].event] # NoOne
                       /\ row.answer = sent[Wants[q].event].count
      BY <1>1, <2>2, <2>3 DEF Fine, Made
  <2> QED  BY <2>2, <2>3, <2>4, MoveKeeps
<1> QED  BY <1>2, <1>3

\* Steps of readers, devices and pushes.
LEMMA OutsideKeeps ==
    ASSUME NoticeInv,
           \/ \E p \in Person : Deactivate(p) \/ (\E es \in SUBSET Event : Read(p, es))
           \/ \E p \in Person, t \in Token : Register(t, p) \/ Unregister(t, p)
           \/ \E m \in push : PushBegin(m)
           \/ \E m \in push : \E invalid \in SUBSET m.tokens : PushEnd(m, invalid)
    PROVE  \A r \in Req : Fine(r)'
<1>1. UNCHANGED <<tx, sent>>
    BY DEF Deactivate, Read, Register, Unregister, PushBegin, PushEnd
<1>2. \A p \in Person, e \in Event : (notice[p][e] = "none") <=> (notice'[p][e] = "none")
  <2>1. ASSUME NEW p \in Person, NEW es \in SUBSET Event, Read(p, es)
        PROVE  \A s \in Person, e \in Event :
                  (notice[s][e] = "none") <=> (notice'[s][e] = "none")
      BY <2>1 DEF Read, NoticeInv, NotificationTypeOK
  <2> QED  BY <2>1 DEF Deactivate, Register, Unregister, PushBegin, PushEnd
<1>3. \A m \in push' : \E n \in push : m.event = n.event
  <2>1. ASSUME NEW m \in push, PushBegin(m)
        PROVE  \A n \in push' : \E o \in push : n.event = o.event
    <3> DEFINE n == [m EXCEPT !.begun = TRUE, !.tokens = {t \in Token : device[t] \in m.to}]
    <3>1. n.event = m.event
        BY DEF NoticeInv, NotificationTypeOK, Push
    <3>2. push' = (push \ {m}) \cup {n}
        BY <2>1 DEF PushBegin
    <3> HIDE DEF n
    <3> QED  BY <3>1, <3>2
  <2> QED  BY <2>1 DEF Deactivate, Read, Register, Unregister, PushEnd
<1> QED  BY <1>1, <1>2, <1>3, MadeStays DEF NoticeInv, Fine

LEMMA NoticeInvStep == NoticeInv /\ [NotificationNext]_notificationVars => NoticeInv'
<1> SUFFICES ASSUME NoticeInv, [NotificationNext]_notificationVars PROVE NoticeInv'
    OBVIOUS
<1>1. CASE UNCHANGED notificationVars
    BY <1>1 DEF notificationVars, NoticeInv, NotificationTypeOK, Fine, Made, Has
<1>2. ASSUME NEW r \in Req, Begin(r) \/ Proceed(r) PROVE NoticeInv'
  <2>1. NotificationTypeOK /\ (tx[r].stage = "replayed" => Wants[r].kind = "send")
      BY DEF NoticeInv, Fine, Sends
  <2> QED  BY <1>2, <2>1, RunBodyTypes, CommitTypes, OtherTypes, RunBodyKeeps, CommitKeeps,
              OtherKeeps DEF Proceed, NoticeInv
<1>3. CASE \/ \E p \in Person : Deactivate(p) \/ (\E es \in SUBSET Event : Read(p, es))
           \/ \E p \in Person, t \in Token : Register(t, p) \/ Unregister(t, p)
           \/ \E m \in push : PushBegin(m)
           \/ \E m \in push : \E invalid \in SUBSET m.tokens : PushEnd(m, invalid)
    BY <1>3, OutsideTypes, OutsideKeeps DEF NoticeInv
<1> QED  BY <1>1, <1>2, <1>3 DEF NotificationNext

LEMMA NoticeInvInit == (\E rs \in SUBSET Req : NotificationInit(rs)) => NoticeInv
<1> SUFFICES ASSUME NEW rs \in SUBSET Req, NotificationInit(rs) PROVE NoticeInv
    OBVIOUS
<1>1. tx \in [Req -> TxRow] /\ \A r \in Req : tx[r].stage \in {"waiting", "unused"}
    BY NotificationConstants DEF NotificationInit, NotBegun, TxRow, TxStage
<1>2. NotificationTypeOK
    BY <1>1 DEF NotificationInit, NotificationTypeOK, TxRow
<1>3. ASSUME NEW r \in Req PROVE Fine(r)
  <2>1. Has(Wants[r].event) = {} /\ sent[Wants[r].event] = NoOne /\ push = {}
      BY WantsEvent DEF NotificationInit, Has
  <2> QED  BY <1>1, <2>1 DEF Fine, Made
<1> QED  BY <1>2, <1>3 DEF NoticeInv

LEMMA InvAnnounces == NoticeInv => AnnouncedOnce
BY DEF NoticeInv, Fine, Sends, Made, AnnouncedOnce, Has

\* An announcement is made once, for users only, and every answer says for how
\* many, however many requests send it, repeat it or start over.
THEOREM AlwaysAnnouncedOnce == NotificationSpec => []AnnouncedOnce
<1>1. (\E rs \in SUBSET Req : NotificationInit(rs)) => NoticeInv
    BY NoticeInvInit
<1>2. NoticeInv /\ [NotificationNext]_notificationVars => NoticeInv'
    BY NoticeInvStep
<1>3. NoticeInv => AnnouncedOnce
    BY InvAnnounces
<1> QED  BY <1>1, <1>2, <1>3, PTL DEF NotificationSpec

-----------------------------------------------------------------------------
(* Allocation *)

\* The first k of several numbers add up to one more than the first k - 1.
LEMMA SumFirst ==
    ASSUME NEW k \in Nat, NEW f, \A i \in 1..(k + 1) : f[i] \in Int
    PROVE  /\ SumOf(f, 1..(k + 1)) = f[k + 1] + SumOf(f, 1..k)
           /\ SumOf(f, 1..k) \in Int
           /\ SumOf(f, 1..(k + 1)) \in Int
<1>1. IsFiniteSet(1..(k + 1)) /\ IsFiniteSet(1..k)
    BY FS_Interval
<1>2. k + 1 \in 1..(k + 1) /\ (1..(k + 1)) \ {k + 1} = 1..k
    OBVIOUS
<1>3. SumOf(f, 1..(k + 1)) = f[k + 1] + SumOf(f, (1..(k + 1)) \ {k + 1})
    BY <1>1, <1>2, SumTake
<1> QED  BY <1>1, <1>2, <1>3, SumInt

\* Truncation loses less than one dong.
LEMMA Truncated ==
    ASSUME NEW t \in Nat, NEW w \in Nat, NEW s \in Nat, s > 0
    PROVE  /\ (t * w) \div s \in Nat
           /\ t * w - s * ((t * w) \div s) \in 0..(s - 1)
<1>1. t * w \in Nat
    OBVIOUS
<1>2. PICK p \in Nat : p = t * w
    BY <1>1
<1>3. p \div s \in Nat /\ p - s * (p \div s) \in 0..(s - 1)
    OBVIOUS
<1> QED  BY <1>2, <1>3

\* One more part adds what truncation loses to what the parts fall short.
LEMMA ShortByOne ==
    ASSUME NEW t \in Int, NEW s \in Int, NEW a \in Int, NEW b \in Int,
           NEW w \in Int, NEW q \in Int
    PROVE  t * (w + a) - s * (q + b) = (t * w - s * q) + (t * a - s * b)
<1>1. t * (w + a) = t * w + t * a /\ s * (q + b) = s * q + s * b
    OBVIOUS
<1> QED  BY <1>1

\* How much the first k parts of t fall short of their exact proportions: by
\* less than a dong each, and by nothing when there is no part.
Short(t, s, w, q, k) == t * SumOf(w, 1..k) - s * SumOf(q, 1..k)

LEMMA ShortOfK ==
    ASSUME NEW n \in Nat, NEW t \in Nat, NEW s \in Nat, s > 0,
           NEW w, \A i \in 1..n : w[i] \in Nat,
           NEW q, \A i \in 1..n : q[i] = (t * w[i]) \div s
    PROVE  \A k \in 0..n : /\ SumOf(w, 1..k) \in Int /\ SumOf(q, 1..k) \in Int
                           /\ Short(t, s, w, q, k) >= 0
                           /\ Short(t, s, w, q, k) <= k * (s - 1)
<1> DEFINE Good(k) == /\ SumOf(w, 1..k) \in Int /\ SumOf(q, 1..k) \in Int
                      /\ Short(t, s, w, q, k) >= 0
                      /\ Short(t, s, w, q, k) <= k * (s - 1)
           Bad == {k \in 0..n : ~Good(k)}
<1>1. SUFFICES ASSUME Bad # {} PROVE FALSE
    OBVIOUS
<1>2. PICK m \in Bad : \A k \in Bad : m <= k
    <2>1. Bad \in SUBSET Nat
        OBVIOUS
    <2> HIDE DEF Bad
    <2> QED  BY <1>1, <2>1, LeastNat
<1>3. \A i \in 1..n : /\ q[i] \in Nat /\ w[i] \in Nat
                      /\ t * w[i] - s * q[i] \in 0..(s - 1)
    BY Truncated
<1>4. Good(0)
    <2>1. 1..0 = {}
        OBVIOUS
    <2>2. SumOf(w, {}) = 0 /\ SumOf(q, {}) = 0
        BY SumRec, FS_EmptySet
    <2> QED  BY <2>1, <2>2 DEF Short
<1>5. m \in 0..n /\ m # 0
    BY <1>4
<1> DEFINE k == m - 1
<1>6. k \in 0..n /\ k + 1 = m /\ Good(k)
    BY <1>2, <1>5
<1> HIDE DEF Bad
<1>7. Good(k + 1)
    <2>1. k \in Nat /\ k + 1 \in 1..n
        BY <1>5, <1>6
    <2>2. /\ \A i \in 1..(k + 1) : w[i] \in Int
          /\ \A i \in 1..(k + 1) : q[i] \in Int
        BY <1>3, <2>1
    <2> HIDE DEF k
    <2>3. /\ SumOf(w, 1..(k + 1)) = w[k + 1] + SumOf(w, 1..k)
          /\ SumOf(q, 1..(k + 1)) = q[k + 1] + SumOf(q, 1..k)
          /\ SumOf(w, 1..(k + 1)) \in Int /\ SumOf(q, 1..(k + 1)) \in Int
          /\ SumOf(w, 1..k) \in Int /\ SumOf(q, 1..k) \in Int
        BY <2>1, <2>2, SumFirst
    <2>4. Short(t, s, w, q, k + 1) = (t * w[k + 1] - s * q[k + 1]) + Short(t, s, w, q, k)
        <3>1. PICK a, b, u, p : /\ a = SumOf(w, 1..k) /\ b = SumOf(q, 1..k)
                                /\ u = w[k + 1] /\ p = q[k + 1]
            OBVIOUS
        <3>2. a \in Int /\ b \in Int /\ u \in Int /\ p \in Int
            BY <2>1, <2>2, <2>3, <3>1
        <3>3. t * (u + a) - s * (p + b) = (t * u - s * p) + (t * a - s * b)
            BY <3>2, ShortByOne
        <3> QED  BY <2>3, <3>1, <3>3 DEF Short
    <2>5. /\ t * w[k + 1] - s * q[k + 1] \in 0..(s - 1)
          /\ Short(t, s, w, q, k) >= 0 /\ Short(t, s, w, q, k) <= k * (s - 1)
          /\ Short(t, s, w, q, k) \in Int
        BY <1>3, <1>6, <2>1, <2>3 DEF Short
    <2>6. (k + 1) * (s - 1) = k * (s - 1) + (s - 1)
        BY <2>1
    <2>7. PICK x, y, z : x = t * w[k + 1] - s * q[k + 1] /\ y = Short(t, s, w, q, k)
                         /\ z = k * (s - 1)
        OBVIOUS
    <2>8. z \in Int /\ y \in Int /\ x \in 0..(s - 1) /\ y >= 0 /\ y <= z
        BY <2>1, <2>5, <2>7
    <2>9. x + y >= 0 /\ x + y <= z + (s - 1)
        BY <2>8
    <2> QED  BY <2>3, <2>4, <2>6, <2>7, <2>9
<1> QED  BY <1>2, <1>6, <1>7 DEF Bad

\* What the loop has computed: the proportional parts, and what they leave.
Parts == [i \in 1..Len(weights) |-> (total * weights[i]) \div Sum(weights)]

AllocationInv ==
    /\ total \in Nat
    /\ weights \in Seq(Nat) /\ Len(weights) > 0
    /\ Sum(weights) > 0
    /\ amounts \in Seq(Int) /\ Len(amounts) <= Len(weights)
    /\ \A i \in 1..Len(amounts) : i < Len(weights) => amounts[i] = Parts[i]
    /\ Done => /\ remaining = 0
               /\ amounts[Len(weights)] = total - SumOf(Parts, 1..(Len(weights) - 1))
    /\ ~Done => remaining = total - SumOf(Parts, 1..Len(amounts))

\* Weights are numbers, and so is what they add up to.
LEMMA WeightsAddUp ==
    ASSUME weights \in Seq(Nat), Sum(weights) > 0, total \in Nat
    PROVE  /\ Sum(weights) \in Nat /\ Sum(weights) = SumOf(weights, 1..Len(weights))
           /\ \A i \in 1..Len(weights) : Parts[i] \in Nat
           /\ \A i \in 1..Len(weights) : Parts[i] = (total * weights[i]) \div Sum(weights)
<1>1. DOMAIN weights = 1..Len(weights) /\ \A i \in 1..Len(weights) : weights[i] \in Nat
    OBVIOUS
<1>2. IsFiniteSet(DOMAIN weights)
    BY <1>1, FS_Interval
<1>3. Sum(weights) \in Nat /\ Sum(weights) = SumOf(weights, 1..Len(weights))
    BY <1>1, <1>2, TotalNat, TotalSum DEF Sum
<1>4. PICK s : s = Sum(weights)
    OBVIOUS
<1>5. \A i \in 1..Len(weights) : (total * weights[i]) \div s \in Nat
    BY <1>1, <1>3, <1>4, Truncated
<1> QED  BY <1>3, <1>4, <1>5 DEF Parts

\* It holds before the loop, ...
LEMMA AllocationInvInit == AllocationInit => AllocationInv
<1> SUFFICES ASSUME AllocationInit PROVE AllocationInv
    OBVIOUS
<1>1. PICK n \in 1..MaxLength : weights \in [1..n -> Weights]
    BY DEF AllocationInit
<1>2. weights \in Seq(Nat) /\ Len(weights) = n /\ n > 0
    <2>1. n \in Nat /\ n > 0
        BY AllocationConstants
    <2>2. weights \in [1..n -> Nat]
        BY <1>1, AllocationConstants
    <2> QED  BY <2>1, <2>2
<1>3. 1..Len(amounts) = {} /\ Len(amounts) = 0 /\ ~Done
    BY <1>2 DEF AllocationInit, Done
<1>4. SumOf(Parts, 1..Len(amounts)) = 0
    BY <1>3, SumRec, FS_EmptySet
<1> QED  BY <1>2, <1>3, <1>4, AllocationConstants DEF AllocationInit, AllocationInv

\* ... and is kept by every step of it (allocateNet).
LEMMA AllocationInvStep == AllocationInv /\ [Allocate]_allocationVars => AllocationInv'
<1> SUFFICES ASSUME AllocationInv, [Allocate]_allocationVars PROVE AllocationInv'
    OBVIOUS
<1>1. CASE UNCHANGED allocationVars
    BY <1>1 DEF allocationVars, AllocationInv, Done, Parts, Sum
<1>2. CASE Allocate
    <2> DEFINE k == Len(amounts)
               n == Len(weights)
               amount == NextAmount(k + 1)
    <2>1. /\ weights \in Seq(Nat) /\ total \in Nat /\ Sum(weights) > 0
          /\ amounts \in Seq(Int) /\ k \in Nat /\ n \in Nat /\ k < n
          /\ remaining = total - SumOf(Parts, 1..k)
        BY <1>2 DEF AllocationInv, Allocate, Done
    <2>2. /\ amounts' = Append(amounts, amount)
          /\ remaining' = remaining - amount
          /\ UNCHANGED <<total, weights>>
        BY <1>2 DEF Allocate
    <2>3. Parts' = Parts /\ Sum(weights)' = Sum(weights) /\ Len(weights)' = n
        BY <2>2 DEF Parts, Sum
    <2>4. \A i \in 1..n : /\ Parts[i] \in Nat
                          /\ Parts[i] = (total * weights[i]) \div Sum(weights)
        BY <2>1, WeightsAddUp
    <2>5. /\ SumOf(Parts, 1..(k + 1)) = Parts[k + 1] + SumOf(Parts, 1..k)
          /\ SumOf(Parts, 1..k) \in Int
        <3>1. \A i \in 1..(k + 1) : Parts[i] \in Int
            BY <2>1, <2>4
        <3> HIDE DEF k
        <3> QED  BY <2>1, <3>1, SumFirst
    <2>6. amount = IF k + 1 = n THEN remaining ELSE Parts[k + 1]
        BY <2>1, <2>4 DEF NextAmount
    <2>7. amount \in Int /\ k + 1 \in 1..n
        BY <2>1, <2>4, <2>5, <2>6
    <2> HIDE DEF amount
    <2>8. /\ amounts' \in Seq(Int) /\ Len(amounts') = k + 1
          /\ amounts'[k + 1] = amount
          /\ \A i \in 1..k : amounts'[i] = amounts[i]
        BY <2>1, <2>2, <2>7
    <2>9. \A i \in 1..(k + 1) : i < n => amounts'[i] = Parts[i]
        <3>1. \A i \in 1..k : i < n => amounts[i] = Parts[i]
            BY DEF AllocationInv
        <3>2. \A i \in 1..(k + 1) : i \in 1..k \/ i = k + 1
            BY <2>1
        <3>3. k + 1 < n => amounts'[k + 1] = Parts[k + 1]
            BY <2>6, <2>8
        <3> QED  BY <2>8, <3>1, <3>2, <3>3
    <2>10. Done' <=> k + 1 = n
        BY <2>3, <2>8 DEF Done
    <2>11. CASE k + 1 = n
        <3>1. remaining' = 0 /\ amounts'[n] = total - SumOf(Parts, 1..(n - 1))
            BY <2>1, <2>2, <2>5, <2>6, <2>8, <2>11
        <3> QED  BY <2>1, <2>2, <2>3, <2>7, <2>8, <2>9, <2>10, <2>11, <3>1 DEF AllocationInv
    <2>12. CASE k + 1 # n
        <3>1. remaining' = total - SumOf(Parts, 1..(k + 1))
            BY <2>1, <2>2, <2>4, <2>5, <2>6, <2>7, <2>12
        <3>2. ~Done' /\ Len(amounts') <= n
            BY <2>1, <2>8, <2>10, <2>12
        <3> QED  BY <2>1, <2>2, <2>3, <2>8, <2>9, <3>1, <3>2 DEF AllocationInv
    <2> QED  BY <2>11, <2>12
<1> QED  BY <1>1, <1>2

\* The parts and the rest make the amount that was divided.
LEMMA NothingIsLost == AllocationInv => NothingLost
<1> SUFFICES ASSUME AllocationInv PROVE NothingLost
    OBVIOUS
<1>0. PICK k, n : k = Len(amounts) /\ n = Len(weights)
    OBVIOUS
<1>1. /\ k \in Nat /\ n \in Nat /\ n > 0 /\ k <= n /\ total \in Nat /\ (Done <=> k = n)
      /\ DOMAIN amounts = 1..k /\ \A i \in 1..k : amounts[i] \in Int
    BY <1>0 DEF AllocationInv, Done
<1>2. \A i \in 1..n : Parts[i] \in Int
    BY <1>0, WeightsAddUp DEF AllocationInv
<1>3. Sum(amounts) = SumOf(amounts, 1..k)
    BY <1>0, <1>1, TotalSum DEF Sum
<1>4. IsFiniteSet(1..k) /\ IsFiniteSet(1..(n - 1))
    BY <1>1, FS_Interval
<1>5. CASE k < n
    <2>1. SumOf(amounts, 1..k) = SumOf(Parts, 1..k)
        <3>1. \A i \in 1..k : amounts[i] = Parts[i]
            BY <1>0, <1>1, <1>5 DEF AllocationInv
        <3> QED  BY <1>4, <3>1, SumSame
    <2>2. remaining = total - SumOf(Parts, 1..k) /\ ~Done
        BY <1>0, <1>1, <1>5 DEF AllocationInv
    <2>3. SumOf(Parts, 1..k) \in Int
        <3>1. \A i \in 1..k : Parts[i] \in Int
            BY <1>1, <1>2, <1>5
        <3> QED  BY <1>4, <3>1, SumInt
    <2>4. Sum(amounts) + remaining = total
        <3>1. PICK x \in Int : x = SumOf(Parts, 1..k)
            BY <2>3
        <3>2. Sum(amounts) = x /\ remaining = total - x
            BY <1>3, <2>1, <2>2, <3>1
        <3> QED  BY <1>1, <3>2
    <2> QED  BY <2>2, <2>4 DEF NothingLost
<1>6. CASE k = n
    <2>1. PICK m \in Nat : n = m + 1
        <3>1. n - 1 \in Nat /\ n = (n - 1) + 1
            BY <1>1
        <3> QED  BY <3>1
    <2>2. SumOf(amounts, 1..(m + 1)) = amounts[m + 1] + SumOf(amounts, 1..m)
        <3>1. \A i \in 1..(m + 1) : amounts[i] \in Int
            BY <1>1, <1>6, <2>1
        <3> QED  BY <3>1, SumFirst
    <2>3. SumOf(amounts, 1..m) = SumOf(Parts, 1..m)
        <3>1. \A i \in 1..m : amounts[i] = Parts[i]
            BY <1>0, <1>1, <1>6, <2>1 DEF AllocationInv
        <3>2. IsFiniteSet(1..m)
            BY FS_Interval
        <3> QED  BY <3>1, <3>2, SumSame
    <2>4. remaining = 0 /\ amounts[n] = total - SumOf(Parts, 1..m)
        BY <1>0, <1>1, <1>6, <2>1 DEF AllocationInv
    <2>5. SumOf(Parts, 1..m) \in Int
        <3>1. \A i \in 1..m : Parts[i] \in Int
            BY <1>2, <2>1
        <3>2. IsFiniteSet(1..m)
            BY FS_Interval
        <3> QED  BY <3>1, <3>2, SumInt
    <2>6. Sum(amounts) + remaining = total
        BY <1>1, <1>3, <1>6, <2>1, <2>2, <2>3, <2>4, <2>5
    <2> QED  BY <2>4, <2>6 DEF NothingLost
<1>7. k < n \/ k = n
    BY <1>1
<1> QED  BY <1>5, <1>6, <1>7

\* Who gets the rest, what truncation took from the others, is charged
\* nothing, and what the rest comes to is bounded.
LEMMA LastIsFair ==
    ASSUME NEW t \in Nat, NEW s \in Nat, s > 0, NEW w \in Nat, NEW m \in Nat,
           NEW a \in Int, NEW b \in Int, s = w + a,
           t * a - s * b >= 0, t * a - s * b <= m * (s - 1)
    PROVE  /\ t - b >= 0
           /\ (t - b) * s - t * w >= 0
           /\ (t - b) * s - t * w < (IF m = 0 THEN 1 ELSE m) * s
<1>1. t * s = t * w + t * a
    OBVIOUS
<1>2. (t - b) * s = t * s - s * b
    OBVIOUS
<1>3. PICK x : x = t * a - s * b
    OBVIOUS
<1>4. (t - b) * s - t * w = x /\ x \in Int
    <2>1. PICK p, q, r : p = t * w /\ q = t * a /\ r = s * b
        OBVIOUS
    <2>2. p \in Int /\ q \in Int /\ r \in Int
        BY <2>1
    <2>3. (t - b) * s = (p + q) - r
        BY <1>1, <1>2, <2>1
    <2> QED  BY <1>3, <2>1, <2>2, <2>3
<1>5. x < (IF m = 0 THEN 1 ELSE m) * s
    <2>1. CASE m = 0
        BY <1>3, <2>1
    <2>2. CASE m # 0
        <3>1. m * (s - 1) = m * s - m
            OBVIOUS
        <3>2. PICK z : z = m * s
            OBVIOUS
        <3>3. z \in Int /\ x <= z - m
            BY <1>3, <3>1, <3>2
        <3>4. x < z
            BY <1>4, <2>2, <3>3
        <3> QED  BY <2>2, <3>2, <3>4
    <2> QED  BY <2>1, <2>2
<1>6. t - b >= 0
    <2>1. t * w \in Nat /\ (t - b) * s >= 0
        <3>1. t * w \in Nat
            OBVIOUS
        <3>2. (t - b) * s = x + t * w /\ x >= 0
            <4>1. PICK p, y : p = t * w /\ y = (t - b) * s
                OBVIOUS
            <4>2. p \in Int /\ y \in Int /\ y - p = x
                BY <1>4, <4>1
            <4>3. y = x + p
                BY <1>4, <4>2
            <4> QED  BY <1>3, <4>1, <4>3
        <3>3. PICK p : p = t * w
            OBVIOUS
        <3>4. p \in Nat /\ x \in Int /\ x >= 0
            BY <1>4, <3>1, <3>2, <3>3
        <3> QED  BY <3>1, <3>2, <3>3, <3>4
    <2>2. PICK d \in Int : d = t - b
        OBVIOUS
    <2>3. d * s >= 0
        BY <2>1, <2>2
    <2>4. d >= 0
        BY <2>3
    <2> QED  BY <2>2, <2>4
<1> QED  BY <1>3, <1>4, <1>5, <1>6

\* Nobody is charged, and truncation is fair to a dong.
LEMMA DongFair == AllocationInv => FairToADong
<1> SUFFICES ASSUME AllocationInv, NEW i \in DOMAIN amounts
             PROVE  LET excess == amounts[i] * Sum(weights) - total * weights[i] IN
                    /\ amounts[i] >= 0
                    /\ IF i = Len(weights)
                       THEN 0 <= excess /\ excess < Max({1, Len(weights) - 1}) * Sum(weights)
                       ELSE -Sum(weights) < excess /\ excess <= 0
    BY DEF FairToADong
<1>1. PICK n, s : n = Len(weights) /\ s = Sum(weights)
    OBVIOUS
<1>2. /\ n \in Nat /\ n > 0 /\ s \in Nat /\ s > 0 /\ total \in Nat
      /\ i \in 1..n /\ i \in 1..Len(amounts) /\ Len(amounts) <= n
      /\ \A j \in 1..n : weights[j] \in Nat
    <2>1. /\ weights \in Seq(Nat) /\ amounts \in Seq(Int) /\ Len(amounts) <= n
          /\ n > 0 /\ total \in Nat /\ s > 0
        BY <1>1 DEF AllocationInv
    <2>2. s \in Nat
        BY <1>1, <2>1, WeightsAddUp
    <2>3. n \in Nat /\ \A j \in 1..n : weights[j] \in Nat
        BY <1>1, <2>1
    <2>4. i \in 1..Len(amounts) /\ Len(amounts) \in Nat
        BY <2>1
    <2>5. i \in 1..n
        BY <2>1, <2>3, <2>4
    <2> QED  BY <2>1, <2>2, <2>3, <2>4, <2>5
<1>3. /\ s = SumOf(weights, 1..n)
      /\ \A j \in 1..n : Parts[j] = (total * weights[j]) \div s
    BY <1>1, WeightsAddUp DEF AllocationInv
<1>4. CASE i < n
    <2>1. amounts[i] = Parts[i]
        BY <1>1, <1>2, <1>4 DEF AllocationInv
    <2>2. /\ Parts[i] \in Nat
          /\ total * weights[i] - s * Parts[i] \in 0..(s - 1)
        BY <1>2, <1>3, Truncated
    <2>3. PICK x, y, q : x = total * weights[i] /\ q = Parts[i] /\ y = s * q
        OBVIOUS
    <2>4. q \in Nat /\ x - y \in 0..(s - 1)
        BY <2>2, <2>3
    <2>5. weights[i] \in Nat
        BY <1>2
    <2>6. x \in Int /\ y \in Int /\ q * s = y
        <3>1. PICK u \in Nat : u = weights[i]
            BY <2>5
        <3>2. total * u \in Int /\ s * q \in Int /\ q * s = s * q
            BY <1>2, <2>4
        <3> QED  BY <2>3, <3>1, <3>2
    <2>7. -s < y - x /\ y - x <= 0 /\ i # n /\ q >= 0
        BY <1>2, <1>4, <2>4, <2>6
    <2>8. amounts[i] * s - total * weights[i] = y - x
        BY <2>1, <2>3, <2>6
    <2> QED  BY <1>1, <2>1, <2>3, <2>7, <2>8
<1>5. CASE i = n
    <2>1. PICK m \in Nat : n = m + 1
        <3>1. n - 1 \in Nat /\ n = (n - 1) + 1
            BY <1>2
        <3> QED  BY <3>1
    <2>2. PICK a, b : a = SumOf(weights, 1..m) /\ b = SumOf(Parts, 1..m)
        OBVIOUS
    <2>3. /\ a \in Int /\ b \in Int
          /\ total * a - s * b >= 0 /\ total * a - s * b <= m * (s - 1)
        <3>1. m \in 0..n
            BY <2>1
        <3>2. /\ Short(total, s, weights, Parts, m) >= 0
              /\ Short(total, s, weights, Parts, m) <= m * (s - 1)
              /\ a \in Int /\ b \in Int
            BY <1>2, <1>3, <2>2, <3>1, ShortOfK
        <3> QED  BY <2>2, <3>2 DEF Short
    <2>4. s = weights[n] + a
        <3>1. \A j \in 1..(m + 1) : weights[j] \in Int
            BY <1>2, <2>1
        <3> QED  BY <1>3, <2>1, <2>2, <3>1, SumFirst
    <2>5. amounts[i] = total - b
        <3>1. Done
            BY <1>1, <1>2, <1>5 DEF AllocationInv, Done
        <3> QED  BY <1>1, <1>5, <2>1, <2>2, <3>1 DEF AllocationInv
    <2>6. weights[n] \in Nat
        BY <1>2
    <2>7. /\ total - b >= 0
          /\ (total - b) * s - total * weights[n] >= 0
          /\ (total - b) * s - total * weights[n] < (IF m = 0 THEN 1 ELSE m) * s
        BY <1>2, <2>3, <2>4, <2>6, LastIsFair
    <2>8. Max({1, m}) = IF m = 0 THEN 1 ELSE m
        BY <2>1 DEF Max
    <2>9. n - 1 = m
        BY <2>1
    <2> QED  BY <1>1, <1>5, <2>5, <2>7, <2>8, <2>9
<1> QED  BY <1>2, <1>4, <1>5

\* What the loop returns is what Money states in closed form.
LEMMA ClosedForm == AllocationInv /\ Done => amounts = AllocateNet(total, weights, Len(weights))
<1> SUFFICES ASSUME AllocationInv, Done
             PROVE  amounts = AllocateNet(total, weights, Len(weights))
    OBVIOUS
<1>1. PICK n : n = Len(weights)
    OBVIOUS
<1>2. /\ n \in Nat /\ n > 0 /\ DOMAIN weights = 1..n
      /\ amounts = [i \in 1..n |-> amounts[i]]
    BY <1>1 DEF AllocationInv, Done
<1>3. \A i \in 1..n : Share(total, weights, i) = Parts[i]
    BY <1>1, <1>2, WeightsAddUp DEF AllocationInv, Share, Sum
<1>4. DOMAIN weights \ {n} = 1..(n - 1)
    BY <1>2
<1>5. MapThenSumSet(LAMBDA y : Share(total, weights, y), 1..(n - 1)) = SumOf(Parts, 1..(n - 1))
    <2>1. \A i \in 1..(n - 1) : Parts[i] = Share(total, weights, i)
        BY <1>2, <1>3
    <2> QED  BY <2>1, ShareSum
<1>6. AllocateNet(total, weights, n) =
        [i \in 1..n |-> IF i = n THEN total - SumOf(Parts, 1..(n - 1)) ELSE Parts[i]]
    BY <1>2, <1>3, <1>4, <1>5 DEF AllocateNet
<1>7. \A i \in 1..n : amounts[i] = IF i = n THEN total - SumOf(Parts, 1..(n - 1)) ELSE Parts[i]
    BY <1>1, <1>2 DEF AllocationInv, Done
<1> QED  BY <1>1, <1>2, <1>6, <1>7

\* The loop of allocateNet divides the whole amount fairly and computes what
\* Settlement uses for it, whatever the amount and however many weights: what
\* truncation takes from the others adds up to what the last one gets.
THEOREM AlwaysDividesFairly == AllocationSpec => []DividesFairly
<1>1. AllocationInv => DividesFairly
    BY NothingIsLost, DongFair, ClosedForm DEF DividesFairly
<1> QED  BY <1>1, AllocationInvInit, AllocationInvStep, PTL DEF AllocationSpec

-----------------------------------------------------------------------------
(* Download *)

\* A sequence without repetitions.
Distinct(s) == \A i, j \in 1..Len(s) : s[i] = s[j] => i = j

\* What is in a sequence is finite, and as much as the sequence is long exactly
\* when it has no repetitions.
LEMMA CountDistinct ==
    ASSUME NEW S, NEW s \in Seq(S)
    PROVE  /\ IsFiniteSet(ToSet(s))
           /\ Cardinality(ToSet(s)) \in Nat
           /\ Cardinality(ToSet(s)) <= Len(s)
           /\ Cardinality(ToSet(s)) = Len(s) <=> Distinct(s)
<1>1. Len(s) \in Nat /\ DOMAIN s = 1..Len(s) /\ s \in [1..Len(s) -> S]
    BY LenProperties
<1>2. IsFiniteSet(1..Len(s)) /\ Cardinality(1..Len(s)) = Len(s)
    BY <1>1, FS_Interval
<1>3. s \in Surjection(1..Len(s), ToSet(s))
    BY <1>1 DEF Surjection, ToSet
<1>4. /\ IsFiniteSet(ToSet(s))
      /\ Cardinality(ToSet(s)) <= Cardinality(1..Len(s))
      /\ Cardinality(ToSet(s)) = Cardinality(1..Len(s)) <=> s \in Injection(1..Len(s), ToSet(s))
    BY <1>2, <1>3, FS_Surjection
<1>5. s \in Injection(1..Len(s), ToSet(s)) <=> Distinct(s)
    BY <1>1, <1>3 DEF Injection, IsInjective, Surjection, Distinct
<1> QED  BY <1>2, <1>4, <1>5, FS_CardinalityType

\* Two sequences without repetitions or common elements, one after the other.
LEMMA DistinctConcat ==
    ASSUME NEW S, NEW s \in Seq(S), NEW t \in Seq(S)
    PROVE  /\ s \o t \in Seq(S)
           /\ ToSet(s \o t) = ToSet(s) \cup ToSet(t)
           /\ Distinct(s) /\ Distinct(t) /\ ToSet(s) \cap ToSet(t) = {} => Distinct(s \o t)
<1> DEFINE u == s \o t
<1>1. /\ u \in Seq(S) /\ Len(u) = Len(s) + Len(t) /\ Len(s) \in Nat /\ Len(t) \in Nat
      /\ \A i \in 1..Len(u) : u[i] = IF i <= Len(s) THEN s[i] ELSE t[i - Len(s)]
      /\ DOMAIN u = 1..Len(u) /\ DOMAIN s = 1..Len(s) /\ DOMAIN t = 1..Len(t)
    BY ConcatProperties, LenProperties
<1> HIDE DEF u
<1>2. ASSUME NEW i \in 1..Len(u) PROVE u[i] \in ToSet(s) \cup ToSet(t)
    <2>1. CASE i <= Len(s)
        <3>1. i \in 1..Len(s) /\ u[i] = s[i]
            BY <1>1, <2>1
        <3> QED  BY <1>1, <3>1 DEF ToSet
    <2>2. CASE ~(i <= Len(s))
        <3>1. i - Len(s) \in 1..Len(t) /\ u[i] = t[i - Len(s)]
            BY <1>1, <2>2
        <3> QED  BY <1>1, <3>1 DEF ToSet
    <2> QED  BY <2>1, <2>2
<1>3. ASSUME NEW i \in 1..Len(s) PROVE s[i] \in ToSet(u)
    <2>1. i \in 1..Len(u) /\ u[i] = s[i]
        BY <1>1
    <2> QED  BY <1>1, <2>1 DEF ToSet
<1>4. ASSUME NEW i \in 1..Len(t) PROVE t[i] \in ToSet(u)
    <2>1. i + Len(s) \in 1..Len(u) /\ u[i + Len(s)] = t[i]
        BY <1>1
    <2> QED  BY <1>1, <2>1 DEF ToSet
<1>5. ToSet(u) = ToSet(s) \cup ToSet(t)
    <2>1. ToSet(u) \subseteq ToSet(s) \cup ToSet(t)
        BY <1>1, <1>2 DEF ToSet
    <2>2. ToSet(s) \subseteq ToSet(u) /\ ToSet(t) \subseteq ToSet(u)
        BY <1>1, <1>3, <1>4 DEF ToSet
    <2> QED  BY <2>1, <2>2
<1>6. ASSUME Distinct(s), Distinct(t), ToSet(s) \cap ToSet(t) = {},
             NEW i \in 1..Len(u), NEW j \in 1..Len(u), u[i] = u[j]
      PROVE  i = j
    <2>1. \A k \in 1..Len(u) : k <= Len(s) => u[k] = s[k] /\ k \in 1..Len(s) /\ s[k] \in ToSet(s)
        BY <1>1 DEF ToSet
    <2>2. \A k \in 1..Len(u) : ~(k <= Len(s)) =>
              u[k] = t[k - Len(s)] /\ k - Len(s) \in 1..Len(t) /\ t[k - Len(s)] \in ToSet(t)
        BY <1>1 DEF ToSet
    <2>3. i <= Len(s) <=> j <= Len(s)
        BY <1>6, <2>1, <2>2
    <2>4. CASE i <= Len(s)
        BY <1>6, <2>1, <2>3, <2>4 DEF Distinct
    <2>5. CASE ~(i <= Len(s))
        <3>1. i - Len(s) = j - Len(s)
            BY <1>6, <2>2, <2>3, <2>5 DEF Distinct
        <3> QED  BY <1>1, <3>1
    <2> QED  BY <2>4, <2>5
<1> QED  BY <1>1, <1>5, <1>6 DEF Distinct, u

\* One element more at the end, ...
LEMMA DistinctAppend ==
    ASSUME NEW S, NEW s \in Seq(S), NEW e \in S, e \notin ToSet(s), Distinct(s)
    PROVE  /\ Append(s, e) \in Seq(S)
           /\ ToSet(Append(s, e)) = ToSet(s) \cup {e}
           /\ Distinct(Append(s, e))
<1>1. /\ <<e>> \in Seq(S) /\ ToSet(<<e>>) = {e} /\ Distinct(<<e>>)
      /\ Append(s, e) = s \o <<e>>
    BY AppendIsConcat DEF ToSet, Distinct
<1>2. ToSet(s) \cap ToSet(<<e>>) = {}
    BY <1>1
<1>3. PICK t \in Seq(S) : t = <<e>>
    BY <1>1
<1>4. s \o t \in Seq(S) /\ ToSet(s \o t) = ToSet(s) \cup ToSet(t) /\ Distinct(s \o t)
    BY <1>1, <1>2, <1>3, DistinctConcat
<1> QED  BY <1>1, <1>3, <1>4

\* ... and one less at the beginning.
LEMMA DistinctTail ==
    ASSUME NEW S, NEW s \in Seq(S), s # <<>>, Distinct(s)
    PROVE  /\ Head(s) \in S /\ Tail(s) \in Seq(S)
           /\ ToSet(s) = ToSet(Tail(s)) \cup {Head(s)}
           /\ Head(s) \notin ToSet(Tail(s))
           /\ Distinct(Tail(s))
<1>1. /\ Head(s) \in S /\ Tail(s) \in Seq(S)
      /\ Len(s) \in Nat /\ Len(s) > 0 /\ Len(Tail(s)) = Len(s) - 1
      /\ \A i \in 1..Len(Tail(s)) : Tail(s)[i] = s[i + 1]
      /\ Head(s) = s[1]
    BY HeadTailProperties, EmptySeq
<1>2. DOMAIN s = 1..Len(s) /\ DOMAIN Tail(s) = 1..Len(Tail(s))
    BY <1>1, LenProperties
<1>3. ASSUME NEW i \in 1..Len(s), i # 1 PROVE s[i] \in ToSet(Tail(s))
    <2>1. i - 1 \in 1..Len(Tail(s)) /\ (i - 1) + 1 = i
        BY <1>1, <1>3
    <2>2. Tail(s)[i - 1] = s[i]
        BY <1>1, <2>1
    <2> QED  BY <1>2, <2>1, <2>2 DEF ToSet
<1>4. ToSet(s) \subseteq ToSet(Tail(s)) \cup {Head(s)}
    BY <1>1, <1>2, <1>3 DEF ToSet
<1>5. ASSUME NEW i \in 1..Len(Tail(s)) PROVE i + 1 \in 1..Len(s) /\ Tail(s)[i] = s[i + 1]
    BY <1>1
<1>6. ToSet(Tail(s)) \cup {Head(s)} \subseteq ToSet(s)
    <2>1. 1 \in 1..Len(s)
        BY <1>1
    <2> QED  BY <1>1, <1>2, <1>5, <2>1 DEF ToSet
<1>7. Head(s) \notin ToSet(Tail(s))
    <2> SUFFICES ASSUME NEW i \in 1..Len(Tail(s)), s[1] = Tail(s)[i] PROVE FALSE
        BY <1>1, <1>2 DEF ToSet
    <2>1. i + 1 \in 1..Len(s) /\ s[1] = s[i + 1] /\ 1 \in 1..Len(s) /\ i + 1 # 1
        BY <1>1, <1>5
    <2> QED  BY <2>1 DEF Distinct
<1>8. Distinct(Tail(s))
    <2> SUFFICES ASSUME NEW i \in 1..Len(Tail(s)), NEW j \in 1..Len(Tail(s)),
                        Tail(s)[i] = Tail(s)[j]
                 PROVE  i = j
        BY DEF Distinct
    <2>1. i + 1 = j + 1
        BY <1>5 DEF Distinct
    <2> QED  BY <1>1, <2>1
<1> QED  BY <1>1, <1>4, <1>6, <1>7, <1>8

\* The list without one of its elements (RemoveAt), ...
LEMMA OneLess ==
    ASSUME NEW S, NEW s \in Seq(S), NEW i \in 1..Len(s), Distinct(s)
    PROVE  /\ RemoveAt(s, i) \in Seq(S) /\ Len(RemoveAt(s, i)) = Len(s) - 1
           /\ s[i] \in S /\ s[i] \notin ToSet(RemoveAt(s, i))
           /\ ToSet(s) = ToSet(RemoveAt(s, i)) \cup {s[i]}
           /\ Distinct(RemoveAt(s, i))
<1> DEFINE a == SubSeq(s, 1, i - 1)
           b == SubSeq(s, i + 1, Len(s))
<1>1. /\ Len(s) \in Nat /\ DOMAIN s = 1..Len(s) /\ \A k \in 1..Len(s) : s[k] \in S
    BY LenProperties, ElementOfSeq
<1>2. /\ a \in Seq(S) /\ Len(a) = i - 1 /\ \A k \in 1..(i - 1) : a[k] = s[k]
    <2>1. i - 1 \in Int /\ \A k \in 1..(i - 1) : s[k] \in S
        BY <1>1
    <2>2. /\ SubSeq(s, 1, i - 1) \in Seq(S)
          /\ Len(SubSeq(s, 1, i - 1)) = IF 1 <= i - 1 THEN (i - 1) - 1 + 1 ELSE 0
          /\ \A k \in 1..((i - 1) - 1 + 1) : SubSeq(s, 1, i - 1)[k] = s[1 + k - 1]
        BY <2>1, SubSeqProperties
    <2>3. \A k \in 1..(i - 1) : 1 + k - 1 = k
        OBVIOUS
    <2> QED  BY <2>2, <2>3
<1>3. /\ b \in Seq(S) /\ Len(b) = Len(s) - i /\ \A k \in 1..(Len(s) - i) : b[k] = s[i + k]
    <2>1. i + 1 \in Int /\ \A k \in (i + 1)..Len(s) : s[k] \in S
        BY <1>1
    <2>2. /\ SubSeq(s, i + 1, Len(s)) \in Seq(S)
          /\ Len(SubSeq(s, i + 1, Len(s))) = IF i + 1 <= Len(s) THEN Len(s) - (i + 1) + 1 ELSE 0
          /\ \A k \in 1..(Len(s) - (i + 1) + 1) : SubSeq(s, i + 1, Len(s))[k] = s[(i + 1) + k - 1]
        BY <1>1, <2>1, SubSeqProperties
    <2>3. \A k \in 1..(Len(s) - i) : (i + 1) + k - 1 = i + k
        BY <1>1
    <2>4. Len(s) - (i + 1) + 1 = Len(s) - i
        BY <1>1
    <2>5. Len(b) = Len(s) - i
        <3>1. CASE i + 1 <= Len(s)
            BY <2>2, <2>4, <3>1
        <3>2. CASE ~(i + 1 <= Len(s))
            <4>1. PICK n \in Nat : n = Len(s)
                BY <1>1
            <4>2. n - i = 0
                BY <3>2, <4>1
            <4> QED  BY <2>2, <3>2, <4>1, <4>2
        <3> QED  BY <3>1, <3>2
    <2>6. \A k \in 1..(Len(s) - i) : b[k] = s[i + k]
        BY <2>2, <2>3, <2>4
    <2> QED  BY <2>2, <2>5, <2>6
<1>4. RemoveAt(s, i) = a \o b
    BY DEF RemoveAt
<1> HIDE DEF a, b
<1>5. /\ DOMAIN a = 1..(i - 1) /\ DOMAIN b = 1..(Len(s) - i)
    BY <1>2, <1>3, LenProperties
<1>6. /\ \A k \in DOMAIN a : k \in 1..Len(s) /\ a[k] = s[k] /\ k < i
      /\ \A k \in DOMAIN b : i + k \in 1..Len(s) /\ b[k] = s[i + k] /\ i + k > i
    BY <1>1, <1>2, <1>3, <1>5
<1>7. ToSet(a) \cap ToSet(b) = {} /\ s[i] \notin ToSet(a) \cup ToSet(b)
    BY <1>6 DEF Distinct, ToSet
<1>8. Distinct(a) /\ Distinct(b)
    <2>1. Distinct(a)
        BY <1>2, <1>5, <1>6 DEF Distinct
    <2>2. ASSUME NEW j \in 1..Len(b), NEW k \in 1..Len(b), b[j] = b[k] PROVE j = k
        <3>0. j \in DOMAIN b /\ k \in DOMAIN b
            BY <1>3, <1>5
        <3>1. /\ i + j \in 1..Len(s) /\ i + k \in 1..Len(s)
              /\ s[i + j] = s[i + k]
            BY <1>6, <2>2, <3>0
        <3>2. i + j = i + k
            BY <3>1 DEF Distinct
        <3>3. j \in Int /\ k \in Int /\ i \in Int
            BY <1>3
        <3> QED  BY <3>2, <3>3
    <2> QED  BY <2>1, <2>2 DEF Distinct
<1>9. ToSet(s) = ToSet(a) \cup ToSet(b) \cup {s[i]}
    <2>1. ASSUME NEW k \in 1..Len(s) PROVE s[k] \in ToSet(a) \cup ToSet(b) \cup {s[i]}
        <3>1. CASE k < i
            <4>1. k \in DOMAIN a
                BY <1>5, <3>1
            <4> QED  BY <1>6, <4>1 DEF ToSet
        <3>2. CASE k > i
            <4>1. k - i \in DOMAIN b /\ i + (k - i) = k
                BY <1>1, <1>5, <3>2
            <4> QED  BY <1>6, <4>1 DEF ToSet
        <3> QED  BY <3>1, <3>2
    <2> QED  BY <1>1, <1>6, <2>1 DEF ToSet
<1>10. Len(a \o b) = Len(s) - 1
    <2>1. Len(a \o b) = Len(a) + Len(b)
        BY <1>2, <1>3, ConcatProperties
    <2>2. Len(a) = i - 1 /\ Len(b) = Len(s) - i
        BY <1>2, <1>3
    <2> QED  BY <1>1, <2>1, <2>2
<1> QED  BY <1>1, <1>2, <1>3, <1>4, <1>7, <1>8, <1>9, <1>10, DistinctConcat

\* ... and with one more (InsertAt).
LEMMA OneMore ==
    ASSUME NEW S, NEW s \in Seq(S), NEW i \in 1..(Len(s) + 1), NEW e \in S,
           e \notin ToSet(s), Distinct(s)
    PROVE  /\ InsertAt(s, i, e) \in Seq(S)
           /\ ToSet(InsertAt(s, i, e)) = ToSet(s) \cup {e}
           /\ Distinct(InsertAt(s, i, e))
<1> DEFINE a == SubSeq(s, 1, i - 1)
           b == SubSeq(s, i, Len(s))
<1>1. /\ Len(s) \in Nat /\ DOMAIN s = 1..Len(s) /\ \A k \in 1..Len(s) : s[k] \in S
    BY LenProperties, ElementOfSeq
<1>2. /\ a \in Seq(S) /\ Len(a) = i - 1 /\ \A k \in 1..(i - 1) : a[k] = s[k]
    <2>1. i - 1 \in Int /\ \A k \in 1..(i - 1) : s[k] \in S
        BY <1>1
    <2>2. /\ SubSeq(s, 1, i - 1) \in Seq(S)
          /\ Len(SubSeq(s, 1, i - 1)) = IF 1 <= i - 1 THEN (i - 1) - 1 + 1 ELSE 0
          /\ \A k \in 1..((i - 1) - 1 + 1) : SubSeq(s, 1, i - 1)[k] = s[1 + k - 1]
        BY <2>1, SubSeqProperties
    <2>3. \A k \in 1..(i - 1) : 1 + k - 1 = k
        OBVIOUS
    <2> QED  BY <1>1, <2>2, <2>3
<1>3. /\ b \in Seq(S) /\ Len(b) = Len(s) - i + 1
      /\ \A k \in 1..(Len(s) - i + 1) : b[k] = s[i + k - 1]
    <2>1. \A k \in i..Len(s) : s[k] \in S
        BY <1>1
    <2>2. /\ SubSeq(s, i, Len(s)) \in Seq(S)
          /\ Len(SubSeq(s, i, Len(s))) = IF i <= Len(s) THEN Len(s) - i + 1 ELSE 0
          /\ \A k \in 1..(Len(s) - i + 1) : SubSeq(s, i, Len(s))[k] = s[i + k - 1]
        BY <1>1, <2>1, SubSeqProperties
    <2> QED  BY <1>1, <2>2
<1>4. InsertAt(s, i, e) = (a \o <<e>>) \o b
    BY DEF InsertAt
<1> HIDE DEF a, b
<1>5. /\ DOMAIN a = 1..(i - 1) /\ DOMAIN b = 1..(Len(s) - i + 1)
    BY <1>2, <1>3, LenProperties
<1>6. /\ \A k \in DOMAIN a : k \in 1..Len(s) /\ a[k] = s[k] /\ k < i
      /\ \A k \in DOMAIN b : i + k - 1 \in 1..Len(s) /\ b[k] = s[i + k - 1] /\ i + k - 1 >= i
    BY <1>1, <1>2, <1>3, <1>5
<1>7. ToSet(a) \cap ToSet(b) = {} /\ ToSet(a) \cup ToSet(b) \subseteq ToSet(s)
    <2>1. ToSet(a) \cup ToSet(b) \subseteq ToSet(s)
        BY <1>1, <1>6 DEF ToSet
    <2>2. ASSUME NEW j \in DOMAIN a, NEW k \in DOMAIN b, a[j] = b[k] PROVE FALSE
        <3>1. j = i + k - 1
            BY <1>6, <2>2 DEF Distinct
        <3>2. j \in Int /\ i + k - 1 \in Int /\ j < i /\ i + k - 1 >= i
            BY <1>6, <2>2
        <3> QED  BY <3>1, <3>2
    <2> QED  BY <2>1, <2>2 DEF ToSet
<1>8. Distinct(a) /\ Distinct(b)
    <2>1. Distinct(a)
        BY <1>2, <1>5, <1>6 DEF Distinct
    <2>2. ASSUME NEW j \in 1..Len(b), NEW k \in 1..Len(b), b[j] = b[k] PROVE j = k
        <3>0. j \in DOMAIN b /\ k \in DOMAIN b
            BY <1>3, <1>5
        <3>1. /\ i + j - 1 \in 1..Len(s) /\ i + k - 1 \in 1..Len(s)
              /\ s[i + j - 1] = s[i + k - 1]
            BY <1>6, <2>2, <3>0
        <3>2. i + j - 1 = i + k - 1
            BY <3>1 DEF Distinct
        <3>3. j \in Int /\ k \in Int /\ i \in Int
            BY <1>3
        <3> QED  BY <3>2, <3>3
    <2> QED  BY <2>1, <2>2 DEF Distinct
<1>9. ToSet(s) \subseteq ToSet(a) \cup ToSet(b)
    <2>1. ASSUME NEW k \in 1..Len(s) PROVE s[k] \in ToSet(a) \cup ToSet(b)
        <3>1. CASE k < i
            <4>1. k \in DOMAIN a
                BY <1>5, <3>1
            <4> QED  BY <1>6, <4>1 DEF ToSet
        <3>2. CASE ~(k < i)
            <4>1. k - i + 1 \in DOMAIN b /\ i + (k - i + 1) - 1 = k
                BY <1>1, <1>5, <3>2
            <4> QED  BY <1>6, <4>1 DEF ToSet
        <3> QED  BY <3>1, <3>2
    <2> QED  BY <1>1, <2>1 DEF ToSet
<1>10. /\ <<e>> \in Seq(S) /\ ToSet(<<e>>) = {e} /\ Distinct(<<e>>)
    BY DEF ToSet, Distinct
<1>11. /\ a \o <<e>> \in Seq(S) /\ ToSet(a \o <<e>>) = ToSet(a) \cup {e} /\ Distinct(a \o <<e>>)
    <2>1. PICK t \in Seq(S) : t = <<e>>
        BY <1>10
    <2>2. a \in Seq(S) /\ Distinct(t) /\ ToSet(t) = {e} /\ ToSet(a) \cap ToSet(t) = {}
        BY <1>2, <1>7, <1>10, <2>1
    <2>3. a \o t \in Seq(S) /\ ToSet(a \o t) = ToSet(a) \cup ToSet(t) /\ Distinct(a \o t)
        BY <1>8, <2>2, DistinctConcat
    <2> QED  BY <2>1, <2>2, <2>3
<1>12. PICK c \in Seq(S) : c = a \o <<e>>
    BY <1>11
<1>13. ToSet(c) = ToSet(a) \cup {e} /\ Distinct(c) /\ ToSet(c) \cap ToSet(b) = {} /\ b \in Seq(S)
    BY <1>3, <1>7, <1>11, <1>12
<1>14. c \o b \in Seq(S) /\ ToSet(c \o b) = ToSet(c) \cup ToSet(b) /\ Distinct(c \o b)
    BY <1>8, <1>13, DistinctConcat
<1> QED  BY <1>4, <1>7, <1>9, <1>12, <1>13, <1>14

-----------------------------------------------------------------------------
\* How many of A are at or before i: each of A has a rank of its own, and the
\* ranks are 1, 2, ... up to the size of A.
Rank(A, i) == Cardinality({j \in A : j <= i})

LEMMA Ranked ==
    ASSUME NEW n \in Nat, NEW A \in SUBSET (1..n)
    PROVE  /\ IsFiniteSet(A) /\ Cardinality(A) \in Nat
           /\ \A i \in A : Rank(A, i) \in 1..Cardinality(A)
           /\ \A i, j \in A : Rank(A, i) = Rank(A, j) => i = j
           /\ \A k \in 1..Cardinality(A) : \E i \in A : Rank(A, i) = k
<1> DEFINE Upto(i) == {j \in A : j <= i}
<1>1. IsFiniteSet(A) /\ Cardinality(A) \in Nat
    <2>1. IsFiniteSet(1..n)
        BY FS_Interval
    <2> QED  BY <2>1, FS_Subset, FS_CardinalityType
<1>2. ASSUME NEW i \in A
      PROVE  /\ IsFiniteSet(Upto(i))
             /\ Cardinality(Upto(i)) \in 1..Cardinality(A)
    <2>1. IsFiniteSet(Upto(i)) /\ Cardinality(Upto(i)) <= Cardinality(A)
        BY <1>1, FS_Subset
    <2>2. i \in Upto(i)
        OBVIOUS
    <2>3. Cardinality(Upto(i)) # 0
        BY <2>1, <2>2, FS_EmptySet
    <2> QED  BY <1>1, <2>1, <2>3, FS_CardinalityType
<1>3. ASSUME NEW i \in A, NEW j \in A, i < j
      PROVE  Cardinality(Upto(i)) # Cardinality(Upto(j))
    <2>0. \A x \in A : x \in Int
        OBVIOUS
    <2>1. i \in Int /\ j \in Int /\ j <= j /\ ~(j <= i)
        BY <1>3, <2>0
    <2>2. \A x \in A : x <= i => x <= j
        BY <1>3, <2>0, <2>1
    <2>3. Upto(i) \in SUBSET Upto(j) /\ j \in Upto(j) /\ j \notin Upto(i)
        BY <2>1, <2>2
    <2> QED  BY <1>2, <2>3, FS_Subset
<1>4. ASSUME NEW i \in A, NEW j \in A, Cardinality(Upto(i)) = Cardinality(Upto(j))
      PROVE  i = j
    <2>1. i \in Int /\ j \in Int
        OBVIOUS
    <2> QED  BY <1>3, <1>4, <2>1
<1> DEFINE r == [i \in A |-> Cardinality(Upto(i))]
<1>5. r \in Injection(A, 1..Cardinality(A))
    BY <1>2, <1>4 DEF Injection, IsInjective
<1>6. IsFiniteSet(1..Cardinality(A)) /\ Cardinality(1..Cardinality(A)) = Cardinality(A)
    <2>1. PICK c \in Nat : c = Cardinality(A)
        BY <1>1
    <2>2. IsFiniteSet(1..c) /\ Cardinality(1..c) = c
        BY FS_Interval
    <2> QED  BY <2>1, <2>2
<1>7. r \in Surjection(A, 1..Cardinality(A))
    BY <1>5, <1>6, FS_Injection
<1>8. \A k \in 1..Cardinality(A) : \E i \in A : Cardinality(Upto(i)) = k
    BY <1>7 DEF Surjection
<1> QED  BY <1>1, <1>2, <1>4, <1>8 DEF Rank

\* The provider lists some checkouts, each once.
ListOK == list \in Seq(Checkout) /\ Distinct(list)

Within(chunk) == {o \in ToSet(list) : Day[o] \in chunk.first..chunk.last}

\* What it answers for a chunk is what it lists of it, each checkout once.
LEMMA ListedOnce ==
    ASSUME NEW chunk, ListOK
    PROVE  /\ Listed(chunk) \in Seq(Checkout)
           /\ ToSet(Listed(chunk)) = Within(chunk)
           /\ Distinct(Listed(chunk))
<1> DEFINE A == {i \in DOMAIN list : Day[list[i]] \in chunk.first..chunk.last}
           pos == [k \in 1..Cardinality(A) |-> CHOOSE i \in A : Rank(A, i) = k]
           all == [k \in 1..Cardinality(A) |-> list[pos[k]]]
<1>1. /\ Len(list) \in Nat /\ DOMAIN list = 1..Len(list)
      /\ \A i \in 1..Len(list) : list[i] \in Checkout
    BY LenProperties, ElementOfSeq DEF ListOK
<1>2. /\ Cardinality(A) \in Nat
      /\ \A i \in A : Rank(A, i) \in 1..Cardinality(A)
      /\ \A i, j \in A : Rank(A, i) = Rank(A, j) => i = j
      /\ \A k \in 1..Cardinality(A) : \E i \in A : Rank(A, i) = k
    <2>1. A \in SUBSET (1..Len(list))
        BY <1>1
    <2> HIDE DEF A
    <2> QED  BY <1>1, <2>1, Ranked
<1>3. Listed(chunk) = all
    BY DEF Listed, Rank
<1>4. ASSUME NEW i \in A PROVE i \in 1..Len(list) /\ list[i] \in Within(chunk)
    BY <1>1 DEF Within, ToSet
<1>5. ASSUME NEW o \in Within(chunk) PROVE \E i \in A : list[i] = o
    BY <1>1 DEF Within, ToSet
<1> HIDE DEF A
<1>6. \A k \in 1..Cardinality(A) : pos[k] \in A /\ Rank(A, pos[k]) = k
    BY <1>2
<1> HIDE DEF pos
<1>7. all \in Seq(Checkout) /\ Len(all) = Cardinality(A) /\ DOMAIN all = 1..Cardinality(A)
    <2>1. \A k \in 1..Cardinality(A) : list[pos[k]] \in Checkout
        BY <1>1, <1>4, <1>6
    <2> QED  BY <1>2, <2>1, IsASeq
<1>8. ToSet(all) = Within(chunk)
    <2>1. ASSUME NEW o \in Within(chunk) PROVE \E k \in 1..Cardinality(A) : all[k] = o
        <3>1. PICK i \in A : list[i] = o
            BY <1>5
        <3>2. Rank(A, i) \in 1..Cardinality(A) /\ pos[Rank(A, i)] = i
            BY <1>2, <1>6
        <3> QED  BY <3>1, <3>2
    <2> QED  BY <1>4, <1>6, <1>7, <2>1 DEF ToSet
<1>9. ASSUME NEW k \in 1..Cardinality(A), NEW m \in 1..Cardinality(A), all[k] = all[m]
      PROVE  k = m
    <2>1. pos[k] = pos[m]
        BY <1>1, <1>4, <1>6, <1>9 DEF ListOK, Distinct
    <2> QED  BY <1>6, <2>1
<1> QED  BY <1>3, <1>7, <1>8, <1>9 DEF Distinct

LEMMA LeastOf ==
    ASSUME NEW S \in SUBSET Nat, NEW x \in S, \A y \in S : x <= y
    PROVE  Min(S) \in S /\ \A y \in S : Min(S) <= y
BY DEF Min

\* A page of it is no longer than a page, and every page but the first ends
\* before there is more than there was.
LEMMA PageOf ==
    ASSUME NEW rows \in Seq(Checkout), NEW n \in Nat \ {0}
    PROVE  /\ Page(rows, n) \in Seq(Checkout)
           /\ ToSet(Page(rows, n)) \subseteq ToSet(rows)
           /\ Len(Page(rows, n)) <= PageSize
           /\ \A m \in Nat : (m <= (n - 1) * PageSize /\ m <= Len(rows))
                  => m + Len(Page(rows, n)) <= Len(rows)
           /\ (n - 1) * PageSize + Len(Page(rows, n)) <= n * PageSize
<1>1. PageSize \in Nat \ {0}
    BY DownloadConstants
<1>2. PICK p \in Nat : p = (n - 1) * PageSize
    BY <1>1
<1>3. n * PageSize = p + PageSize
    BY <1>1, <1>2
<1>4. /\ Len(rows) \in Nat /\ DOMAIN rows = 1..Len(rows)
      /\ \A i \in 1..Len(rows) : rows[i] \in Checkout
    BY LenProperties, ElementOfSeq
<1>5. PICK l \in Nat : l = Len(rows)
    BY <1>4
<1>6. PICK e \in Int : /\ e = Min({n * PageSize, Len(rows)})
                       /\ e <= p + PageSize /\ e <= l /\ (e = l \/ e = p + PageSize)
    <2>1. PICK f \in Nat : f = p + PageSize
        BY <1>1
    <2>2. PICK S \in SUBSET Nat : S = {f, l}
        OBVIOUS
    <2>3. PICK x \in S : \A y \in S : x <= y
        BY <2>2
    <2>4. Min(S) \in S /\ \A y \in S : Min(S) <= y
        BY <2>3, LeastOf
    <2>5. {n * PageSize, Len(rows)} = S
        BY <1>3, <1>5, <2>1, <2>2
    <2>6. PICK e \in Nat : e = Min(S)
        BY <2>4
    <2>7. e <= f /\ e <= l /\ (e = l \/ e = f)
        BY <2>2, <2>4, <2>6
    <2>8. e = Min({n * PageSize, Len(rows)})
        BY <2>5, <2>6, Zenon
    <2> QED  BY <2>1, <2>7, <2>8
<1>7. Page(rows, n) = SubSeq(rows, p + 1, e)
    BY <1>2, <1>6 DEF Page
<1>8. /\ SubSeq(rows, p + 1, e) \in Seq(Checkout)
      /\ Len(SubSeq(rows, p + 1, e)) = IF p + 1 <= e THEN e - (p + 1) + 1 ELSE 0
      /\ \A i \in 1..(e - (p + 1) + 1) : SubSeq(rows, p + 1, e)[i] = rows[(p + 1) + i - 1]
    <2>1. \A i \in (p + 1)..e : rows[i] \in Checkout
        BY <1>4, <1>5, <1>6
    <2> QED  BY <2>1, SubSeqProperties
<1>9. PICK d \in Seq(Checkout) : d = SubSeq(rows, p + 1, e)
    BY <1>8
<1>10. PICK q \in Nat : /\ q = Len(d)
                        /\ p + 1 <= e => q = e - p
                        /\ ~(p + 1 <= e) => q = 0
    <2>1. e - (p + 1) + 1 = e - p
        OBVIOUS
    <2>2. CASE p + 1 <= e
        BY <1>8, <1>9, <2>1, <2>2
    <2>3. CASE ~(p + 1 <= e)
        BY <1>8, <1>9, <2>3
    <2> QED  BY <2>2, <2>3
<1>11. ToSet(d) \subseteq ToSet(rows)
    <2> SUFFICES ASSUME NEW i \in 1..q PROVE d[i] \in ToSet(rows)
        BY <1>9, <1>10, LenProperties DEF ToSet
    <2>1. i \in 1..(e - (p + 1) + 1) /\ (p + 1) + i - 1 \in 1..l
        BY <1>6, <1>10
    <2> QED  BY <1>4, <1>5, <1>8, <1>9, <2>1 DEF ToSet
<1>12. q <= PageSize /\ p + q <= p + PageSize
    BY <1>1, <1>6, <1>10
<1>13. ASSUME NEW m \in Nat, m <= p, m <= l PROVE m + q <= l
    BY <1>6, <1>10, <1>13
<1> QED  BY <1>2, <1>3, <1>5, <1>7, <1>9, <1>10, <1>11, <1>12, <1>13
-----------------------------------------------------------------------------
\* The chunks that were passed, whatever has become of them.
Passed == ToSet(queued) \cup failed \cup Downloading \cup {done.chunk : done \in accepted}

\* They end before the first day that is in no report yet, cover the days until
\* then, and have no day in common.  No more than one batch of a chunk waits or
\* runs.
ChunksOK ==
    /\ from \in FirstDay..(LastDay + 1)
    /\ queued \in Seq(Chunk) /\ Distinct(queued)
    /\ Passed \subseteq Chunk
    /\ Downloading \cap ToSet(queued) = {}
    /\ \A c \in Passed : c.first <= c.last /\ c.last < from
    /\ \A c, d \in Passed : c # d => c.last < d.first \/ d.last < c.first
    /\ \A day \in FirstDay..(from - 1) : \E c \in Passed : day \in c.first..c.last

\* The pages that were read hold orders of their chunk, no more of them than
\* pages of that size hold, nor than the provider said there are.  Unless one
\* vanished meanwhile, they and what was there at the beginning are still listed.
ReportOK ==
    report # NoReport =>
        /\ report = [chunk |-> report.chunk, page |-> report.page, attempt |-> report.attempt,
                     rows |-> report.rows, seen |-> report.seen, total |-> report.total,
                     summary |-> report.summary, there |-> report.there, lost |-> report.lost]
        /\ report.page \in Nat \ {0} /\ report.total \in Nat
        /\ report.rows \in Seq(Checkout)
        /\ \A o \in ToSet(report.rows) : Day[o] \in report.chunk.first..report.chunk.last
        /\ Len(report.rows) <= (report.page - 1) * PageSize
        /\ IF report.page = 1 THEN report.rows = <<>> ELSE Len(report.rows) <= report.total
        /\ ~report.lost => ToSet(report.rows) \cup report.there \subseteq Within(report.chunk)

\* What was published holds orders of its chunk, each once, and unless one
\* vanished meanwhile all that were there.
AcceptedOK ==
    \A done \in accepted :
        /\ done.rows \in Seq(Checkout) /\ Distinct(done.rows)
        /\ \A o \in ToSet(done.rows) : Day[o] \in done.chunk.first..done.chunk.last
        /\ ~done.lost => done.there \subseteq ToSet(done.rows)

DownloadInv == ListOK /\ ChunksOK /\ ReportOK /\ AcceptedOK

LEMMA DownloadInvInit ==
    ASSUME NEW there \in SUBSET Checkout, IsFiniteSet(there), DownloadInit(there)
    PROVE  DownloadInv
<1>1. PICK n \in Nat : n = Cardinality(there)
    BY FS_CardinalityType
<1>2. /\ list \in [1..n -> there]
      /\ \A i, j \in 1..n : i # j => list[i] # list[j]
    BY <1>1 DEF DownloadInit, SetToSeqs
<1>3. list \in Seq(Checkout) /\ Len(list) = n /\ DOMAIN list = 1..n
    BY <1>2
<1>4. ListOK
    BY <1>2, <1>3 DEF ListOK, Distinct
<1>5. /\ queued = <<>> /\ failed = {} /\ report = NoReport /\ accepted = {} /\ from = FirstDay
      /\ FirstDay \in Nat /\ LastDay \in Nat /\ FirstDay <= LastDay
    BY DownloadConstants DEF DownloadInit
<1>6. Passed = {} /\ Downloading = {}
    BY <1>5 DEF Passed, Downloading, ToSet
<1>7. Distinct(<<>>)
    BY DEF Distinct
<1>8. ChunksOK
    BY <1>5, <1>6, <1>7 DEF ChunksOK
<1> QED  BY <1>4, <1>5, <1>8 DEF DownloadInv, ReportOK, AcceptedOK

\* What happens at the provider leaves the download alone.
LEMMA ProviderStep ==
    ASSUME DownloadInv, ListOK', ReportOK', Downloading' = Downloading,
           UNCHANGED <<from, queued, failed, accepted>>
    PROVE  DownloadInv'
<1>1. Passed' = Passed
    BY DEF Passed
<1>2. ChunksOK'
    BY <1>1 DEF DownloadInv, ChunksOK
<1>3. AcceptedOK'
    BY DEF DownloadInv, AcceptedOK
<1> QED  BY <1>2, <1>3 DEF DownloadInv

\* As long as nothing vanishes, nothing that was read is gone.
LEMMA GrowingListKeeps ==
    ASSUME DownloadInv, ListOK', ToSet(list) \subseteq ToSet(list'),
           UNCHANGED <<from, queued, failed, report, accepted>>
    PROVE  DownloadInv'
<1>1. Downloading' = Downloading
    BY DEF Downloading
<1>2. ASSUME NEW c PROVE Within(c) \subseteq Within(c)'
    BY DEF Within
<1>3. ReportOK'
    BY <1>2 DEF DownloadInv, ReportOK
<1> QED  BY <1>1, <1>3, ProviderStep

LEMMA MovedOrderKeeps ==
    ASSUME DownloadInv, NEW i \in DOMAIN list, NEW j \in DOMAIN list, Move(i, j)
    PROVE  DownloadInv'
<1>1. list \in Seq(Checkout) /\ Distinct(list)
    BY DEF DownloadInv, ListOK
<1>2. Len(list) \in Nat /\ i \in 1..Len(list) /\ j \in 1..Len(list)
    BY <1>1, LenProperties
<1>3. PICK rest \in Seq(Checkout) :
         /\ rest = RemoveAt(list, i) /\ Len(rest) = Len(list) - 1 /\ Distinct(rest)
         /\ list[i] \in Checkout /\ list[i] \notin ToSet(rest)
         /\ ToSet(list) = ToSet(rest) \cup {list[i]}
    BY <1>1, <1>2, OneLess
<1>4. j \in 1..(Len(rest) + 1)
    BY <1>2, <1>3
<1>5. PICK o \in Checkout : o = list[i] /\ o \notin ToSet(rest)
    BY <1>3
<1>6. /\ InsertAt(rest, j, o) \in Seq(Checkout)
      /\ ToSet(InsertAt(rest, j, o)) = ToSet(rest) \cup {o}
      /\ Distinct(InsertAt(rest, j, o))
    BY <1>3, <1>4, <1>5, OneMore
<1>7. /\ list' = InsertAt(rest, j, o)
      /\ UNCHANGED <<from, queued, failed, report, accepted>>
    BY <1>3, <1>5 DEF Move, Change
<1>8. ToSet(list') = ToSet(list)
    BY <1>3, <1>5, <1>6, <1>7
<1>9. ListOK'
    BY <1>6, <1>7 DEF ListOK
<1> QED  BY <1>7, <1>8, <1>9, GrowingListKeeps

LEMMA AppearKeeps ==
    ASSUME DownloadInv, NEW o \in Checkout, NEW i \in 1..(Len(list) + 1), Appear(o, i)
    PROVE  DownloadInv'
<1>1. list \in Seq(Checkout) /\ Distinct(list)
    BY DEF DownloadInv, ListOK
<1>2. /\ o \notin ToSet(list) /\ list' = InsertAt(list, i, o)
      /\ UNCHANGED <<from, queued, failed, report, accepted>>
    BY DEF Appear, Change
<1>3. /\ InsertAt(list, i, o) \in Seq(Checkout)
      /\ ToSet(InsertAt(list, i, o)) = ToSet(list) \cup {o}
      /\ Distinct(InsertAt(list, i, o))
    BY <1>1, <1>2, OneMore
<1>4. ListOK' /\ ToSet(list) \subseteq ToSet(list')
    BY <1>2, <1>3 DEF ListOK
<1> QED  BY <1>2, <1>4, GrowingListKeeps

LEMMA VanishKeeps ==
    ASSUME DownloadInv, NEW i \in DOMAIN list, Vanish(i)
    PROVE  DownloadInv'
<1>1. list \in Seq(Checkout) /\ Distinct(list)
    BY DEF DownloadInv, ListOK
<1>2. i \in 1..Len(list)
    BY <1>1, LenProperties
<1>3. /\ RemoveAt(list, i) \in Seq(Checkout) /\ Distinct(RemoveAt(list, i))
      /\ ToSet(list) = ToSet(RemoveAt(list, i)) \cup {list[i]}
    BY <1>1, <1>2, OneLess
<1>4. /\ list' = RemoveAt(list, i)
      /\ UNCHANGED <<from, queued, failed, accepted>>
      /\ report' = IF list[i] \in UNION {ToSet(Listed(chunk)) : chunk \in Downloading}
                   THEN [report EXCEPT !.lost = TRUE] ELSE report
    BY DEF Vanish, Change
<1>5. ListOK'
    BY <1>3, <1>4 DEF ListOK
<1>6. CASE report = NoReport
    <2>1. UNION {ToSet(Listed(chunk)) : chunk \in Downloading} = {}
        BY <1>6 DEF Downloading
    <2>2. report' = report
        BY <1>4, <2>1
    <2>3. ReportOK' /\ Downloading' = Downloading
        BY <1>6, <2>2 DEF ReportOK, Downloading
    <2> QED  BY <1>4, <1>5, <2>3, ProviderStep
<1>7. CASE report # NoReport
    <2>1. UNION {ToSet(Listed(chunk)) : chunk \in Downloading} = ToSet(Listed(report.chunk))
        BY <1>7 DEF Downloading
    <2>2. ToSet(Listed(report.chunk)) = Within(report.chunk)
        BY ListedOnce DEF DownloadInv
    <2>3. report' = IF list[i] \in Within(report.chunk)
                    THEN [report EXCEPT !.lost = TRUE] ELSE report
        BY <1>4, <2>1, <2>2
    <2>4. report = [chunk |-> report.chunk, page |-> report.page, attempt |-> report.attempt,
                    rows |-> report.rows, seen |-> report.seen, total |-> report.total,
                    summary |-> report.summary, there |-> report.there, lost |-> report.lost]
        BY <1>7 DEF DownloadInv, ReportOK
    <2>5. CASE list[i] \in Within(report.chunk)
        <3>1. report' = [chunk |-> report.chunk, page |-> report.page,
                         attempt |-> report.attempt, rows |-> report.rows,
                         seen |-> report.seen, total |-> report.total,
                         summary |-> report.summary, there |-> report.there, lost |-> TRUE]
            BY <2>3, <2>4, <2>5
        <3>2. /\ report'.chunk = report.chunk /\ report'.page = report.page
              /\ report'.rows = report.rows /\ report'.total = report.total /\ report'.lost
              /\ report' = [chunk |-> report'.chunk, page |-> report'.page,
                            attempt |-> report'.attempt, rows |-> report'.rows,
                            seen |-> report'.seen, total |-> report'.total,
                            summary |-> report'.summary, there |-> report'.there,
                            lost |-> report'.lost]
            BY <3>1
        <3>3. report' # NoReport
            BY <1>7, <3>2 DEF NoReport, DownloadInv, ReportOK
        <3>4. ReportOK'
            BY <1>7, <3>2, <3>3 DEF DownloadInv, ReportOK
        <3>5. Downloading' = Downloading
            BY <1>7, <3>2, <3>3 DEF Downloading
        <3> QED  BY <1>4, <1>5, <3>4, <3>5, ProviderStep
    <2>6. CASE list[i] \notin Within(report.chunk)
        <3>1. report' = report
            BY <2>3, <2>6
        <3>2. Within(report.chunk) \subseteq Within(report.chunk)'
            BY <1>3, <1>4, <2>6, <3>1 DEF Within
        <3>3. ReportOK' /\ Downloading' = Downloading
            BY <3>1, <3>2 DEF DownloadInv, ReportOK, Downloading
        <3> QED  BY <1>4, <1>5, <3>3, ProviderStep
    <2> QED  BY <2>5, <2>6
<1> QED  BY <1>6, <1>7

\* A chunk gets a batch unless one waits or runs.
LEMMA EnqueueSingleKeeps ==
    ASSUME DownloadInv, NEW chunk \in Chunk, EnqueueSingle(chunk)
    PROVE  /\ queued' \in Seq(Chunk) /\ Distinct(queued')
           /\ Downloading \cap ToSet(queued') = {}
           /\ ToSet(queued') \cup Downloading = ToSet(queued) \cup Downloading \cup {chunk}
<1>1. queued \in Seq(Chunk) /\ Distinct(queued) /\ Downloading \cap ToSet(queued) = {}
    BY DEF DownloadInv, ChunksOK
<1>2. CASE chunk \in ToSet(queued) \cup Downloading
    BY <1>1, <1>2 DEF EnqueueSingle
<1>3. CASE chunk \notin ToSet(queued) \cup Downloading
    <2>1. queued' = Append(queued, chunk)
        BY <1>3 DEF EnqueueSingle
    <2>2. /\ Append(queued, chunk) \in Seq(Chunk) /\ Distinct(Append(queued, chunk))
          /\ ToSet(Append(queued, chunk)) = ToSet(queued) \cup {chunk}
        BY <1>1, <1>3, DistinctAppend
    <2> QED  BY <1>1, <1>3, <2>1, <2>2
<1> QED  BY <1>2, <1>3

\* The next report: it begins where the last one ended.
LEMMA EnqueueKeeps ==
    ASSUME DownloadInv, Enqueue
    PROVE  DownloadInv'
<1> DEFINE new == [first |-> from, last |-> LastOf(from)]
<1>1. /\ FirstDay \in Nat /\ LastDay \in Nat /\ MaxDays \in Nat \ {0} /\ from \in Nat
      /\ FirstDay <= from /\ from <= LastDay
    BY DownloadConstants DEF DownloadInv, ChunksOK, Enqueue
<1>2. PICK end \in Nat : end = LastOf(from) /\ from <= end /\ end <= LastDay
    <2>1. PICK f \in Nat : f = from + MaxDays - 1 /\ from <= f
        BY <1>1
    <2>2. PICK S \in SUBSET Nat : S = {f, LastDay}
        BY <1>1
    <2>3. PICK x \in S : \A y \in S : x <= y
        BY <1>1, <2>1, <2>2
    <2>4. Min(S) \in S /\ \A y \in S : Min(S) <= y
        BY <2>3, LeastOf
    <2>5. LastOf(from) = Min(S)
        BY <2>1, <2>2, Zenon DEF LastOf
    <2> QED  BY <1>1, <2>1, <2>2, <2>4, <2>5
<1>3. /\ new \in Chunk /\ new.first = from /\ new.last = end
    BY <1>1, <1>2 DEF Chunk
<1>4. /\ Passed \subseteq Chunk
      /\ \A c \in Passed : c.first <= c.last /\ c.last < from
      /\ \A c, d \in Passed : c # d => c.last < d.first \/ d.last < c.first
      /\ \A day \in FirstDay..(from - 1) : \E c \in Passed : day \in c.first..c.last
    BY DEF DownloadInv, ChunksOK
<1>5. /\ EnqueueSingle(new) /\ from' = end + 1
      /\ UNCHANGED <<list, changes, failed, report, accepted>>
    BY <1>2 DEF Enqueue, providerVars
<1> HIDE DEF new
<1>6. /\ queued' \in Seq(Chunk) /\ Distinct(queued')
      /\ Downloading \cap ToSet(queued') = {}
      /\ ToSet(queued') \cup Downloading = ToSet(queued) \cup Downloading \cup {new}
    BY <1>3, <1>5, EnqueueSingleKeeps
<1>7. Passed' = Passed \cup {new} /\ Downloading' = Downloading
    BY <1>5, <1>6 DEF Passed, Downloading
<1>8. from' \in FirstDay..(LastDay + 1) /\ from < from'
    BY <1>1, <1>2, <1>5
<1>9. \A c \in Passed : c.first \in Int /\ c.last \in Int
    BY <1>1, <1>4 DEF Chunk
<1>10. \A c \in Passed' : c.first <= c.last /\ c.last < from'
    BY <1>1, <1>2, <1>3, <1>4, <1>5, <1>7, <1>8, <1>9
<1>11. \A c, d \in Passed' : c # d => c.last < d.first \/ d.last < c.first
    BY <1>3, <1>4, <1>7
<1>12. ASSUME NEW day \in FirstDay..(from' - 1)
       PROVE  day \in FirstDay..(from - 1) \/ day \in new.first..new.last
    BY <1>1, <1>2, <1>3, <1>5
<1>13. \A day \in FirstDay..(from' - 1) : \E c \in Passed' : day \in c.first..c.last
    BY <1>4, <1>7, <1>12
<1>14. ChunksOK'
    BY <1>3, <1>4, <1>6, <1>7, <1>8, <1>10, <1>11, <1>13 DEF ChunksOK
<1>15. \A c : Within(c)' = Within(c)
    BY <1>5 DEF Within
<1>16. ListOK' /\ ReportOK' /\ AcceptedOK'
    BY <1>5, <1>15 DEF DownloadInv, ListOK, ReportOK, AcceptedOK
<1> QED  BY <1>14, <1>16 DEF DownloadInv

\* A report is asked for again, ...
LEMMA RetryKeeps ==
    ASSUME DownloadInv, NEW chunk \in Chunk, Retry(chunk)
    PROVE  DownloadInv'
<1>1. /\ chunk \in failed /\ EnqueueSingle(chunk)
      /\ UNCHANGED <<list, changes, from, failed, report, accepted>>
    BY DEF Retry, providerVars
<1>2. /\ queued' \in Seq(Chunk) /\ Distinct(queued')
      /\ Downloading \cap ToSet(queued') = {}
      /\ ToSet(queued') \cup Downloading = ToSet(queued) \cup Downloading \cup {chunk}
    BY <1>1, EnqueueSingleKeeps
<1>3. Downloading' = Downloading /\ Passed' = Passed
    BY <1>1, <1>2 DEF Passed, Downloading
<1>4. ChunksOK'
    BY <1>1, <1>2, <1>3 DEF DownloadInv, ChunksOK
<1>5. \A c : Within(c)' = Within(c)
    BY <1>1 DEF Within
<1>6. ListOK' /\ ReportOK' /\ AcceptedOK'
    BY <1>1, <1>5 DEF DownloadInv, ListOK, ReportOK, AcceptedOK
<1> QED  BY <1>4, <1>6 DEF DownloadInv

\* ... the first that waits is begun, ...
LEMMA BeginKeeps ==
    ASSUME DownloadInv, BeginReport
    PROVE  DownloadInv'
<1>1. /\ report = NoReport /\ queued # <<>> /\ report' = Begun(Head(queued))
      /\ queued' = Tail(queued)
      /\ UNCHANGED <<list, changes, from, failed, accepted>>
    BY DEF BeginReport, providerVars
<1>2. queued \in Seq(Chunk) /\ Distinct(queued)
    BY DEF DownloadInv, ChunksOK
<1>3. PICK chunk \in Chunk :
         /\ chunk = Head(queued) /\ chunk \notin ToSet(Tail(queued))
         /\ ToSet(queued) = ToSet(Tail(queued)) \cup {chunk}
         /\ Tail(queued) \in Seq(Chunk) /\ Distinct(Tail(queued))
    BY <1>1, <1>2, DistinctTail
<1>4. report' # NoReport /\ report'.chunk = chunk
    BY <1>1, <1>3 DEF Begun, NoReport
<1>5. Downloading = {} /\ Downloading' = {chunk} /\ Passed' = Passed
    BY <1>1, <1>3, <1>4 DEF Downloading, Passed
<1>6. ChunksOK'
    BY <1>1, <1>3, <1>5 DEF DownloadInv, ChunksOK
<1>7. ToSet(Listed(chunk)) = Within(chunk) /\ Within(chunk)' = Within(chunk)
    BY <1>1, ListedOnce DEF DownloadInv, Within
<1>8. ReportOK'
    <2>1. ToSet(<<>>) = {} /\ <<>> \in Seq(Checkout) /\ Len(<<>>) = 0
        BY DEF ToSet
    <2>2. (1 - 1) * PageSize = 0
        BY DownloadConstants
    <2>3. PICK w : w = ToSet(Listed(chunk))
        OBVIOUS
    <2>4. report' = [chunk |-> chunk, page |-> 1, attempt |-> 1, rows |-> <<>>,
                     seen |-> {}, total |-> 0, summary |-> 0, there |-> w, lost |-> FALSE]
        BY <1>1, <1>3, <2>3 DEF Begun
    <2>5. w = Within(chunk)
        BY <1>7, <2>3
    <2>6. report'.chunk = chunk /\ report'.there = w /\ report'.rows = <<>>
        BY <2>4
    <2>7. Within(report.chunk)' = Within(chunk)
        BY <1>1, <2>6 DEF Within
    <2>8. /\ report'.page = 1 /\ report'.total = 0 /\ ToSet(report'.rows) = {}
          /\ Len(report'.rows) = 0 /\ report'.rows \in Seq(Checkout)
          /\ (report'.page - 1) * PageSize = 0
          /\ (ToSet(report.rows) \cup report.there \subseteq Within(report.chunk))'
        BY <2>1, <2>2, <2>4, <2>5, <2>6, <2>7
    <2>9. report' = [chunk |-> report'.chunk, page |-> report'.page, attempt |-> report'.attempt,
                     rows |-> report'.rows, seen |-> report'.seen, total |-> report'.total,
                     summary |-> report'.summary, there |-> report'.there, lost |-> report'.lost]
        BY <2>4
    <2>10. (\A o \in ToSet(report.rows) : Day[o] \in report.chunk.first..report.chunk.last)'
        BY <2>8
    <2> QED  BY <2>6, <2>8, <2>9, <2>10 DEF ReportOK
<1>9. ListOK' /\ AcceptedOK'
    BY <1>1 DEF DownloadInv, ListOK, AcceptedOK
<1> QED  BY <1>6, <1>8, <1>9 DEF DownloadInv

\* ... and fails, ...
LEMMA FailsKeeps ==
    ASSUME DownloadInv, report # NoReport, Fails, UNCHANGED <<providerVars, from, queued>>
    PROVE  DownloadInv'
<1>1. /\ failed' = failed \cup {report.chunk} /\ report' = NoReport
      /\ UNCHANGED <<list, changes, from, queued, accepted>>
    BY DEF Fails, providerVars
<1>2. Downloading = {report.chunk} /\ Downloading' = {} /\ Passed' = Passed
    BY <1>1 DEF Passed, Downloading
<1>3. ChunksOK'
    BY <1>1, <1>2 DEF DownloadInv, ChunksOK
<1>4. ListOK' /\ ReportOK' /\ AcceptedOK'
    BY <1>1 DEF DownloadInv, ListOK, ReportOK, AcceptedOK
<1> QED  BY <1>3, <1>4 DEF DownloadInv

\* ... or is marked so after it was published.
LEMMA FailsLateKeeps ==
    ASSUME DownloadInv, NEW chunk \in Chunk, FailsLate(chunk)
    PROVE  DownloadInv'
<1>1. /\ chunk \in {done.chunk : done \in accepted} /\ failed' = failed \cup {chunk}
      /\ UNCHANGED <<list, changes, from, queued, report, accepted>>
    BY DEF FailsLate, providerVars
<1>2. Downloading' = Downloading /\ Passed' = Passed
    BY <1>1 DEF Passed, Downloading
<1>3. ChunksOK'
    BY <1>1, <1>2 DEF DownloadInv, ChunksOK
<1>4. \A c : Within(c)' = Within(c)
    BY <1>1 DEF Within
<1>5. ListOK' /\ ReportOK' /\ AcceptedOK'
    BY <1>1, <1>4 DEF DownloadInv, ListOK, ReportOK, AcceptedOK
<1> QED  BY <1>3, <1>5 DEF DownloadInv

\* An answer: as many orders as the provider said there are, on pages that say
\* the same, are all orders of the chunk, each once.
LEMMA AcceptedIsComplete ==
    ASSUME DownloadInv, report # NoReport,
           NEW all, all = Listed(report.chunk),
           NEW data, data = Page(all, report.page),
           report.page > 1 => report.total = Len(all)
    PROVE  /\ all \in Seq(Checkout) /\ data \in Seq(Checkout)
           /\ ToSet(data) \subseteq Within(report.chunk)
           /\ Len(report.rows \o data) <= Len(all)
           /\ Len(report.rows \o data) <= report.page * PageSize
           /\ Complete(report.rows \o data, Len(all)) =>
                 /\ Distinct(report.rows \o data)
                 /\ ~report.lost => ToSet(report.rows \o data) = Within(report.chunk)
<1>1. /\ report.page \in Nat \ {0} /\ report.total \in Nat /\ report.rows \in Seq(Checkout)
      /\ \A o \in ToSet(report.rows) : Day[o] \in report.chunk.first..report.chunk.last
      /\ Len(report.rows) <= (report.page - 1) * PageSize
      /\ IF report.page = 1 THEN report.rows = <<>> ELSE Len(report.rows) <= report.total
      /\ ~report.lost => ToSet(report.rows) \subseteq Within(report.chunk)
    BY DEF DownloadInv, ReportOK
<1>2. all \in Seq(Checkout) /\ ToSet(all) = Within(report.chunk) /\ Distinct(all)
    BY ListedOnce DEF DownloadInv
<1>3. /\ data \in Seq(Checkout) /\ ToSet(data) \subseteq ToSet(all)
      /\ \A m \in Nat : (m <= (report.page - 1) * PageSize /\ m <= Len(all))
             => m + Len(data) <= Len(all)
      /\ (report.page - 1) * PageSize + Len(data) <= report.page * PageSize
    BY <1>1, <1>2, PageOf
<1>4. PICK m \in Nat : m = Len(report.rows)
    BY <1>1, LenProperties
<1>5. m <= Len(all)
    <2>1. CASE report.page = 1
        BY <1>1, <1>2, <1>4, <2>1, LenProperties, EmptySeq
    <2>2. CASE report.page # 1
        BY <1>1, <1>4, <2>2
    <2> QED  BY <2>1, <2>2
<1>6. m + Len(data) <= Len(all)
    BY <1>1, <1>3, <1>4, <1>5
<1>7. PICK p \in Int : p = (report.page - 1) * PageSize
    BY <1>1, DownloadConstants
<1>8. PICK r \in Int : r = report.page * PageSize
    BY <1>1, DownloadConstants
<1>9. m + Len(data) <= r
    <2>1. Len(data) \in Nat /\ m <= p /\ p + Len(data) <= r
        BY <1>1, <1>3, <1>4, <1>7, <1>8, LenProperties
    <2> QED  BY <2>1
<1>10. PICK rows \in Seq(Checkout) :
          /\ rows = report.rows \o data /\ Len(rows) = m + Len(data)
          /\ ToSet(rows) = ToSet(report.rows) \cup ToSet(data)
    <2>0. PICK r1 \in Seq(Checkout), d \in Seq(Checkout) : r1 = report.rows /\ d = data
        BY <1>1, <1>3
    <2>1. r1 \o d \in Seq(Checkout) /\ ToSet(r1 \o d) = ToSet(r1) \cup ToSet(d)
        BY DistinctConcat
    <2>2. Len(report.rows \o data) = Len(report.rows) + Len(data)
        BY <1>1, <1>3, ConcatProperties
    <2> QED  BY <1>4, <2>0, <2>1, <2>2
<1>11. ASSUME Cardinality(ToSet(rows)) = Len(all)
       PROVE  /\ Distinct(rows)
              /\ ~report.lost => ToSet(rows) = Within(report.chunk)
    <2>1. /\ Cardinality(ToSet(rows)) <= Len(rows)
          /\ (Cardinality(ToSet(rows)) = Len(rows) <=> Distinct(rows))
          /\ Len(rows) \in Nat
        BY CountDistinct, LenProperties
    <2>2. Len(all) \in Nat /\ Len(rows) <= Len(all)
        BY <1>2, <1>6, <1>10, LenProperties
    <2>3. Distinct(rows)
        BY <1>11, <2>1, <2>2
    <2>4. ASSUME ~report.lost PROVE ToSet(rows) = Within(report.chunk)
        <3>1. ToSet(rows) \in SUBSET Within(report.chunk)
            BY <1>1, <1>2, <1>3, <1>10, <2>4
        <3>2. IsFiniteSet(Within(report.chunk)) /\ Cardinality(Within(report.chunk)) = Len(all)
            BY <1>2, CountDistinct
        <3> QED  BY <1>11, <3>1, <3>2, FS_Subset
    <2> QED  BY <2>3, <2>4
<1> QED  BY <1>2, <1>3, <1>6, <1>8, <1>9, <1>10, <1>11 DEF Complete

LEMMA AnswerKeeps ==
    ASSUME DownloadInv, Answer
    PROVE  DownloadInv'
<1> DEFINE all     == Listed(report.chunk)
           data    == Page(all, report.page)
           verdict == Verdict(data, Len(all), SummaryOf(all))
           chunk   == report.chunk
           rows    == report.rows \o data
<1>1. /\ report # NoReport
      /\ UNCHANGED <<list, changes, from, queued>>
      /\ UNCHANGED <<providerVars, from, queued>>
    BY DEF Answer, providerVars
<1>2. Downloading = {chunk}
    BY <1>1 DEF Downloading
<1>3. /\ report.rows \in Seq(Checkout) /\ report.page \in Nat \ {0}
      /\ \A o \in ToSet(report.rows) : Day[o] \in chunk.first..chunk.last
      /\ ~report.lost => ToSet(report.rows) \cup report.there \subseteq Within(chunk)
    BY <1>1 DEF DownloadInv, ReportOK
<1>4. ASSUME verdict \in {"accepted", "more"}
      PROVE  /\ all \in Seq(Checkout) /\ data \in Seq(Checkout)
             /\ ToSet(data) \subseteq Within(chunk)
             /\ Len(rows) <= Len(all)
             /\ Len(rows) <= report.page * PageSize
             /\ verdict = "accepted" =>
                   /\ Distinct(rows)
                   /\ ~report.lost => ToSet(rows) = Within(chunk)
             /\ rows \in Seq(Checkout) /\ ToSet(rows) = ToSet(report.rows) \cup ToSet(data)
             /\ \A o \in ToSet(rows) : Day[o] \in chunk.first..chunk.last
    <2>1. report.page > 1 => report.total = Len(all)
        BY <1>4 DEF Verdict
    <2>2. verdict = "accepted" => Complete(rows, Len(all))
        BY DEF Verdict
    <2> HIDE DEF all
    <2>3. PICK a : a = all
        OBVIOUS
    <2>4. PICK d : d = Page(a, report.page)
        OBVIOUS
    <2>5. a = Listed(report.chunk) /\ (report.page > 1 => report.total = Len(a))
        BY <2>1, <2>3 DEF all
    <2>6. /\ a \in Seq(Checkout) /\ d \in Seq(Checkout)
          /\ ToSet(d) \subseteq Within(report.chunk)
          /\ Len(report.rows \o d) <= Len(a)
          /\ Len(report.rows \o d) <= report.page * PageSize
          /\ Complete(report.rows \o d, Len(a)) =>
                /\ Distinct(report.rows \o d)
                /\ ~report.lost => ToSet(report.rows \o d) = Within(report.chunk)
        BY <1>1, <2>4, <2>5, AcceptedIsComplete
    <2>7. /\ report.rows \o d \in Seq(Checkout)
          /\ ToSet(report.rows \o d) = ToSet(report.rows) \cup ToSet(d)
        BY <1>3, <2>6, DistinctConcat
    <2>8. \A o \in ToSet(report.rows \o d) : Day[o] \in chunk.first..chunk.last
        BY <1>3, <2>6, <2>7 DEF Within
    <2>9. verdict = "accepted" => Complete(report.rows \o d, Len(a))
        BY <2>2, <2>3, <2>4
    <2> HIDE DEF verdict
    <2> QED  BY <2>3, <2>4, <2>6, <2>7, <2>8, <2>9
<1>5. \/ verdict = "accepted"
      \/ verdict = "more"
      \/ verdict \notin {"accepted", "more"}
    BY Zenon
<1>6. \/ verdict = "accepted"
           /\ accepted' = accepted \cup
                  {[chunk |-> report.chunk, rows |-> report.rows \o data,
                    there |-> report.there, lost |-> report.lost]}
           /\ report' = NoReport /\ UNCHANGED failed
      \/ verdict = "more" /\ UNCHANGED <<failed, accepted>>
           /\ report' = [report EXCEPT !.page = @ + 1, !.attempt = 1,
                             !.rows = @ \o data, !.seen = @ \cup {data},
                             !.total = Len(all), !.summary = SummaryOf(all)]
      \/ Fails
    BY <1>5 DEF Answer
<1> HIDE DEF verdict
<1>7. CASE Fails
    BY <1>1, <1>7, FailsKeeps
<1>8. CASE verdict = "accepted"
              /\ accepted' = accepted \cup
                     {[chunk |-> report.chunk, rows |-> report.rows \o data,
                       there |-> report.there, lost |-> report.lost]}
              /\ report' = NoReport /\ UNCHANGED failed
    <2>1. /\ rows \in Seq(Checkout) /\ Distinct(rows)
          /\ ~report.lost => ToSet(rows) = Within(chunk)
          /\ \A o \in ToSet(rows) : Day[o] \in chunk.first..chunk.last
        BY <1>4, <1>8
    <2>2. PICK q : q = rows
        OBVIOUS
    <2>3. PICK done : done = [chunk |-> report.chunk, rows |-> q,
                              there |-> report.there, lost |-> report.lost]
        OBVIOUS
    <2>4. /\ done.chunk = chunk /\ done.rows = q
          /\ done.there = report.there /\ done.lost = report.lost
        BY <2>3
    <2>5. accepted' = accepted \cup {done} /\ Downloading' = {}
        BY <1>8, <2>2, <2>3 DEF Downloading
    <2>6. Passed' = Passed
        BY <1>1, <1>2, <1>8, <2>4, <2>5 DEF Passed
    <2>7. ChunksOK'
        BY <1>1, <2>5, <2>6 DEF DownloadInv, ChunksOK
    <2>8. /\ done.rows \in Seq(Checkout) /\ Distinct(done.rows)
          /\ \A o \in ToSet(done.rows) : Day[o] \in done.chunk.first..done.chunk.last
          /\ ~done.lost => done.there \subseteq ToSet(done.rows)
        <3> HIDE DEF rows
        <3> QED  BY <1>3, <2>1, <2>2, <2>4
    <2>9. AcceptedOK'
        BY <2>5, <2>8 DEF DownloadInv, AcceptedOK
    <2>10. ListOK' /\ ReportOK'
        BY <1>1, <1>8 DEF DownloadInv, ListOK, ReportOK
    <2> QED  BY <2>7, <2>9, <2>10 DEF DownloadInv
<1>9. CASE verdict = "more" /\ UNCHANGED <<failed, accepted>>
             /\ report' = [report EXCEPT !.page = @ + 1, !.attempt = 1,
                               !.rows = @ \o data, !.seen = @ \cup {data},
                               !.total = Len(all), !.summary = SummaryOf(all)]
    <2>1. /\ all \in Seq(Checkout) /\ rows \in Seq(Checkout)
          /\ ToSet(rows) = ToSet(report.rows) \cup ToSet(data)
          /\ ToSet(data) \subseteq Within(chunk)
          /\ Len(rows) <= Len(all) /\ Len(rows) <= report.page * PageSize
          /\ \A o \in ToSet(rows) : Day[o] \in chunk.first..chunk.last
        BY <1>4, <1>9
    <2>2. report = [chunk |-> report.chunk, page |-> report.page, attempt |-> report.attempt,
                    rows |-> report.rows, seen |-> report.seen, total |-> report.total,
                    summary |-> report.summary, there |-> report.there, lost |-> report.lost]
        BY <1>1 DEF DownloadInv, ReportOK
    <2>3. PICK t : t = Len(all)
        OBVIOUS
    <2>4. PICK s : s = SummaryOf(all)
        OBVIOUS
    <2>5. PICK d : d = data
        OBVIOUS
    <2>6. report' = [chunk |-> report.chunk, page |-> report.page + 1, attempt |-> 1,
                     rows |-> report.rows \o d, seen |-> report.seen \cup {d}, total |-> t,
                     summary |-> s, there |-> report.there, lost |-> report.lost]
        <3>1. report' = [report EXCEPT !.page = @ + 1, !.attempt = 1,
                             !.rows = @ \o d, !.seen = @ \cup {d}, !.total = t, !.summary = s]
            BY <1>9, <2>3, <2>4, <2>5
        <3> HIDE DEF all, data
        <3> QED  BY <2>2, <3>1
    <2>7. report'.chunk = chunk /\ report'.page = report.page + 1 /\ report'.total = t
            /\ report'.rows = rows
            /\ report'.there = report.there /\ report'.lost = report.lost
        BY <2>5, <2>6
    <2>8. t \in Nat /\ Len(rows) <= t
        BY <2>1, <2>3, LenProperties
    <2>9. /\ ~report.lost => ToSet(rows) \cup report.there \subseteq Within(chunk)
          /\ Within(chunk)' = Within(chunk)
        <3>1. Within(chunk)' = Within(chunk)
            BY <1>1, <2>7 DEF Within
        <3> QED  BY <1>3, <2>1, <3>1
    <2>10. PICK n \in Nat \ {0} : n = report.page
        BY <1>3
    <2>11. /\ report'.page \in Nat \ {0} /\ report'.page # 1
           /\ Len(rows) <= (report'.page - 1) * PageSize
        <3>1. report'.page = n + 1 /\ report'.page - 1 = n
            BY <2>7, <2>10
        <3>2. Len(rows) <= n * PageSize
            BY <2>1, <2>10
        <3>3. (report'.page - 1) * PageSize = n * PageSize
            BY <3>1, Zenon
        <3>4. Len(rows) <= (report'.page - 1) * PageSize
            BY <3>2, <3>3, Zenon
        <3>5. report'.page \in Nat \ {0} /\ report'.page # 1
            BY <3>1
        <3> QED  BY <3>4, <3>5
    <2>12. report' # NoReport
        BY <2>11 DEF NoReport
    <2>13. report' = [chunk |-> report'.chunk, page |-> report'.page, attempt |-> report'.attempt,
                      rows |-> report'.rows, seen |-> report'.seen, total |-> report'.total,
                      summary |-> report'.summary, there |-> report'.there,
                      lost |-> report'.lost]
        BY <2>6
    <2> HIDE DEF rows, data, all
    <2>14. ReportOK'
        BY <1>1, <2>1, <2>7, <2>8, <2>9, <2>11, <2>12, <2>13 DEF ReportOK
    <2>15. Downloading' = Downloading /\ Passed' = Passed
        BY <1>1, <1>9, <2>7, <2>12 DEF Downloading, Passed
    <2>16. ChunksOK' /\ AcceptedOK' /\ ListOK'
        BY <1>1, <1>9, <2>15 DEF DownloadInv, ChunksOK, AcceptedOK, ListOK
    <2> QED  BY <2>14, <2>16 DEF DownloadInv
<1> QED  BY <1>6, <1>7, <1>8, <1>9

\* A page is asked for again.
LEMMA UnavailableKeeps ==
    ASSUME DownloadInv, Unavailable
    PROVE  DownloadInv'
<1>1. CASE Fails
    BY <1>1, FailsKeeps DEF Unavailable
<1>2. CASE report' = [report EXCEPT !.attempt = @ + 1] /\ UNCHANGED <<failed, accepted>>
    <2>1. /\ report # NoReport
          /\ UNCHANGED <<list, changes, from, queued, failed, accepted>>
        BY <1>2 DEF Unavailable, providerVars
    <2>2. report = [chunk |-> report.chunk, page |-> report.page, attempt |-> report.attempt,
                    rows |-> report.rows, seen |-> report.seen, total |-> report.total,
                    summary |-> report.summary, there |-> report.there, lost |-> report.lost]
        BY <2>1 DEF DownloadInv, ReportOK
    <2>3. report' = [chunk |-> report.chunk, page |-> report.page, attempt |-> report.attempt + 1,
                     rows |-> report.rows, seen |-> report.seen, total |-> report.total,
                     summary |-> report.summary, there |-> report.there, lost |-> report.lost]
        BY <1>2, <2>2
    <2>4. /\ report'.chunk = report.chunk /\ report'.page = report.page
          /\ report'.rows = report.rows /\ report'.total = report.total
          /\ report'.there = report.there /\ report'.lost = report.lost
          /\ report' = [chunk |-> report'.chunk, page |-> report'.page,
                        attempt |-> report'.attempt, rows |-> report'.rows,
                        seen |-> report'.seen, total |-> report'.total,
                        summary |-> report'.summary, there |-> report'.there,
                        lost |-> report'.lost]
        BY <2>3
    <2>5. report' # NoReport
        BY <2>1, <2>4 DEF NoReport, DownloadInv, ReportOK
    <2>6. ReportOK'
        <3>1. \A c : Within(c)' = Within(c)
            BY <2>1 DEF Within
        <3> QED  BY <2>1, <2>4, <2>5, <3>1 DEF DownloadInv, ReportOK
    <2>7. Downloading' = Downloading /\ Passed' = Passed
        BY <2>1, <2>4, <2>5 DEF Downloading, Passed
    <2>8. ChunksOK' /\ AcceptedOK' /\ ListOK'
        BY <2>1, <2>7 DEF DownloadInv, ChunksOK, AcceptedOK, ListOK
    <2> QED  BY <2>6, <2>8 DEF DownloadInv
<1> QED  BY <1>1, <1>2 DEF Unavailable

LEMMA DownloadInvStep ==
    ASSUME DownloadInv, [DownloadNext]_downloadVars
    PROVE  DownloadInv'
<1>1. CASE UNCHANGED downloadVars
    BY <1>1 DEF downloadVars, DownloadInv, ListOK, ChunksOK, ReportOK, AcceptedOK, Passed,
                Downloading, Within
<1>2. CASE \E i, j \in DOMAIN list : Move(i, j)
    BY <1>2, MovedOrderKeeps
<1>3. CASE \E i \in DOMAIN list : Vanish(i)
    BY <1>3, VanishKeeps
<1>4. CASE \E o \in Checkout, i \in 1..(Len(list) + 1) : Appear(o, i)
    BY <1>4, AppearKeeps
<1>5. CASE Enqueue
    BY <1>5, EnqueueKeeps
<1>6. CASE BeginReport
    BY <1>6, BeginKeeps
<1>7. CASE Answer
    BY <1>7, AnswerKeeps
<1>8. CASE Unavailable
    BY <1>8, UnavailableKeeps
<1>9. CASE Refused
    BY <1>9, FailsKeeps DEF Refused
<1>10. CASE \E chunk \in Chunk : Retry(chunk) \/ FailsLate(chunk)
    BY <1>10, RetryKeeps, FailsLateKeeps
<1> QED  BY <1>1, <1>2, <1>3, <1>4, <1>5, <1>6, <1>7, <1>8, <1>9, <1>10 DEF DownloadNext

\* Every published report has each order of its days once, no day of the range
\* is left out, and reports that share an order are of the same days: for any
\* orders, days, sizes of reports and pages, and however often the provider's
\* list changes, requests fail and days are retried, also after they were
\* published.
THEOREM OrdersAlwaysTakenOnce == DownloadSpec => []OrdersTakenOnce
<1>1. (\E there \in SUBSET Checkout : IsFiniteSet(there) /\ DownloadInit(there)) => DownloadInv
    BY DownloadInvInit
<1>2. DownloadInv /\ [DownloadNext]_downloadVars => DownloadInv'
    BY DownloadInvStep
<1>3. ASSUME DownloadInv PROVE OrdersTakenOnce
    <2>1. \A done \in accepted :
             /\ done.rows \in Seq(Checkout) /\ Distinct(done.rows)
             /\ \A o \in ToSet(done.rows) : Day[o] \in done.chunk.first..done.chunk.last
             /\ ~done.lost => done.there \subseteq ToSet(done.rows)
        BY <1>3 DEF DownloadInv, AcceptedOK
    <2>2. OnceInEach
        BY <2>1, CountDistinct DEF OnceInEach
    <2>3. NothingMissed
        BY <2>1 DEF NothingMissed
    <2>4. ASSUME NEW one \in accepted, NEW other \in accepted,
                 NEW o \in ToSet(one.rows), o \in ToSet(other.rows)
          PROVE  one.chunk = other.chunk
        <3>1. /\ Day[o] \in one.chunk.first..one.chunk.last
              /\ Day[o] \in other.chunk.first..other.chunk.last
            BY <2>1, <2>4
        <3>2. one.chunk \in Passed /\ other.chunk \in Passed
            BY DEF Passed
        <3>3. one.chunk \in Chunk /\ other.chunk \in Chunk
            BY <1>3, <3>2 DEF DownloadInv, ChunksOK
        <3>4. /\ one.chunk.first \in Int /\ one.chunk.last \in Int
              /\ other.chunk.first \in Int /\ other.chunk.last \in Int
            BY <3>3, DownloadConstants DEF Chunk
        <3>5. \/ one.chunk = other.chunk
              \/ one.chunk.last < other.chunk.first
              \/ other.chunk.last < one.chunk.first
            BY <1>3, <3>2 DEF DownloadInv, ChunksOK
        <3> QED  BY <3>1, <3>4, <3>5
    <2>5. AgainInRetriesOnly
        BY <2>4 DEF AgainInRetriesOnly
    <2>6. NoDayForgotten
        BY <1>3 DEF NoDayForgotten, DownloadInv, ChunksOK, Passed
    <2> QED  BY <2>2, <2>3, <2>5, <2>6 DEF OrdersTakenOnce
<1> QED  BY <1>1, <1>2, <1>3, PTL DEF DownloadSpec
=============================================================================
