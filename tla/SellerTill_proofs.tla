--------------------------- MODULE SellerTill_proofs ---------------------------
(***************************************************************************)
(* Proofs about the seller's app around its queue, for any points, sales,  *)
(* stock, life of a snapshot and number of presses: one draft per point,   *)
(* a point that is whole for whoever is let in, and a session that never   *)
(* looks fresher than its tokens.  The inductive invariant is TillInv.     *)
(***************************************************************************)
EXTENDS SellerTill, FiniteSetTheorems, FunctionTheorems, SequenceTheorems, TLAPS

\* What may stand for a sale.
SaleIds == Sales \cup {NoSale}

\* What may stand for a point.
PointIds == Points \cup {NoPoint}

\* A shelf, or the token of a product taken from one.
Shelves == [at : PointIds, issued : Nat]

\* The session as it is stored.
Stamps == [point : PointIds, issued : Nat]

\* The rows of db.orders.
Rows == [status : {"none", "draft", "queued", "synced", "rejected"}, point : PointIds,
         occurred : Nat, qty : Nat, item : Shelves, paid : BOOLEAN,
         server : {"none", "reserved", "completed"}]

\* The requests to the store, by their fields.
RequestRows ==
            [op : {"none", "start", "add", "set", "pay", "commit", "complete", "delete", "open",
                   "reset"},
             id : SaleIds, point : PointIds, qty : Nat, item : Shelves, clock : BOOLEAN,
             when : Nat, seen : SaleIds, then : SUBSET Sales]

\* Those that work on a sale name one.
Requests == {o \in RequestRows : o.op \notin {"none", "start", "reset"} => o.id \in Sales}

\* The requests that leave the database where it is.
QuietRequests == {o \in Requests : o.op # "reset"}

\* The types of the sales; no draft of the context means nothing in it.
SaleTypes == /\ rows \in [Sales -> Rows] /\ waiting \in [Sales -> SUBSET {"upsert", "complete"}]
             /\ draft \in [id : SaleIds, qty : Nat, paid : BOOLEAN]
             /\ draft.id = NoSale => draft.qty = 0
             /\ ops \in Seq(Requests)

\* The types of the point, its catalogue and its session.
PointTypes ==
  /\ now \in Nat /\ meta \in Stamps /\ cached \in [Points -> Nat]
  /\ session \in [point : PointIds, issued : Nat, expired : BOOLEAN]
  /\ shelf \in Shelves /\ warehouse \in PointIds
  /\ ready \in BOOLEAN /\ loading \in BOOLEAN
  /\ boot \in [what : {"none", "read", "locations", "fetch", "keep", "stamp", "show", "again"},
               kind : {"none", "init", "select", "refresh"}, point : PointIds, issued : Nat]

\* Two drafts are drafts of two points.
DraftsDiffer ==
  \A s, t \in Sales : rows[s].status = "draft" /\ rows[t].status = "draft"
                        /\ rows[s].point = rows[t].point => s = t

\* A bootstrap has stored products and has not shown them yet.
Fetched == boot.what \in {"stamp", "show", "again"}

\* Until they are shown nothing will throw them away: a reset is worked off before
\* products are stored, and cannot be asked for behind the spinner.
ResetComesFirst == Fetched => ops \in Seq(QuietRequests)

\* What PointIsWhole promises, but for its condition.
Whole == /\ warehouse # NoPoint /\ meta.point = warehouse
         /\ session.point = warehouse /\ shelf.at = warehouse
         /\ session.issued = meta.issued
         /\ session.issued <= shelf.issued /\ shelf.issued <= cached[warehouse]

\* How far a bootstrap is tells what the store and the context hold: the point is
\* whole but for what lies between the stamp of the session and its reading.
BootAgrees ==
  /\ loading <=> boot.what # "none"
  /\ boot.what \in {"read", "locations"} => ~ready
  /\ boot.what \in {"fetch", "keep"} \cup {"stamp", "show", "again"} => boot.point \in Points
  /\ ready => Whole \/ boot.what \in {"show", "again"}
  /\ ready /\ loading /\ boot.kind # "select" => boot.point = warehouse
  /\ Fetched => cached[boot.point] = boot.issued
  /\ boot.what \in {"show", "again"} => meta = [point |-> boot.point, issued |-> boot.issued]
  /\ boot.what = "again" => shelf = [at |-> boot.point, issued |-> boot.issued]
  /\ boot.what = "again" /\ ready => warehouse = boot.point

\* What was issued was issued before now; what is about to be shown is newer than the
\* session it replaces; and a session stands for tokens as new as it says.
TimesAgree ==
  /\ session.issued <= now /\ meta.issued <= now /\ \A p \in Points : cached[p] <= now
  /\ boot.what \in {"keep", "stamp", "show", "again"} =>
       /\ boot.issued <= now /\ session.issued <= boot.issued
       /\ boot.what = "keep" => \A p \in Points : cached[p] <= boot.issued
  /\ session.point = NoPoint => session.issued = 0
  /\ meta.point # NoPoint => meta.issued <= cached[meta.point]
  /\ session.point = shelf.at => session.issued <= shelf.issued

\* The inductive invariant.
TillInv == /\ SaleTypes /\ PointTypes /\ DraftsDiffer
           /\ ResetComesFirst /\ BootAgrees /\ TimesAgree

------------------------------------------------------------------------------
(* What is requested of the store. *)

\* The first request and the others.
LEMMA FirstRequest ==
  ASSUME NEW X, ops \in Seq(X), ops # << >>
  PROVE  ops[1] \in X /\ Tail(ops) \in Seq(X)
  OBVIOUS

\* One more request.
LEMMA NextRequest ==
  ASSUME NEW X, NEW s \in Seq(X), NEW o \in X
  PROVE  Append(s, o) \in Seq(X)
  OBVIOUS

\* A request that says nothing.
LEMMA PlainRequest == Op \in QuietRequests /\ NoShelf \in Shelves /\ QuietRequests \subseteq Requests
<1>1. NoShelf \in Shelves
  BY DEF NoShelf, Shelves, PointIds
<1>2. Op \in Requests /\ Op.op = "none"
  BY SMTT(30), <1>1 DEF Op, Requests, RequestRows, SaleIds, PointIds
<1> QED
  BY <1>1, <1>2 DEF QuietRequests

\* The requests that pages make.
LEMMA PageRequests ==
  ASSUME NEW id \in Sales, NEW n \in Nat, NEW item \in Shelves
  PROVE  /\ [Op EXCEPT !.op = "add", !.id = id, !.item = item] \in QuietRequests
         /\ [Op EXCEPT !.op = "set", !.id = id, !.qty = n] \in QuietRequests
         /\ [Op EXCEPT !.op = "pay", !.id = id] \in QuietRequests
         /\ [Op EXCEPT !.op = "commit", !.id = id] \in QuietRequests
         /\ \A S \in SUBSET Sales, name \in {"open", "delete", "complete"} :
              [Op EXCEPT !.op = name, !.id = id, !.then = S] \in QuietRequests
  BY ZenonT(60), PlainRequest DEF QuietRequests, Requests, RequestRows, SaleIds

\* The requests of a step are no reset, unless the seller asks for one.
LEMMA RequestsStep ==
  ASSUME SaleTypes, PointTypes, NEW X \in {Requests, QuietRequests}, ops \in Seq(X),
         TillNext, ~resetSession
  PROVE  ops' \in Seq(X)
<1>1. QuietRequests \subseteq X /\ Op \in X
  BY PlainRequest
<1>2. ops # << >> => ops[1] \in X /\ ops[1] \in Requests /\ Tail(ops) \in Seq(X)
  BY <1>1, FirstRequest, PlainRequest
<1>3. warehouse \in PointIds /\ shelf \in Shelves /\ draft.id \in SaleIds
      /\ draft.qty \in Nat /\ now \in Nat
  BY DEF SaleTypes, PointTypes
<1>4. \A o \in X : Append(ops, o) \in Seq(X)
  BY NextRequest
<1>5. ops # << >> => \A o \in X : Append(Tail(ops), o) \in Seq(X)
  BY <1>2, NextRequest
<1>6. \A item \in Shelves : StartDraft(item) => ops' \in Seq(X)
  <2> TAKE item \in Shelves
  <2> DEFINE o == [Op EXCEPT !.op = "start", !.point = warehouse, !.item = item]
  <2>1. o \in QuietRequests
    BY <1>3, PlainRequest DEF QuietRequests, Requests, RequestRows
  <2>2. StartDraft(item) => ops' = Append(ops, o)
    BY DEF StartDraft, Request
  <2> HIDE DEF o
  <2> QED
    BY <1>1, <1>4, <2>1, <2>2
<1>7. CASE wizardEffect
  BY <1>6, <1>7, PlainRequest DEF wizardEffect
<1>8. CASE addItem
  <2>1. CASE draft.id # NoSale /\ Request([Op EXCEPT !.op = "add", !.id = draft.id, !.item = shelf])
    BY <1>1, <1>3, <1>4, <1>8, <2>1, PageRequests DEF addItem, Request, SaleIds
  <2>2. CASE StartDraft(shelf)
    BY SMTT(30), <1>3, <1>6, <2>2
  <2> QED
    BY <1>8, <2>1, <2>2 DEF addItem
<1>9. ASSUME NEW q \in 0 .. Stock, updateItemQuantity(q) PROVE ops' \in Seq(X)
  <2>1. q \in Nat /\ draft.id \in Sales
    BY SMTT(30), <1>3, <1>9, TillAssumption DEF updateItemQuantity, SaleTypes, SaleIds
  <2> QED
    BY <1>1, <1>3, <1>4, <1>9, <2>1, PageRequests DEF updateItemQuantity, Request
<1>10. CASE updateDraft
  BY ZenonT(60), <1>1, <1>3, <1>4, <1>10, PageRequests DEF updateDraft, Request, SaleIds
<1>11. CASE commitDraft
  BY <1>1, <1>3, <1>4, <1>11, PageRequests DEF commitDraft, Request, SaleIds
<1>12. ASSUME NEW s \in Sales, NEW name \in {"open", "delete", "complete"}, runConfirm(s, name)
       PROVE  ops' \in Seq(X)
  <2> DEFINE S == IF name = "complete" THEN {s} ELSE {}
             o == [Op EXCEPT !.op = name, !.id = s, !.then = S]
  <2>1. S \in SUBSET Sales /\ 0 \in Nat
    OBVIOUS
  <2>2. ops' = Append(ops, o)
    BY SMTT(30), <1>12 DEF runConfirm, Request
  <2> HIDE DEF S
  <2>3. o \in X
    BY <1>1, <1>3, <2>1, PageRequests
  <2> HIDE DEF o
  <2> QED
    BY <1>4, <2>2, <2>3
<1>13. CASE completeDay
  <2> DEFINE all == {s \in Sales : rows[s].server = "reserved"}
             due == SetToSeq(all)
             more == [i \in DOMAIN due |->
                        [Op EXCEPT !.op = "complete", !.id = due[i],
                                   !.then = IF i = Len(due) THEN Sales ELSE {}]]
  <2>1. ops' = ops \o more
    BY <1>13 DEF completeDay
  <2>2. due \in Seq(Sales)
    <3>1. IsFiniteSet(all)
      BY TillAssumption, FS_Subset
    <3> DEFINE n == Cardinality(all)
    <3>2. n \in Nat /\ ExistsBijection(1 .. n, all)
      BY <3>1, FS_CardinalityType
    <3>3. \E f \in [1 .. n -> all] : IsInjective(f)
      BY <3>2 DEF ExistsBijection, Bijection, Injection, IsInjective
    <3>4. due \in [1 .. n -> all]
      BY <3>3 DEF SetToSeq
    <3> HIDE DEF due, n
    <3> QED
      BY <3>2, <3>4
  <2> HIDE DEF due
  <2>3. more \in Seq(X)
    <3>1. DOMAIN due = 1 .. Len(due) /\ Len(due) \in Nat /\ \A i \in 1 .. Len(due) : due[i] \in Sales
      BY <2>2
    <3>2. \A i \in DOMAIN due : [Op EXCEPT !.op = "complete", !.id = due[i],
                                          !.then = IF i = Len(due) THEN Sales ELSE {}] \in X
      <4> TAKE i \in DOMAIN due
      <4> DEFINE S == IF i = Len(due) THEN Sales ELSE {}
      <4>1. due[i] \in Sales /\ S \in SUBSET Sales
        BY SMTT(30), <3>1
      <4> HIDE DEF S
      <4>2. [Op EXCEPT !.op = "complete", !.id = due[i], !.then = S] \in QuietRequests
        BY <1>3, <4>1, PageRequests
      <4> QED
        BY <1>1, <4>2 DEF S
    <3>3. more \in [1 .. Len(due) -> X]
      BY <3>1, <3>2
    <3> HIDE DEF more
    <3> QED
      BY <3>1, <3>3
  <2> HIDE DEF more
  <2> QED
    BY <2>1, <2>3
<1>14. CASE serverNow
  <2> DEFINE o == [ops[1] EXCEPT !.clock = TRUE, !.when = now, !.seen = Draft1(ops[1].point)]
  <2>1. ops # << >> /\ ops' = Append(Tail(ops), o)
    BY <1>14 DEF serverNow, Head1
  <2>2. \A p : Draft1(p) \in SaleIds
    BY DEF Draft1, SaleIds
  <2>3. ops[1] \in X /\ ops[1] \in Requests
    BY <1>2, <2>1
  <2>4. o \in X
    <3>1. o \in Requests
      BY <1>3, <2>2, <2>3 DEF Requests, RequestRows
    <3>2. o.op = ops[1].op
      BY <2>3 DEF Requests, RequestRows
    <3> HIDE DEF o
    <3> QED
      BY <2>3, <3>1, <3>2 DEF QuietRequests
  <2> HIDE DEF o
  <2> QED
    BY <1>5, <2>1, <2>4
<1>15. CASE createOrResumeDraft
  <2> DEFINE found == Found(ops[1])
             s == IF found # NoSale THEN found ELSE CHOOSE new \in Unused : TRUE
             o == [Op EXCEPT !.op = "add", !.id = s, !.item = ops[1].item]
  <2>1. /\ ops # << >> /\ (found # NoSale \/ Unused # {})
        /\ ops' = IF ops[1].item = NoShelf THEN Tail(ops) ELSE Append(Tail(ops), o)
    BY <1>15 DEF createOrResumeDraft, Head1
  <2>2. s \in Sales
    BY <2>1 DEF Found, Draft1, Unused
  <2>3. ops[1].item \in Shelves
    BY <1>2, <2>1 DEF Requests, RequestRows
  <2> HIDE DEF s
  <2>4. o \in X
    BY <1>1, <1>3, <2>2, <2>3, PageRequests
  <2> HIDE DEF o
  <2> QED
    BY <1>2, <1>5, <2>1, <2>4
<1>16. CASE resetSellerDatabase \/ saveDraft \/ commitOrder \/ enqueueCommand \/ deleteDraft
            \/ getOrder
  BY <1>2, <1>16 DEF resetSellerDatabase, saveDraft, commitOrder, enqueueCommand, deleteDraft,
                    getOrder, Head1
<1>17. CASE reload
  BY <1>17 DEF reload
<1>18. CASE Booting \/ bootFails \/ drainOnce \/ refreshCatalog \/ goNext \/ goBack \/ syncAll \/ tick
  BY <1>18 DEF Booting, bootFails, drainOnce, refreshCatalog, goNext, goBack, syncAll, tick,
               init, fetchWorkLocations, fetchBootstrap, replaceCachedProducts, writeSession,
               showProducts, readAgain, Bootstrap
<1>19. ASSUME NEW p \in Points, selectWarehouse(p) PROVE ops' \in Seq(X)
  BY <1>19 DEF selectWarehouse, Bootstrap
<1>20. ASSUME NEW page \in Pages, goTo(page) PROVE ops' \in Seq(X)
  BY <1>20 DEF goTo
<1>21. ASSUME NEW s \in Sales, syncOrder(s) PROVE ops' \in Seq(X)
  BY <1>21 DEF syncOrder
<1> QED
  BY <1>7, <1>8, <1>9, <1>10, <1>11, <1>12, <1>13, <1>14, <1>15, <1>16, <1>17, <1>18, <1>19,
     <1>20, <1>21 DEF TillNext, Storing

------------------------------------------------------------------------------
(* The sales. *)

\* Nothing becomes a draft, and no draft changes its point.
NoNewDraft == \A s \in Sales : rows'[s].status = "draft" =>
                rows[s].status = "draft" /\ rows'[s].point = rows[s].point

\* A copy of a row for the page.
LEMMA CopyTypes ==
  ASSUME NEW s \in Sales, NEW row \in Rows
  PROVE  /\ Copy(s, row) \in [id : SaleIds, qty : Nat, paid : BOOLEAN] /\ Copy(s, row).id = s
         /\ NoDraft \in [id : SaleIds, qty : Nat, paid : BOOLEAN]
         /\ NoDraft.id = NoSale /\ NoDraft.qty = 0
  BY DEF Copy, NoDraft, Rows, SaleIds

\* What a step is to keep of the sales.
SaleStep ==
  /\ rows' \in [Sales -> Rows] /\ waiting' \in [Sales -> SUBSET {"upsert", "complete"}]
  /\ draft' \in [id : SaleIds, qty : Nat, paid : BOOLEAN]
  /\ draft'.id = NoSale => draft'.qty = 0
  /\ DraftsDiffer'

\* The lookup inside the transaction creates no second draft of a point.
LEMMA CreateStep == ASSUME SaleTypes, PointTypes, DraftsDiffer, createOrResumeDraft PROVE SaleStep
<1> DEFINE o == ops[1]
           found == Found(o)
           s == IF found # NoSale THEN found ELSE CHOOSE new \in Unused : TRUE
           row == IF found # NoSale THEN rows[s] ELSE emptyOrder(o.point, o.when)
<1>1. /\ ops # << >> /\ (found # NoSale \/ Unused # {})
      /\ rows' = [rows EXCEPT ![s] = row] /\ draft' = Copy(s, rows'[s]) /\ waiting' = waiting
  BY DEF createOrResumeDraft, Head1
<1>2. o \in Requests /\ rows \in [Sales -> Rows] /\ ops \in Seq(Requests)
  BY <1>1, FirstRequest DEF SaleTypes
<1>3. found = Draft1(o.point)
  BY SMTT(30) DEF Found
<1>4. s \in Sales /\ (found # NoSale => s = found)
  BY <1>1, <1>3 DEF Draft1, Unused
<1>5. found = NoSale => \A t \in Sales : ~(rows[t].status = "draft" /\ rows[t].point = o.point)
  <2> SUFFICES ASSUME found = NoSale, NEW t \in Sales,
                      rows[t].status = "draft" /\ rows[t].point = o.point PROVE FALSE
    OBVIOUS
  <2>1. found \in Sales
    BY <1>3 DEF Draft1
  <2> QED
    BY <2>1, TillAssumption
<1>6. row \in Rows /\ (found = NoSale => row.point = o.point)
  <2>1. o.point \in PointIds /\ o.when \in Nat
    BY <1>2 DEF Requests, RequestRows
  <2>2. emptyOrder(o.point, o.when) \in Rows /\ emptyOrder(o.point, o.when).point = o.point
    BY <2>1, PlainRequest DEF emptyOrder, NoRow, Rows, PointIds
  <2> QED
    BY <1>2, <1>4, <2>2
<1>7. found # NoSale => row = rows[s]
  OBVIOUS
<1> HIDE DEF s, row, found, o
<1>8. rows' \in [Sales -> Rows] /\ rows'[s] = row /\ \A t \in Sales \ {s} : rows'[t] = rows[t]
  BY <1>1, <1>2, <1>4, <1>6
<1>9. DraftsDiffer'
  <2>1. CASE found # NoSale
    BY <1>4, <1>7, <1>8, <2>1 DEF DraftsDiffer
  <2>2. CASE found = NoSale
    BY <1>4, <1>5, <1>6, <1>8, <2>2 DEF DraftsDiffer
  <2> QED
    BY <2>1, <2>2
<1>10. draft' \in [id : SaleIds, qty : Nat, paid : BOOLEAN] /\ draft'.id # NoSale
  BY <1>1, <1>4, <1>6, <1>8, CopyTypes, TillAssumption
<1> QED
  BY <1>1, <1>8, <1>9, <1>10 DEF SaleStep, SaleTypes

\* A drain brings a verdict on rows that it leaves sales.
LEMMA AnsweredRow ==
  ASSUME SaleTypes, NEW s \in Sales
  PROVE  /\ Answered(s) \in Rows
         /\ Answered(s).status = "draft" =>
              rows[s].status = "draft" /\ Answered(s).point = rows[s].point
<1>1. rows[s] \in Rows
  BY DEF SaleTypes
<1>2. /\ Upserted(s) \in Rows /\ Upserted(s).point = rows[s].point
      /\ Upserted(s).status = "draft" => rows[s].status = "draft"
  BY <1>1 DEF Upserted, Rows
<1>3. /\ [Upserted(s) EXCEPT !.status = "synced", !.server = "completed"] \in Rows
      /\ [Upserted(s) EXCEPT !.status = "synced", !.server = "completed"].status = "synced"
  BY <1>2 DEF Rows
<1>4. CASE Sendable(s)
  BY <1>3, <1>4 DEF Answered
<1>5. CASE ~Sendable(s)
  BY <1>2, <1>5 DEF Answered
<1> QED
  BY <1>4, <1>5

\* A product that is added changes the quantity and the token of a row.
LEMMA AddedRow ==
  ASSUME NEW row \in Rows, NEW o, o.item \in Shelves
  PROVE  Added(row, o) \in Rows /\ Added(row, o).status = row.status
                               /\ Added(row, o).point = row.point
<1> DEFINE q == row.qty + 1
           item == o.item
           new == [row EXCEPT !.qty = q, !.item = item]
<1>1. q \in Nat /\ item \in Shelves
  BY DEF Rows
<1>2. Added(row, o) = row \/ Added(row, o) = new
  BY DEF Added
<1> HIDE DEF q, item
<1>3. new \in Rows /\ new.status = row.status /\ new.point = row.point
  BY <1>1 DEF Rows
<1> HIDE DEF new
<1> QED
  BY <1>2, <1>3

\* Every step of the till keeps the sales.
LEMMA SalesStep == ASSUME SaleTypes, PointTypes, DraftsDiffer, TillNext PROVE SaleStep
<1>1. /\ rows \in [Sales -> Rows] /\ waiting \in [Sales -> SUBSET {"upsert", "complete"}]
      /\ draft \in [id : SaleIds, qty : Nat, paid : BOOLEAN]
      /\ draft.id = NoSale => draft.qty = 0
  BY DEF SaleTypes
<1>2. ops # << >> => ops[1] \in Requests
  BY FirstRequest DEF SaleTypes
<1>3. NoRow \in Rows /\ NoRow.status # "draft"
  BY PlainRequest DEF NoRow, Rows, PointIds
<1>4. NoNewDraft => DraftsDiffer'
  BY DEF NoNewDraft, DraftsDiffer
<1>5. CASE UNCHANGED << rows, waiting, draft >>
  BY <1>1, <1>5 DEF SaleStep, DraftsDiffer
<1>6. NoDraft \in [id : SaleIds, qty : Nat, paid : BOOLEAN] /\ NoDraft.qty = 0
  BY DEF NoDraft, SaleIds
<1>7. CASE resetSellerDatabase
  <2>1. /\ rows' = [s \in Sales |-> NoRow] /\ waiting' = [s \in Sales |-> {}] /\ draft' = NoDraft
    BY <1>7 DEF resetSellerDatabase
  <2>2. NoNewDraft
    BY <1>3, <2>1 DEF NoNewDraft
  <2> QED
    BY <1>3, <1>4, <1>6, <2>1, <2>2 DEF SaleStep
<1>8. CASE saveDraft
  <2> DEFINE o == ops[1]
             row == Patched(rows[o.id], o)
  <2>1. /\ ops # << >> /\ o.op \in {"add", "set", "pay"} /\ waiting' = waiting
        /\ \/ rows' = [rows EXCEPT ![o.id] = row] /\ draft' = Copy(o.id, row)
           \/ UNCHANGED << rows, draft >>
    BY <1>8 DEF saveDraft, Head1
  <2>2. o \in Requests /\ o.id \in Sales
    BY <1>2, <2>1 DEF Requests
  <2>3. rows[o.id] \in Rows /\ o.qty \in Nat /\ o.item \in Shelves
    BY <1>1, <2>2 DEF Requests, RequestRows
  <2>4. row \in Rows /\ row.status = rows[o.id].status /\ row.point = rows[o.id].point
    <3> HIDE DEF o
    <3>1. CASE o.op = "add"
      <4>1. row = Added(rows[o.id], o)
        BY <3>1 DEF Patched
      <4> QED
        BY <2>3, <4>1, AddedRow DEF Requests, RequestRows
    <3>2. CASE o.op = "set"
      BY <2>3, <3>2 DEF Patched, Rows
    <3>3. CASE o.op = "pay"
      BY <2>3, <3>3 DEF Patched, Rows
    <3> QED
      BY <2>1, <3>1, <3>2, <3>3
  <2> HIDE DEF o, row
  <2>5. CASE rows' = [rows EXCEPT ![o.id] = row] /\ draft' = Copy(o.id, row)
    <3>1. rows' \in [Sales -> Rows] /\ NoNewDraft
      BY <1>1, <2>2, <2>4, <2>5 DEF NoNewDraft
    <3>2. draft' \in [id : SaleIds, qty : Nat, paid : BOOLEAN] /\ draft'.id # NoSale
      BY <2>2, <2>4, <2>5, CopyTypes, TillAssumption
    <3> QED
      BY <1>1, <1>4, <2>1, <3>1, <3>2 DEF SaleStep
  <2> QED
    BY <1>5, <2>1, <2>5
<1>9. CASE commitOrder
  <2> DEFINE o == ops[1]
  <2>1. /\ ops # << >> /\ o.op = "commit"
        /\ \/ /\ rows' = [rows EXCEPT ![o.id].status = "queued"]
              /\ waiting' = [waiting EXCEPT ![o.id] = @ \cup {"upsert"}]
              /\ draft' = NoDraft
           \/ UNCHANGED << rows, waiting, draft >>
    BY <1>9 DEF commitOrder, Head1, saleVars
  <2>2. o.id \in Sales
    BY <1>2, <2>1 DEF Requests
  <2> HIDE DEF o
  <2>3. CASE /\ rows' = [rows EXCEPT ![o.id].status = "queued"]
             /\ waiting' = [waiting EXCEPT ![o.id] = @ \cup {"upsert"}]
             /\ draft' = NoDraft
    <3>1. rows' \in [Sales -> Rows] /\ NoNewDraft
      BY <1>1, <2>2, <2>3 DEF NoNewDraft, Rows
    <3>2. waiting' \in [Sales -> SUBSET {"upsert", "complete"}]
      BY <1>1, <2>2, <2>3
    <3> QED
      BY <1>4, <1>6, <2>3, <3>1, <3>2 DEF SaleStep
  <2> QED
    BY <1>5, <2>1, <2>3
<1>10. CASE enqueueCommand
  <2> DEFINE o == ops[1]
             st == IF "complete" \in waiting[o.id] THEN rows[o.id].status ELSE "queued"
  <2>1. /\ ops # << >> /\ o.op = "complete" /\ draft' = draft
        /\ \/ /\ rows' = [rows EXCEPT ![o.id].status = st]
              /\ waiting' = [waiting EXCEPT ![o.id] = @ \cup {"complete"}]
           \/ UNCHANGED << rows, waiting, draft >>
    BY <1>10 DEF enqueueCommand, Head1, saleVars
  <2>2. o.id \in Sales
    BY <1>2, <2>1 DEF Requests
  <2>3. st \in {rows[o.id].status, "queued"}
    OBVIOUS
  <2> HIDE DEF o, st
  <2>4. CASE /\ rows' = [rows EXCEPT ![o.id].status = st]
             /\ waiting' = [waiting EXCEPT ![o.id] = @ \cup {"complete"}]
    <3>1. rows' \in [Sales -> Rows] /\ NoNewDraft
      BY <1>1, <2>2, <2>3, <2>4 DEF NoNewDraft, Rows
    <3>2. waiting' \in [Sales -> SUBSET {"upsert", "complete"}]
      BY <1>1, <2>2, <2>4
    <3> QED
      BY <1>1, <1>4, <2>1, <3>1, <3>2 DEF SaleStep
  <2> QED
    BY <1>5, <2>1, <2>4
<1>11. CASE deleteDraft
  <2>1. /\ waiting' = waiting /\ draft' = draft
        /\ rows' = [rows EXCEPT ![ops[1].id] = NoRow] \/ rows' = rows
    BY <1>11 DEF deleteDraft
  <2>2. rows' \in [Sales -> Rows] /\ NoNewDraft
    BY <1>1, <1>3, <2>1 DEF NoNewDraft
  <2> QED
    BY <1>1, <1>4, <2>1, <2>2 DEF SaleStep
<1>12. CASE getOrder
  <2>1. /\ ops # << >> /\ ops[1].op = "open" /\ UNCHANGED << rows, waiting >>
        /\ draft' = Copy(ops[1].id, rows[ops[1].id]) \/ draft' = NoDraft
    BY <1>12 DEF getOrder, Head1, saleVars
  <2>2. ops[1].id \in Sales
    BY <1>2, <2>1 DEF Requests
  <2>3. /\ draft' \in [id : SaleIds, qty : Nat, paid : BOOLEAN]
        /\ draft'.id = NoSale => draft'.qty = 0
    BY <1>1, <1>6, <2>1, <2>2, CopyTypes, TillAssumption
  <2> QED
    BY <1>1, <2>1, <2>3 DEF SaleStep, DraftsDiffer
<1>13. CASE drainOnce
  <2>1. draft' = draft
    BY <1>13 DEF drainOnce
  <2>2. PICK in : /\ rows' = [s \in Sales |-> IF s \in in THEN Answered(s) ELSE rows[s]]
                  /\ waiting' = [s \in Sales |-> IF s \in in
                       THEN waiting[s] \ ({"upsert"} \cup (IF Sendable(s) THEN {"complete"} ELSE {}))
                       ELSE waiting[s]]
    BY ZenonT(60), <1>13 DEF drainOnce
  <2>3. rows' \in [Sales -> Rows] /\ NoNewDraft
    BY <1>1, <2>2, AnsweredRow DEF NoNewDraft
  <2>4. waiting' \in [Sales -> SUBSET {"upsert", "complete"}]
    BY <1>1, <2>2
  <2> QED
    BY <1>1, <1>4, <2>1, <2>3, <2>4 DEF SaleStep
<1>14. CASE reload
  BY <1>1, <1>6, <1>14 DEF reload, saleVars, SaleStep, DraftsDiffer
<1>15. ASSUME \/ init \/ fetchWorkLocations \/ fetchBootstrap \/ replaceCachedProducts
              \/ writeSession \/ showProducts \/ readAgain \/ bootFails \/ refreshCatalog
              \/ resetSession \/ addItem \/ updateDraft \/ goNext \/ goBack \/ commitDraft
              \/ completeDay \/ syncAll \/ tick \/ wizardEffect \/ serverNow
       PROVE  UNCHANGED << rows, waiting, draft >>
  BY <1>15 DEF init, fetchWorkLocations, fetchBootstrap, replaceCachedProducts, writeSession,
               showProducts, readAgain, bootFails, refreshCatalog, resetSession, addItem,
               updateDraft, goNext, goBack, commitDraft, completeDay, syncAll, tick, wizardEffect,
               serverNow, Bootstrap, saleVars
<1>16. ASSUME \/ \E p \in Points : selectWarehouse(p)
              \/ \E q \in 0 .. Stock : updateItemQuantity(q)
              \/ \E page \in Pages : goTo(page)
              \/ \E s \in Sales : \/ syncOrder(s)
                                  \/ \E name \in {"open", "delete", "complete"} : runConfirm(s, name)
       PROVE  UNCHANGED << rows, waiting, draft >>
  BY <1>16 DEF selectWarehouse, updateItemQuantity, goTo, syncOrder, runConfirm, Bootstrap, saleVars
<1> QED
  BY <1>5, <1>7, <1>8, <1>9, <1>10, <1>11, <1>12, <1>13, <1>14, <1>15, <1>16, CreateStep
     DEF TillNext, Booting, Storing

------------------------------------------------------------------------------
(* The work point and its catalogue. *)

\* What a step is to keep of the point.
PointStep == PointTypes' /\ BootAgrees' /\ TimesAgree'

\* The session as it is read back.
LEMMA SessionRead ==
  ASSUME PointTypes
  PROVE  /\ readSession \in [point : PointIds, issued : Nat, expired : BOOLEAN]
         /\ readSession.point = meta.point /\ readSession.issued = meta.issued
<1> DEFINE late == now > meta.issued + Ttl
<1>1. late \in BOOLEAN /\ meta.point \in PointIds /\ meta.issued \in Nat
  BY DEF PointTypes, Stamps
<1>2. readSession = [point |-> meta.point, issued |-> meta.issued, expired |-> late]
  BY DEF readSession
<1> HIDE DEF late
<1> QED
  BY <1>1, <1>2

\* A tab that opens takes over the stored session, with what was cached for it.
LEMMA InitKeepsPoint == ASSUME PointTypes, BootAgrees, TimesAgree, init PROVE PointStep
<1>1. CASE meta.point = NoPoint
  BY <1>1, TillAssumption
     DEF init, PointTypes, BootAgrees, TimesAgree, PointStep, storeVars, Whole, Fetched
<1>2. CASE meta.point # NoPoint
  <2>1. meta.point \in Points /\ meta.issued \in Nat /\ cached[meta.point] \in Nat
    BY <1>2 DEF PointTypes, Stamps, PointIds
  <2>2. /\ session' = readSession /\ warehouse' = meta.point /\ ready' = TRUE
        /\ shelf' = [at |-> meta.point, issued |-> cached[meta.point]]
        /\ boot' = [boot EXCEPT !.what = "fetch", !.point = meta.point]
        /\ boot.what = "read" /\ UNCHANGED << now, meta, cached, loading >>
    BY <1>2 DEF init, storeVars
  <2>3. /\ boot'.what = "fetch" /\ boot'.point = meta.point
        /\ session'.point = meta.point /\ session'.issued = meta.issued
        /\ shelf'.at = meta.point /\ shelf'.issued = cached[meta.point]
    BY <2>2 DEF PointTypes, readSession
  <2>4. PointTypes'
    BY <2>1, <2>2, SessionRead DEF PointTypes, Shelves, PointIds
  <2>5. meta.issued <= cached[meta.point]
    BY <1>2 DEF TimesAgree
  <2>6. BootAgrees'
    BY <1>2, <2>1, <2>2, <2>3, <2>5 DEF BootAgrees, Whole, Fetched
  <2>7. TimesAgree'
    BY <1>2, <2>1, <2>2, <2>3 DEF TimesAgree
  <2> QED
    BY <2>4, <2>6, <2>7 DEF PointStep
<1> QED
  BY <1>1, <1>2

\* A bootstrap begins with the point that is there.
LEMMA BootstrapKeepsPoint ==
  ASSUME PointTypes, BootAgrees, TimesAgree, NEW p \in Points,
         NEW kind \in {"select", "refresh"}, kind = "refresh" => p = warehouse, Bootstrap(kind, p)
  PROVE  PointStep
<1>1. /\ boot' = [NoBoot EXCEPT !.what = "fetch", !.kind = kind, !.point = p]
      /\ ~loading /\ loading' = TRUE
      /\ UNCHANGED << now, meta, cached, session, shelf, ready, warehouse >>
  BY DEF Bootstrap, Covered, PointWhenAskedFor, storeVars
<1>2. boot'.what = "fetch" /\ boot'.kind = kind /\ boot'.point = p /\ boot'.issued = 0
  BY <1>1 DEF NoBoot
<1>3. PointTypes'
  BY <1>1 DEF PointTypes, NoBoot, PointIds
<1>4. BootAgrees'
  BY <1>1, <1>2 DEF BootAgrees, Whole, Fetched
<1>5. TimesAgree'
  BY <1>1, <1>2 DEF TimesAgree
<1> QED
  BY <1>3, <1>4, <1>5 DEF PointStep

\* The answer is issued now: no cache is newer.
LEMMA FetchKeepsPoint ==
  ASSUME PointTypes, BootAgrees, TimesAgree, fetchBootstrap PROVE PointStep
<1>1. /\ boot.what = "fetch" /\ boot' = [boot EXCEPT !.what = "keep", !.issued = now]
      /\ UNCHANGED << now, meta, cached, session, shelf, warehouse, ready, loading >>
  BY DEF fetchBootstrap, PhaseAfter, storeVars
<1>2. /\ boot'.what = "keep" /\ boot'.kind = boot.kind /\ boot'.point = boot.point
      /\ boot'.issued = now
  BY <1>1 DEF PointTypes
<1>3. PointTypes'
  BY <1>1 DEF PointTypes
<1>4. BootAgrees'
  BY <1>1, <1>2 DEF BootAgrees, Whole, Fetched
<1>5. TimesAgree'
  BY <1>1, <1>2 DEF TimesAgree, PointTypes
<1> QED
  BY <1>3, <1>4, <1>5 DEF PointStep

\* The cache of the point becomes newer, perhaps the one the old session stands for.
LEMMA CacheKeepsPoint ==
  ASSUME PointTypes, BootAgrees, TimesAgree, replaceCachedProducts PROVE PointStep
<1>1. /\ boot.what = "keep" /\ boot' = [boot EXCEPT !.what = "stamp"]
      /\ cached' = [cached EXCEPT ![boot.point] = boot.issued]
      /\ UNCHANGED << now, meta, session, shelf, warehouse, ready, loading >>
  BY DEF replaceCachedProducts, PhaseAfter
<1>2. /\ boot'.what = "stamp" /\ boot'.kind = boot.kind /\ boot'.point = boot.point
      /\ boot'.issued = boot.issued /\ boot.issued \in Nat
  BY <1>1 DEF PointTypes
<1>3. boot.point \in Points /\ cached'[boot.point] = boot.issued
      /\ \A p \in Points \ {boot.point} : cached'[p] = cached[p]
  BY <1>1 DEF BootAgrees, PointTypes
<1>4. PointTypes'
  BY <1>1, <1>2 DEF PointTypes
<1>5. BootAgrees'
  <2>1. ready => Whole
    BY <1>1 DEF BootAgrees
  <2>2. warehouse # NoPoint => warehouse \in Points /\ cached[warehouse] <= cached'[warehouse]
    BY <1>1, <1>2, <1>3 DEF TimesAgree, PointTypes, PointIds
  <2>3. shelf.issued \in Nat /\ \A p \in Points : cached[p] \in Nat
    BY DEF PointTypes, Shelves
  <2>4. ready' => Whole'
    BY <1>1, <1>2, <1>3, <2>1, <2>2, <2>3 DEF Whole
  <2> QED
    BY <1>1, <1>2, <1>3, <2>4 DEF BootAgrees, Fetched
<1>6. TimesAgree'
  <2>1. meta.point \in PointIds /\ meta.issued \in Nat /\ \A p \in Points : cached[p] \in Nat
    BY DEF PointTypes, Stamps
  <2>2. meta.point # NoPoint => meta.issued <= cached'[meta.point]
    BY <1>1, <1>2, <1>3, <2>1 DEF TimesAgree, PointIds
  <2> QED
    BY <1>1, <1>2, <1>3, <2>2 DEF TimesAgree
<1> QED
  BY <1>4, <1>5, <1>6 DEF PointStep

\* The session is stored after the cache it stands for.
LEMMA StampKeepsPoint ==
  ASSUME PointTypes, BootAgrees, TimesAgree, writeSession PROVE PointStep
<1>1. /\ boot.what = "stamp" /\ boot' = [boot EXCEPT !.what = "show"]
      /\ meta' = [point |-> boot.point, issued |-> boot.issued]
      /\ UNCHANGED << now, cached, session, shelf, warehouse, ready, loading >>
  BY DEF writeSession, PhaseAfter
<1>2. /\ boot'.what = "show" /\ boot'.kind = boot.kind /\ boot'.point = boot.point
      /\ boot'.issued = boot.issued /\ boot.issued \in Nat /\ boot.point \in Points
  BY <1>1 DEF PointTypes, BootAgrees
<1>3. PointTypes'
  BY <1>1, <1>2 DEF PointTypes, Stamps, PointIds
<1>4. BootAgrees'
  BY <1>1, <1>2 DEF BootAgrees, Fetched
<1>5. TimesAgree'
  BY <1>1, <1>2 DEF TimesAgree, BootAgrees, Fetched
<1> QED
  BY <1>3, <1>4, <1>5 DEF PointStep

\* The shelf is shown; the point is taken over with it.
LEMMA ShowKeepsPoint ==
  ASSUME PointTypes, BootAgrees, TimesAgree, showProducts PROVE PointStep
<1>1. /\ boot.what = "show" /\ boot' = [boot EXCEPT !.what = "again"]
      /\ shelf' = [at |-> boot.point, issued |-> boot.issued]
      /\ IF boot.kind = "select" THEN warehouse' = boot.point /\ ready' = TRUE
         ELSE warehouse' = warehouse /\ ready' = ready
      /\ UNCHANGED << now, meta, cached, session, loading >>
  BY DEF showProducts, storeVars
<1>2. /\ boot'.what = "again" /\ boot'.kind = boot.kind /\ boot'.point = boot.point
      /\ boot'.issued = boot.issued /\ boot.issued \in Nat /\ boot.point \in Points
      /\ shelf'.at = boot.point /\ shelf'.issued = boot.issued
  BY <1>1 DEF PointTypes, BootAgrees
<1>3. PointTypes'
  BY <1>1, <1>2 DEF PointTypes, Shelves, PointIds
<1>4. BootAgrees'
  BY <1>1, <1>2 DEF BootAgrees, Fetched
<1>5. TimesAgree'
  BY <1>1, <1>2 DEF TimesAgree
<1> QED
  BY <1>3, <1>4, <1>5 DEF PointStep

\* The session is read when all else is in place.
LEMMA AgainKeepsPoint ==
  ASSUME PointTypes, BootAgrees, TimesAgree, readAgain PROVE PointStep
<1>1. /\ boot.what = "again" /\ boot' = NoBoot /\ session' = readSession /\ loading' = FALSE
      /\ UNCHANGED << now, meta, cached, shelf, warehouse, ready >>
  BY DEF readAgain, storeVars
<1>2. /\ meta = [point |-> boot.point, issued |-> boot.issued] /\ boot.point \in Points
      /\ shelf = [at |-> boot.point, issued |-> boot.issued] /\ cached[boot.point] = boot.issued
      /\ ready => warehouse = boot.point
      /\ boot.issued \in Nat /\ boot.issued <= now
  BY <1>1 DEF BootAgrees, Fetched, PointTypes, TimesAgree
<1>3. /\ boot'.what = "none" /\ session'.point = boot.point /\ session'.issued = boot.issued
      /\ shelf'.at = boot.point /\ shelf'.issued = boot.issued /\ meta.point = boot.point
      /\ meta.issued = boot.issued
  BY <1>1, <1>2 DEF NoBoot, readSession
<1>4. PointTypes'
  BY <1>1, <1>2, SessionRead DEF PointTypes, NoBoot, PointIds
<1>5. BootAgrees'
  BY <1>1, <1>2, <1>3, TillAssumption DEF BootAgrees, Whole, Fetched
<1>6. TimesAgree'
  BY <1>1, <1>2, <1>3, TillAssumption DEF TimesAgree
<1> QED
  BY <1>4, <1>5, <1>6 DEF PointStep

\* A reset empties the database and lets nobody in.
LEMMA ResetKeepsPoint ==
  ASSUME PointTypes, BootAgrees, TimesAgree, resetSellerDatabase, ~Fetched PROVE PointStep
<1>1. /\ meta' = [point |-> NoPoint, issued |-> 0] /\ cached' = [p \in Points |-> 0]
      /\ session' = NoSession /\ warehouse' = NoPoint /\ shelf' = NoShelf /\ ready' = FALSE
      /\ UNCHANGED << now, loading, boot >>
  BY DEF resetSellerDatabase
<1>2. session'.point = NoPoint /\ session'.issued = 0 /\ shelf'.at = NoPoint /\ shelf'.issued = 0
      /\ meta'.point = NoPoint /\ meta'.issued = 0
  BY <1>1 DEF NoSession, NoShelf
<1>3. PointTypes'
  BY <1>1 DEF PointTypes, NoSession, NoShelf, Stamps, Shelves, PointIds
<1>4. BootAgrees'
  BY <1>1 DEF BootAgrees, Fetched
<1>5. TimesAgree'
  BY <1>1, <1>2 DEF TimesAgree, PointTypes, Fetched
<1> QED
  BY <1>3, <1>4, <1>5 DEF PointStep

\* A tab that is closed keeps what is stored.
LEMMA ReloadKeepsPoint ==
  ASSUME PointTypes, BootAgrees, TimesAgree, reload PROVE PointStep
<1>1. /\ session' = NoSession /\ shelf' = NoShelf /\ warehouse' = NoPoint /\ ready' = FALSE
      /\ loading' = TRUE /\ boot' = [NoBoot EXCEPT !.what = "read", !.kind = "init"]
      /\ UNCHANGED << now, meta, cached >>
  BY DEF reload, storeVars
<1>2. session'.point = NoPoint /\ session'.issued = 0 /\ shelf'.at = NoPoint /\ shelf'.issued = 0
      /\ boot'.what = "read"
  BY <1>1 DEF NoSession, NoShelf, NoBoot
<1>3. PointTypes'
  BY <1>1 DEF PointTypes, NoSession, NoShelf, NoBoot, Shelves, PointIds
<1>4. BootAgrees'
  BY <1>1, <1>2 DEF BootAgrees, Fetched
<1>5. TimesAgree'
  BY <1>1, <1>2 DEF TimesAgree, PointTypes
<1> QED
  BY <1>3, <1>4, <1>5 DEF PointStep

\* A reset cannot come between the answer of the server and what is shown of it.
LEMMA NoResetMeanwhile ==
  ASSUME ResetComesFirst, Fetched PROVE ~Head1("reset")
<1> SUFFICES ASSUME ops # << >>, ops[1].op = "reset" PROVE FALSE
  BY DEF Head1
<1>1. ops[1] \in QuietRequests
  BY SMTT(30), FirstRequest DEF ResetComesFirst
<1> QED
  BY <1>1 DEF QuietRequests

\* The steps that have nothing to do with the point.
LEMMA QuietSteps ==
  ASSUME \/ serverNow \/ createOrResumeDraft \/ saveDraft \/ commitOrder \/ enqueueCommand
         \/ deleteDraft \/ getOrder \/ drainOnce \/ wizardEffect \/ resetSession \/ addItem
         \/ updateDraft \/ goNext \/ goBack \/ commitDraft \/ completeDay \/ syncAll
         \/ \E q \in 0 .. Stock : updateItemQuantity(q)
         \/ \E page \in Pages : goTo(page)
         \/ \E s \in Sales : \/ syncOrder(s)
                             \/ \E name \in {"open", "delete", "complete"} : runConfirm(s, name)
  PROVE  UNCHANGED << now, storeVars, pointVars >>
  BY DEF serverNow, createOrResumeDraft, saveDraft, commitOrder, enqueueCommand, deleteDraft,
         getOrder, drainOnce, wizardEffect, resetSession, addItem, updateDraft, goNext, goBack,
         commitDraft, completeDay, syncAll, updateItemQuantity, goTo, syncOrder, runConfirm,
         storeUntouched

\* Every step of the till keeps the point whole.
LEMMA PointsStep ==
  ASSUME PointTypes, BootAgrees, TimesAgree, ResetComesFirst, TillNext PROVE PointStep
<1>1. CASE UNCHANGED << now, storeVars, pointVars >>
  BY <1>1 DEF storeVars, pointVars, PointStep, PointTypes, BootAgrees, TimesAgree, Whole, Fetched
<1>2. CASE fetchWorkLocations
  BY <1>2 DEF fetchWorkLocations, storeVars, PointStep, PointTypes, BootAgrees, TimesAgree, Whole,
              Fetched, NoBoot, PointIds
<1>3. CASE bootFails
  BY <1>3 DEF bootFails, LoadingAfterFailure, storeVars, PointStep, PointTypes, BootAgrees,
              TimesAgree, Whole, Fetched, NoBoot, PointIds
<1>4. CASE tick
  BY <1>4 DEF tick, storeVars, pointVars, PointStep, PointTypes, BootAgrees, TimesAgree, Whole,
              Fetched, Stamps
<1>5. ASSUME NEW p \in Points, selectWarehouse(p) PROVE PointStep
  BY <1>5, BootstrapKeepsPoint DEF selectWarehouse
<1>6. CASE refreshCatalog
  <2>1. warehouse \in Points /\ Bootstrap("refresh", warehouse)
    BY <1>6 DEF refreshCatalog, PointTypes, PointIds
  <2> QED
    BY <2>1, BootstrapKeepsPoint
<1>7. CASE resetSellerDatabase
  BY <1>7, ResetKeepsPoint, NoResetMeanwhile DEF resetSellerDatabase
<1> QED
  BY <1>1, <1>2, <1>3, <1>4, <1>5, <1>6, <1>7, QuietSteps, InitKeepsPoint, FetchKeepsPoint,
     CacheKeepsPoint, StampKeepsPoint, ShowKeepsPoint, AgainKeepsPoint, ReloadKeepsPoint
     DEF TillNext, Booting, Storing

------------------------------------------------------------------------------
(* The invariant. *)

\* The invariant holds of a device that was never used.
LEMMA TillInvStarts == TillInit => TillInv
<1> SUFFICES ASSUME TillInit PROVE TillInv
  OBVIOUS
<1>1. /\ now = 1 /\ meta = [point |-> NoPoint, issued |-> 0] /\ cached = [p \in Points |-> 0]
      /\ rows = [s \in Sales |-> NoRow] /\ waiting = [s \in Sales |-> {}]
      /\ session = NoSession /\ shelf = NoShelf /\ warehouse = NoPoint
      /\ ready = FALSE /\ loading = TRUE /\ boot = [NoBoot EXCEPT !.what = "read", !.kind = "init"]
      /\ draft = NoDraft /\ ops = << >>
  BY DEF TillInit, TillMount, Mounted
<1>2. NoRow \in Rows /\ NoRow.status # "draft"
  BY PlainRequest DEF NoRow, Rows, PointIds
<1>3. SaleTypes /\ DraftsDiffer
  BY <1>1, <1>2 DEF SaleTypes, DraftsDiffer, NoDraft, SaleIds
<1>4. session.issued = 0 /\ shelf.issued = 0 /\ boot.what = "read" /\ meta.issued = 0
      /\ meta.point = NoPoint
  BY <1>1 DEF NoSession, NoShelf, NoBoot
<1>5. PointTypes
  BY <1>1 DEF PointTypes, NoSession, NoShelf, NoBoot, Stamps, Shelves, PointIds
<1>6. BootAgrees /\ TimesAgree /\ ResetComesFirst
  BY <1>1, <1>4 DEF BootAgrees, TimesAgree, ResetComesFirst, Fetched
<1> QED
  BY <1>3, <1>5, <1>6 DEF TillInv

\* A reset is asked for on a page, and the pages are covered while a bootstrap runs; one
\* that was asked for before is worked off first.
LEMMA ResetStaysFirst ==
  ASSUME TillInv, TillNext PROVE ResetComesFirst'
<1>1. CASE resetSession
  BY <1>1 DEF resetSession, TillInv, BootAgrees, ResetComesFirst, Fetched, pointVars
<1>2. CASE ~resetSession /\ Fetched
  BY <1>2, RequestsStep DEF TillInv, ResetComesFirst
<1>3. CASE ~resetSession /\ ~Fetched /\ Fetched'
  <2>1. replaceCachedProducts
    <3>1. ASSUME \/ init \/ fetchWorkLocations \/ bootFails \/ reload \/ fetchBootstrap \/ readAgain
                 \/ \E kind, p : Bootstrap(kind, p)
          PROVE  ~Fetched'
      <4>1. boot'.what \in {"locations", "fetch", "keep", "none", "read"}
        <5>1. boot \in [what : {"none", "read", "locations", "fetch", "keep", "stamp", "show", "again"},
                        kind : {"none", "init", "select", "refresh"}, point : PointIds, issued : Nat]
          BY DEF TillInv, PointTypes
        <5>2. NoBoot.what = "none" /\ [NoBoot EXCEPT !.what = "read", !.kind = "init"].what = "read"
              /\ \A k, p : [NoBoot EXCEPT !.what = "fetch", !.kind = k, !.point = p].what = "fetch"
          BY DEF NoBoot
        <5>3. CASE init
          BY <5>1, <5>3 DEF init
        <5>4. CASE fetchBootstrap
          BY <5>1, <5>4 DEF fetchBootstrap, PhaseAfter
        <5>5. CASE fetchWorkLocations \/ bootFails \/ readAgain \/ reload
          BY <5>2, <5>5 DEF fetchWorkLocations, bootFails, readAgain, reload
        <5>6. CASE \E kind, p : Bootstrap(kind, p)
          BY <5>2, <5>6 DEF Bootstrap
        <5> QED
          BY <3>1, <5>3, <5>4, <5>5, <5>6
      <4> QED
        BY <4>1 DEF Fetched
    <3>2. UNCHANGED pointVars => ~Fetched'
      BY <1>3 DEF pointVars, Fetched
    <3>3. resetSellerDatabase => UNCHANGED boot
      BY DEF resetSellerDatabase
    <3>4. tick => UNCHANGED pointVars
      BY DEF tick
    <3>5. ~writeSession /\ ~showProducts
      BY <1>3 DEF writeSession, showProducts, Fetched
    <3> QED
      BY <1>3, <3>1, <3>2, <3>3, <3>4, <3>5, QuietSteps
         DEF TillNext, Booting, Storing, selectWarehouse, refreshCatalog, Fetched
  <2>2. ops \in Seq(QuietRequests) /\ ops' = ops
    <3>1. ops' = ops /\ \A i \in DOMAIN ops : ops[i].op # "reset"
      BY <2>1 DEF replaceCachedProducts, ResetPending
    <3>2. ops \in Seq(Requests)
      BY DEF TillInv, SaleTypes
    <3>3. PICK n \in Nat : ops \in [1 .. n -> Requests]
      BY <3>2, SeqDef
    <3>4. \A i \in 1 .. n : ops[i] \in QuietRequests
      BY <3>1, <3>3 DEF QuietRequests
    <3>5. ops \in [1 .. n -> QuietRequests]
      BY <3>3, <3>4
    <3> QED
      BY <3>1, <3>3, <3>5, SeqDef
  <2> QED
    BY <2>2 DEF ResetComesFirst
<1> QED
  BY <1>1, <1>2, <1>3 DEF ResetComesFirst

\* Every step keeps the invariant.
LEMMA TillInvHolds == TillInv /\ [TillNext]_tillVars => TillInv'
<1> SUFFICES ASSUME TillInv, [TillNext]_tillVars PROVE TillInv'
  OBVIOUS
<1>1. CASE TillNext
  <2>1. SaleStep
    BY <1>1, SalesStep DEF TillInv
  <2>2. PointStep
    BY <1>1, PointsStep DEF TillInv
  <2>3. ResetComesFirst'
    BY <1>1, ResetStaysFirst
  <2>4. ops' \in Seq(Requests)
    <3>1. CASE resetSession
      <4> DEFINE o == [Op EXCEPT !.op = "reset"]
      <4>1. ops' = Append(ops, o)
        BY <3>1 DEF resetSession, Request
      <4>2. o \in Requests
        BY PlainRequest DEF Requests, RequestRows
      <4> HIDE DEF o
      <4> QED
        BY <4>1, <4>2, NextRequest DEF TillInv, SaleTypes
    <3> QED
      BY <1>1, <3>1, RequestsStep DEF TillInv, SaleTypes
  <2> QED
    BY <2>1, <2>2, <2>3, <2>4 DEF TillInv, SaleStep, PointStep, SaleTypes
<1>2. CASE UNCHANGED tillVars
  BY <1>2 DEF tillVars, storeVars, saleVars, pointVars, pageVars, TillInv, SaleTypes, PointTypes,
              DraftsDiffer, ResetComesFirst, BootAgrees, TimesAgree, Whole, Fetched
<1> QED
  BY <1>1, <1>2

\* The invariant, in time.
LEMMA TillInvAlways == TillSpec => []TillInv
  BY TillInvStarts, TillInvHolds, PTL DEF TillSpec

\* One unfinished sale per point, whatever asks for one and however quickly: the lookup
\* of createOrResumeDraft lies inside the transaction that creates.
THEOREM OneDraftPerPointHolds == TillSpec => []OneDraftPerPoint
<1>1. TillInv => OneDraftPerPoint
  <2> SUFFICES ASSUME TillInv, NEW p \in Points
               PROVE  Cardinality({s \in Sales : rows[s].status = "draft" /\ rows[s].point = p}) <= 1
    BY DEF OneDraftPerPoint
  <2> DEFINE D == {s \in Sales : rows[s].status = "draft" /\ rows[s].point = p}
  <2> SUFFICES Cardinality(D) <= 1
    OBVIOUS
  <2>1. CASE D = {}
    BY <2>1, FS_EmptySet
  <2>2. CASE D # {}
    <3>1. PICK s \in D : TRUE
      BY <2>2
    <3>2. D = {s}
      BY <3>1 DEF TillInv, DraftsDiffer
    <3> HIDE DEF D
    <3>3. Cardinality({s}) = 1
      BY FS_Singleton
    <3> QED
      BY <3>2, <3>3
  <2> QED
    BY <2>1, <2>2
<1> QED
  BY <1>1, TillInvAlways, PTL

\* A seller who is let in sees the products of the point that the session and the store
\* name, through failed bootstraps, closed tabs and resets (bootstrapWarehouse, init).
THEOREM PointStaysWhole == TillSpec => []PointIsWhole
<1>1. TillInv => PointIsWhole
  BY DEF TillInv, BootAgrees, Whole, Fetched, PointIsWhole
<1> QED
  BY <1>1, TillInvAlways, PTL

\* The session never looks fresher than the tokens it stands for, at every step of a
\* bootstrap and after a crash inside one: products are stored before the session.
THEOREM SessionNeverFresher == TillSpec => []NeverFresher
<1>1. TillInv => NeverFresher
  BY DEF TillInv, TimesAgree, NeverFresher
<1> QED
  BY <1>1, TillInvAlways, PTL
===============================================================================
