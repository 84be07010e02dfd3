------------------------------ MODULE SellerTill ------------------------------
(***************************************************************************)
(* The seller's app around its queue: SellerProvider, the cached catalogue *)
(* and session of a work point, the wizard of a sale and the pages that    *)
(* list sales.                                                             *)
(*                                                                         *)
(* What a draft holds is in IndexedDB; the context keeps the copy that is  *)
(* shown.  Operations on the store run one after another, in the order in  *)
(* which they were requested.  What is sent of a sale, and when, is        *)
(* SellerSync; here a drain takes its time and brings a verdict.           *)
(***************************************************************************)
EXTENDS Naturals, FiniteSets, Sequences, SequencesExt

CONSTANTS
  Points, NoPoint,   \* work points of the seller
  Sales, NoSale,     \* client_order_id
  Stock,             \* available_quantity of the one product, in steps of sale
  Ttl,               \* price_snapshot_ttl_hours, in ticks
  MaxNow,            \* bound: the clock
  MaxPresses         \* bound: what the seller, the network and the clock do

VARIABLES
  now,
  meta, cached,                          \* db.meta; db.products: issue of each point's tokens
  rows, waiting,                         \* db.orders; actions in db.outbox, by sale
  session, located, shelf, warehouse,    \* session, workLocations, products, warehouseId
  ready, loading, boot,                  \* boot: init, selectWarehouse, refreshCatalog under way
  draft,                                 \* draft of the context
  route, stage, submitting, asked,       \* the page; OrderWizardPage and whether its effect ran
  ops, drains, syncing,                  \* requested of the store; drainTail; syncing
  presses

storeVars == << meta, cached >>
saleVars == << rows, waiting >>
pointVars == << session, located, shelf, warehouse, ready, loading, boot >>
pageVars == << route, stage, submitting, asked >>
tillVars == << now, storeVars, saleVars, pointVars, draft, pageVars, ops, drains, syncing,
               presses >>

ASSUME TillAssumption ==
  /\ NoPoint \notin Points /\ NoSale \notin Sales /\ IsFiniteSet(Sales)
  /\ Stock \in Nat /\ Ttl \in Nat /\ MaxNow \in Nat \ {0} /\ MaxPresses \in Nat

NoSession == [point |-> NoPoint, issued |-> 0, expired |-> FALSE]

\* Mutant: a snapshot that was found expired once counts as expired for good.
readSessionForGood ==
  [point |-> meta.point, issued |-> meta.issued,
   expired |-> session.expired \/ now > meta.issued + Ttl]

\* `expired` is worked out when the session is set, and not again as time passes.
readSession == [point |-> meta.point, issued |-> meta.issued, expired |-> now > meta.issued + Ttl]

NoShelf == [at |-> NoPoint, issued |-> 0]

NoRow == [status |-> "none", point |-> NoPoint, occurred |-> 0, qty |-> 0, item |-> NoShelf,
          paid |-> FALSE, server |-> "none"]
emptyOrder(p, t) == [NoRow EXCEPT !.status = "draft", !.point = p, !.occurred = t]

\* The copy of a row that the context keeps.
Copy(s, row) == [id |-> s, qty |-> row.qty, paid |-> row.paid]
NoDraft == [id |-> NoSale, qty |-> 0, paid |-> FALSE]

NoBoot == [what |-> "none", kind |-> "none", point |-> NoPoint, issued |-> 0]

Op == [op |-> "none", id |-> NoSale, point |-> NoPoint, qty |-> 0, item |-> NoShelf,
       clock |-> FALSE, when |-> 0, seen |-> NoSale, then |-> {}]

Press == presses < MaxPresses /\ presses' = presses + 1

Request(o) == ops' = Append(ops, o)

Head1(name) == ops # << >> /\ ops[1].op = name

ResetPending == \E i \in DOMAIN ops : ops[i].op = "reset"

\* A page that is left, or covered by the layout's spinner, is unmounted.
GoTo(page) == route' = page /\ stage' = 1 /\ submitting' = NoSale /\ asked' = FALSE

Covered == GoTo(route) /\ loading' = TRUE

------------------------------------------------------------------------------
(* The work point and its catalogue. *)

\* init() when the section is mounted.
init ==
  /\ boot.what = "read"
  /\ IF meta.point = NoPoint
     THEN /\ boot' = [boot EXCEPT !.what = "locations"]
          /\ UNCHANGED << session, shelf, warehouse, ready >>
     ELSE /\ session' = readSession
          /\ warehouse' = meta.point /\ ready' = TRUE
          /\ shelf' = [at |-> meta.point, issued |-> cached[meta.point]]
          /\ boot' = [boot EXCEPT !.what = "fetch", !.point = meta.point]
  /\ UNCHANGED << now, storeVars, saleVars, located, loading, draft, pageVars, ops, drains,
                  syncing, presses >>

fetchWorkLocations ==
  /\ boot.what = "locations"
  /\ located' = TRUE /\ loading' = FALSE /\ boot' = NoBoot
  /\ UNCHANGED << now, storeVars, saleVars, session, shelf, warehouse, ready, draft, pageVars,
                  ops, drains, syncing, presses >>

\* Mutant: the point is taken over before its catalogue has come.
PointWhenAsked(p) == p

\* selectWarehouse takes the point over when everything of it is there.
PointWhenAskedFor(p) == warehouse

\* A call of bootstrapWarehouse begins; its page gives way to the spinner.
Bootstrap(kind, p) ==
  /\ ~loading /\ Covered
  /\ boot' = [NoBoot EXCEPT !.what = "fetch", !.kind = kind, !.point = p]
  /\ warehouse' = PointWhenAskedFor(p)
  /\ UNCHANGED << now, storeVars, saleVars, session, located, shelf, ready, draft, ops, drains,
                  syncing >>

\* Layout: the list of points, the select of the header; the chips of the dashboard.
selectWarehouse(p) ==
  /\ located
  /\ IF warehouse = NoPoint THEN UNCHANGED presses ELSE Press
  /\ Bootstrap("select", p)

refreshCatalog ==
  /\ route = "dashboard" /\ ready /\ warehouse # NoPoint /\ Press
  /\ Bootstrap("refresh", warehouse)

PhaseAfter == [fetch |-> "keep", keep |-> "stamp", stamp |-> "show"]

\* registerDevice and fetchBootstrap answer: tokens issued now.
fetchBootstrap ==
  /\ boot.what = "fetch"
  /\ boot' = [boot EXCEPT !.what = PhaseAfter["fetch"], !.issued = now]
  /\ UNCHANGED << now, storeVars, saleVars, session, located, shelf, warehouse, ready, loading,
                  draft, pageVars, ops, drains, syncing, presses >>

replaceCachedProducts ==
  /\ boot.what = "keep" /\ ~ResetPending
  /\ cached' = [cached EXCEPT ![boot.point] = boot.issued]
  /\ boot' = [boot EXCEPT !.what = PhaseAfter["keep"]]
  /\ UNCHANGED << now, meta, saleVars, session, located, shelf, warehouse, ready, loading,
                  draft, pageVars, ops, drains, syncing, presses >>

writeSession ==
  /\ boot.what = "stamp" /\ ~ResetPending
  /\ meta' = [point |-> boot.point, issued |-> boot.issued]
  /\ boot' = [boot EXCEPT !.what = PhaseAfter["stamp"]]
  /\ UNCHANGED << now, cached, saleVars, session, located, shelf, warehouse, ready, loading,
                  draft, pageVars, ops, drains, syncing, presses >>

\* setProducts, and for a chosen point setWarehouseId and setReady.
showProducts ==
  /\ boot.what = "show"
  /\ shelf' = [at |-> boot.point, issued |-> boot.issued]
  /\ IF boot.kind = "select" THEN warehouse' = boot.point /\ ready' = TRUE
     ELSE UNCHANGED << warehouse, ready >>
  /\ boot' = [boot EXCEPT !.what = "again"]
  /\ UNCHANGED << now, storeVars, saleVars, session, located, loading, draft, pageVars, ops,
                  drains, syncing, presses >>

readAgain ==
  /\ boot.what = "again"
  /\ session' = readSession /\ loading' = FALSE /\ boot' = NoBoot
  /\ UNCHANGED << now, storeVars, saleVars, located, shelf, warehouse, ready, draft, pageVars,
                  ops, drains, syncing, presses >>

LoadingAfterFailure == FALSE

\* Without a network, or refused, or for want of room in the store (a write that
\* fails is rolled back, the one before it stays): init goes on with the cache, the
\* others report it.  Reads of the store do not fail here.
bootFails ==
  /\ boot.what \in {"locations", "fetch", "keep", "stamp"}
  /\ boot.what \in {"keep", "stamp"} => ~ResetPending
  /\ Press
  /\ loading' = LoadingAfterFailure /\ boot' = NoBoot
  /\ UNCHANGED << now, storeVars, saleVars, session, located, shelf, warehouse, ready, draft,
                  pageVars, ops, drains, syncing >>

resetSession ==
  /\ route = "dashboard" /\ ready /\ ~loading /\ Press
  /\ Request([Op EXCEPT !.op = "reset"])
  /\ UNCHANGED << now, storeVars, saleVars, pointVars, draft, pageVars, drains, syncing >>

resetSellerDatabase ==
  /\ Head1("reset") /\ ops' = Tail(ops)
  /\ meta' = [point |-> NoPoint, issued |-> 0] /\ cached' = [p \in Points |-> 0]
  /\ rows' = [s \in Sales |-> NoRow] /\ waiting' = [s \in Sales |-> {}]
  /\ session' = NoSession /\ warehouse' = NoPoint /\ shelf' = NoShelf /\ ready' = FALSE
  /\ draft' = NoDraft
  /\ GoTo(route)
  /\ UNCHANGED << now, located, loading, boot, drains, syncing, presses >>

------------------------------------------------------------------------------
(* The wizard. *)

storeUntouched == << now, storeVars, pointVars, syncing >>

InWizard == route = "wizard" /\ ready /\ ~loading

At(name) == InWizard /\ << "catalog", "items", "payment", "review" >>[stage] = name

Expired == session.expired

\* startDraft: refused without a point, or when the snapshot is known to have expired.
StartAllowed == warehouse # NoPoint /\ ~Expired

StartDraft(product) == Request([Op EXCEPT !.op = "start", !.point = warehouse, !.item = product])

\* The effect that gives an open wizard its draft.
wizardEffect ==
  /\ InWizard /\ draft.id = NoSale /\ ~asked
  /\ asked' = TRUE
  /\ IF StartAllowed THEN StartDraft(NoShelf) ELSE UNCHANGED ops
  /\ UNCHANGED << storeUntouched, saleVars, draft, route, stage, submitting, drains, presses >>

\* The product of the shelf is captured with the press.
addItem ==
  /\ At("catalog") /\ shelf.issued > 0 /\ draft.qty + 1 <= Stock /\ Press
  /\ \/ draft.id # NoSale /\ Request([Op EXCEPT !.op = "add", !.id = draft.id, !.item = shelf])
     \/ draft.id = NoSale /\ StartAllowed /\ StartDraft(shelf)
  /\ UNCHANGED << storeUntouched, saleVars, draft, pageVars, drains >>

\* The quantity is worked out from the copy: the buttons of a line, its removal and
\* the clearing of the list.
updateItemQuantity(q) ==
  /\ At("items") /\ draft.qty > 0 /\ q \in {0, draft.qty - 1, draft.qty + 1} /\ q <= Stock /\ Press
  /\ Request([Op EXCEPT !.op = "set", !.id = draft.id, !.qty = q])
  /\ UNCHANGED << storeUntouched, saleVars, draft, pageVars, drains >>

updateDraft ==
  /\ At("payment") /\ draft.id # NoSale /\ ~draft.paid
  /\ \A i \in DOMAIN ops : ops[i].op # "pay"   \* bound: chosen once
  /\ Request([Op EXCEPT !.op = "pay", !.id = draft.id])
  /\ UNCHANGED << storeUntouched, saleVars, draft, pageVars, drains, presses >>

CanNext == /\ stage <= 2 => draft.qty > 0
           /\ stage = 3 => draft.id = NoSale \/ draft.paid

goNext ==
  /\ InWizard /\ stage < 4 /\ CanNext
  /\ stage' = stage + 1
  /\ UNCHANGED << storeUntouched, saleVars, draft, route, submitting, asked, ops, drains, presses >>

goBack ==
  /\ InWizard
  /\ IF stage = 1 THEN GoTo("dashboard")
     ELSE stage' = stage - 1 /\ UNCHANGED << route, submitting, asked >>
  /\ UNCHANGED << storeUntouched, saleVars, draft, ops, drains, presses >>

\* The last step; `submitting` names the sale whose button is disabled.
commitDraft ==
  /\ At("review") /\ submitting = NoSale /\ draft.id # NoSale /\ Press
  /\ submitting' = draft.id
  /\ Request([Op EXCEPT !.op = "commit", !.id = draft.id])
  /\ UNCHANGED << storeUntouched, saleVars, draft, route, stage, asked, drains >>

------------------------------------------------------------------------------
(* The store of sales. *)

\* Mutant: the drafts are looked up before the transaction.
FoundBefore(o) == o.seen

Draft1(p) == IF \E s \in Sales : rows[s].status = "draft" /\ rows[s].point = p
             THEN CHOOSE s \in Sales : rows[s].status = "draft" /\ rows[s].point = p ELSE NoSale

\* Looked up inside the transaction that creates.
Found(o) == Draft1(o.point)

\* Ids are never used twice.
Unused == {s \in Sales : /\ rows[s] = NoRow /\ draft.id # s
                         /\ \A i \in DOMAIN ops : ops[i].id # s /\ ops[i].seen # s
                         /\ \A i \in DOMAIN drains : drains[i].scope # {s}}

\* createOrResumeDraft reads the clock first, and asks for its transaction then.
serverNow ==
  /\ Head1("start") /\ ~ops[1].clock
  /\ ops' = Append(Tail(ops), [ops[1] EXCEPT !.clock = TRUE, !.when = now,
                                              !.seen = Draft1(ops[1].point)])
  /\ UNCHANGED << storeUntouched, saleVars, draft, pageVars, drains, presses >>

createOrResumeDraft ==
  LET o == ops[1] found == Found(o) IN
  /\ Head1("start") /\ o.clock
  /\ found # NoSale \/ Unused # {}   \* bound: the ids of the instance
  /\ LET s == IF found # NoSale THEN found ELSE CHOOSE new \in Unused : TRUE IN
       /\ rows' = [rows EXCEPT ![s] = IF found # NoSale THEN @ ELSE emptyOrder(o.point, o.when)]
       /\ draft' = Copy(s, rows'[s])
       /\ ops' = IF o.item = NoShelf THEN Tail(ops)
                 ELSE Append(Tail(ops), [Op EXCEPT !.op = "add", !.id = s, !.item = o.item])
  /\ UNCHANGED << storeUntouched, waiting, pageVars, drains, presses >>

\* A sale that is no longer there makes the operation fail.
Stored(o) == rows[o.id] # NoRow

\* addProductToDraft counts from the row, and takes the new token.
Added(row, o) == IF row.qty + 1 > Stock THEN row ELSE [row EXCEPT !.qty = @ + 1, !.item = o.item]

Patched(row, o) == CASE o.op = "add" -> Added(row, o)
                     [] o.op = "set" -> [row EXCEPT !.qty = o.qty]
                     [] o.op = "pay" -> [row EXCEPT !.paid = TRUE]

saveDraft ==
  LET o == ops[1] row == Patched(rows[o.id], o) IN
  /\ Head1("add") \/ Head1("set") \/ Head1("pay")
  /\ ops' = Tail(ops)
  /\ IF Stored(o) /\ (o.op = "add" => row # rows[o.id])
     THEN rows' = [rows EXCEPT ![o.id] = row] /\ draft' = Copy(o.id, row)
     ELSE UNCHANGED << rows, draft >>
  /\ UNCHANGED << storeUntouched, waiting, pageVars, drains, presses >>

Drain(who, scope) == [who |-> who, scope |-> scope]

\* The draft becomes a queued sale; a device that is online drains it before the
\* page moves on.
commitOrder ==
  LET o == ops[1] row == rows[o.id] IN
  /\ Head1("commit") /\ ops' = Tail(ops)
  /\ IF row.qty = 0 \/ ~row.paid
     THEN /\ submitting' = IF submitting = o.id THEN NoSale ELSE submitting
          /\ UNCHANGED << saleVars, draft, route, stage, asked, drains >>
     ELSE /\ rows' = [rows EXCEPT ![o.id].status = "queued"]
          /\ waiting' = [waiting EXCEPT ![o.id] = @ \cup {"upsert"}]
          /\ draft' = NoDraft
          /\ \/ /\ drains' = Append(drains, Drain("wizard", {o.id}))
                /\ asked' = FALSE /\ UNCHANGED << route, stage, submitting >>
             \/ GoTo("orders") /\ UNCHANGED drains
  /\ UNCHANGED << storeUntouched, presses >>

enqueueCommand ==
  LET o == ops[1] IN
  /\ Head1("complete") /\ ops' = Tail(ops)
  /\ IF Stored(o)
     THEN /\ rows' = [rows EXCEPT ![o.id].status = IF "complete" \in waiting[o.id] THEN @ ELSE "queued"]
          /\ waiting' = [waiting EXCEPT ![o.id] = @ \cup {"complete"}]
          /\ \/ o.then # {} /\ drains' = Append(drains, Drain("command", o.then))
             \/ UNCHANGED drains
     ELSE UNCHANGED << saleVars, drains >>
  /\ UNCHANGED << storeUntouched, draft, pageVars, presses >>

deleteDraft ==
  LET o == ops[1] IN
  /\ Head1("delete") /\ ops' = Tail(ops)
  /\ rows' = IF waiting[o.id] = {} THEN [rows EXCEPT ![o.id] = NoRow] ELSE rows
  /\ UNCHANGED << storeUntouched, waiting, draft, pageVars, drains, presses >>

\* openDraft, and the way to the wizard when it is there.
getOrder ==
  LET o == ops[1] IN
  /\ Head1("open") /\ ops' = Tail(ops)
  /\ draft' = IF Stored(o) THEN Copy(o.id, rows[o.id]) ELSE NoDraft
  /\ GoTo("wizard")
  /\ UNCHANGED << storeUntouched, saleVars, drains, presses >>

------------------------------------------------------------------------------
(* The lists of sales and what is sent of them. *)

Pages == {"dashboard", "wizard", "orders"}

goTo(page) ==
  /\ ready /\ ~loading /\ page # route
  /\ Len(ops) < 2   \* bound: what a page leaves behind
  /\ GoTo(page)
  /\ UNCHANGED << storeUntouched, saleVars, draft, ops, drains, presses >>

OnOrders(s) == route = "orders" /\ ready /\ ~loading /\ rows[s] # NoRow

\* The page of a sale; which of its buttons there are is worked out from the row.
Buttons(row) == (IF row.status = "draft" THEN {"open", "delete"} ELSE {})
                \cup (IF row.server = "reserved" THEN {"open", "complete"} ELSE {})

runConfirm(s, name) ==
  /\ OnOrders(s) /\ name \in Buttons(rows[s]) /\ Press
  /\ Request([Op EXCEPT !.op = name, !.id = s, !.then = IF name = "complete" THEN {s} ELSE {}])
  /\ UNCHANGED << storeUntouched, saleVars, draft, pageVars, drains >>

\* Every sale that the server lets be completed, one after another, then one drain.
completeDay ==
  LET due == SetToSeq({s \in Sales : rows[s].server = "reserved"}) IN
  /\ route = "orders" /\ ready /\ ~loading /\ due # << >>
  /\ \E s \in Sales : waiting[s] # {}
  /\ Len(drains) < 2 /\ \A i \in DOMAIN ops : ops[i].op # "complete"   \* bound: once at a time
  /\ ops' = ops \o [i \in DOMAIN due |->
       [Op EXCEPT !.op = "complete", !.id = due[i], !.then = IF i = Len(due) THEN Sales ELSE {}]]
  /\ UNCHANGED << storeUntouched, saleVars, draft, pageVars, drains, presses >>

isBusy(s) == s \in syncing

syncOrder(s) ==
  /\ OnOrders(s) /\ rows[s].status \in {"queued", "rejected"} /\ ~isBusy(s) /\ Press
  /\ syncing' = syncing \cup {s}
  /\ drains' = Append(drains, Drain("sync", {s}))
  /\ UNCHANGED << now, storeVars, saleVars, pointVars, draft, pageVars, ops >>

syncAll ==
  /\ ready /\ ~loading /\ Press
  /\ \E s \in Sales : waiting[s] # {}
  /\ drains' = Append(drains, Drain("all", Sales))
  /\ UNCHANGED << storeUntouched, saleVars, draft, pageVars, ops >>

\* decodeAndVerify: the time of the sale lies in the life of its token.
Accepted(row) == row.item.issued <= row.occurred /\ row.occurred <= row.item.issued + Ttl

\* A version first, a command after it; a command of a rejected sale stays.
Upserted(s) ==
  IF "upsert" \notin waiting[s] THEN rows[s]
  ELSE IF Accepted(rows[s]) /\ rows[s].server # "completed"
  THEN [rows[s] EXCEPT !.status = "synced", !.server = "reserved"]
  ELSE [rows[s] EXCEPT !.status = "rejected"]

Sendable(s) == "complete" \in waiting[s] /\ Upserted(s).server # "none"
                                         /\ Upserted(s).status # "rejected"

Answered(s) == IF Sendable(s) THEN [Upserted(s) EXCEPT !.status = "synced", !.server = "completed"]
               ELSE Upserted(s)

SyncingAfter(d, got) == IF d.who = "sync" THEN syncing \ d.scope ELSE syncing

\* The drains of a tab run one after another.  A sale that has just been committed
\* takes the seller to the orders when its drain ends, wherever he is by then.
drainOnce ==
  /\ drains # << >> /\ drains' = Tail(drains)
  /\ \E got \in BOOLEAN :
       LET d == drains[1] in == IF got THEN {s \in d.scope : rows[s] # NoRow} ELSE {} IN
       /\ rows' = [s \in Sales |-> IF s \in in THEN Answered(s) ELSE rows[s]]
       /\ waiting' = [s \in Sales |-> IF s \in in
            THEN waiting[s] \ ({"upsert"} \cup (IF Sendable(s) THEN {"complete"} ELSE {}))
            ELSE waiting[s]]
       /\ syncing' = SyncingAfter(d, got)
       /\ IF d.who = "wizard" THEN GoTo("orders") ELSE UNCHANGED pageVars
  /\ UNCHANGED << now, storeVars, pointVars, draft, ops, presses >>

------------------------------------------------------------------------------
(* The device. *)

tick ==
  /\ now < MaxNow /\ now' = now + 1 /\ Press
  /\ UNCHANGED << storeVars, saleVars, pointVars, draft, pageVars, ops, drains, syncing >>

Mounted ==
  /\ session = NoSession /\ located = FALSE /\ shelf = NoShelf /\ warehouse = NoPoint
  /\ ready = FALSE /\ loading = TRUE /\ boot = [NoBoot EXCEPT !.what = "read", !.kind = "init"]
  /\ draft = NoDraft /\ stage = 1 /\ submitting = NoSale /\ asked = FALSE
  /\ ops = << >> /\ drains = << >> /\ syncing = {}

\* The tab is closed and opened again: what was stored is there, what was only
\* requested is not.
reload ==
  /\ Press
  /\ session' = NoSession /\ located' = FALSE /\ shelf' = NoShelf /\ warehouse' = NoPoint
  /\ ready' = FALSE /\ loading' = TRUE /\ boot' = [NoBoot EXCEPT !.what = "read", !.kind = "init"]
  /\ draft' = NoDraft /\ GoTo(route)
  /\ ops' = << >> /\ drains' = << >> /\ syncing' = {}
  /\ UNCHANGED << now, storeVars, saleVars >>

TillMount ==
  /\ now = 1
  /\ meta = [point |-> NoPoint, issued |-> 0] /\ cached = [p \in Points |-> 0]
  /\ rows = [s \in Sales |-> NoRow] /\ waiting = [s \in Sales |-> {}]
  /\ route = "dashboard" /\ presses = 0
  /\ Mounted

TillInit == TillMount

Booting == init \/ fetchWorkLocations \/ fetchBootstrap \/ replaceCachedProducts \/ writeSession
           \/ showProducts \/ readAgain

Storing == resetSellerDatabase \/ serverNow \/ createOrResumeDraft \/ saveDraft \/ commitOrder
           \/ enqueueCommand \/ deleteDraft \/ getOrder

TillNext ==
  \/ Booting \/ bootFails \/ Storing \/ drainOnce \/ wizardEffect
  \/ \E p \in Points : selectWarehouse(p)
  \/ refreshCatalog \/ resetSession
  \/ addItem \/ updateDraft \/ goNext \/ goBack \/ commitDraft
  \/ \E q \in 0 .. Stock : updateItemQuantity(q)
  \/ \E page \in Pages : goTo(page)
  \/ \E s \in Sales : syncOrder(s) \/ \E name \in {"open", "delete", "complete"} : runConfirm(s, name)
  \/ completeDay \/ syncAll
  \/ tick \/ reload

\* Calls are answered or fail, the store works off what it is asked, drains end and
\* effects run; nobody has to press a button.
TillFairness ==
  /\ WF_tillVars(Booting \/ bootFails) /\ WF_tillVars(Storing)
  /\ WF_tillVars(drainOnce) /\ WF_tillVars(wizardEffect)

TillSpec == TillInit /\ [][TillNext]_tillVars /\ TillFairness

------------------------------------------------------------------------------
(* Properties. *)

\* One unfinished sale per point, however often the wizard, its effect and quick
\* presses ask for one (createOrResumeDraft).
OneDraftPerPoint ==
  \A p \in Points : Cardinality({s \in Sales : rows[s].status = "draft" /\ rows[s].point = p}) <= 1

\* A seller who is let in sees the products of the point that the session and the
\* store name, whether a bootstrap failed at any of its steps, the tab was closed
\* inside one, or the session was reset.  The snapshot whose expiry is watched is the
\* one of the store, and no fresher than the goods, on the screen or cached.
PointIsWhole ==
  ready /\ ~loading =>
    /\ warehouse # NoPoint /\ meta.point = warehouse
    /\ session.point = warehouse /\ shelf.at = warehouse
    /\ session.issued = meta.issued
    /\ session.issued <= shelf.issued /\ shelf.issued <= cached[warehouse]

\* The session never looks fresher than the tokens it stands for, in the store and
\* on the screen, at every step of a bootstrap and after a crash inside one: an
\* expired snapshot would be sold from otherwise.
NeverFresher ==
  /\ meta.point # NoPoint => meta.issued <= cached[meta.point]
  /\ session.point = shelf.at => session.issued <= shelf.issued

\* The spinner of the layout ends.
LayoutLoads == loading ~> ~loading

\* The price snapshot of the session has expired, whether the page knows or not.
Outdated == now > session.issued + Ttl

\* A seller who stays in the wizard gets a draft, also after each sale and after a
\* catalogue that had expired was loaded anew, as long as its snapshot lives.
WizardGetsDraft == [](InWizard /\ ~Outdated /\ draft.id = NoSale
                      => <>(draft.id # NoSale \/ Outdated \/ ~InWizard))

\* What seller-pwa.md:91-92 says: after the snapshot's expires_at no new sale is begun
\* before the catalogue is loaded anew.
Starts == Cardinality({i \in DOMAIN ops : ops[i].op = "start"})

NoSaleAfterExpiry == [][Outdated /\ session # NoSession => Starts' <= Starts]_tillVars

\* What seller-pwa.md:90 says: a sale made in the life of its snapshot is accepted.
SalesAreAccepted == \A s \in Sales : rows[s].status # "rejected"
===============================================================================
